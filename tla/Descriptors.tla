----------------------------- MODULE Descriptors -----------------------------
(***************************************************************************)
(* The file descriptors of a main cache's or a group's process.  Several   *)
(* functions do not close what they opened, on success or on the way out   *)
(* of an error; the process runs for months.  A function is the sequence   *)
(* of its opens and closes, once through each loop (a loop body closes     *)
(* what it opens).  Left out are the sockets of gRPC and the log's file    *)
(* (Limit is what they leave), and a handler that runs twice at once.      *)
(***************************************************************************)
EXTENDS Integers, Sequences

CONSTANTS Limit,      \* descriptors the process may have
          Groups,     \* length of the group list
          MaxRounds   \* bound on the rounds of each thread

ASSUME DescriptorsAssumption ==
  {Limit, Groups, MaxRounds} \subseteq Nat /\ Limit >= 2

VARIABLES server,   \* whose process it is
          leaked,   \* descriptors nobody will close
          held,     \* per thread: those its function may still close
          prog, at, \* ... the functions still to be called, the step in the first
          rounds,   \* ... rounds begun since the start of the process
          clients,  \* calls of startClient since then
          starved   \* whether an open has failed since then

vars == <<server, leaked, held, prog, at, rounds, clients, starved>>

-----------------------------------------------------------------------------
(* An open which, if it fails, closes n and returns; skips n steps; or is   *)
(* not looked at before the file is used.                                   *)
Open(n) == [op |-> "open", n |-> n]
Try(n) == [op |-> "try", n |-> n]
Blind == [op |-> "blind", n |-> 0]
Close(n) == [op |-> "close", n |-> n]

getAfpName == <<Open(0), Open(0), Close(2)>>

movLogFile == <<Open(0), Close(1), Open(0), Try(2), Blind, Close(2), Close(1)>>

cntSrhNums == <<Open(0), Open(0), Try(1), Close(1), Close(2)>>

\* A bug: the result stays open.
fltLogFileLeaks == <<Open(0), Open(1), Open(2), Close(2)>>
fltLogFile == <<Open(0), Open(1), Open(2), Close(3)>>

topAfpFile == <<Open(0), Open(1), Close(2)>>
botAfpFile == <<Open(0), Open(1), Open(2), Close(3)>>

\* A bug: no fclose().
movAfpFileLeaks == <<Open(0), Open(0)>>
movAfpFile == <<Open(0), Open(0), Close(1)>>

movCntFile == <<Open(0), Open(0)>>
groupList == <<Open(0)>>
afpMove == <<Open(0), Try(1), Close(1)>>
Afpmove == <<Open(0), Close(1)>>
routing_fn == <<Open(0), Close(1)>>

Steps == [getAfpName |-> getAfpName, movLogFile |-> movLogFile,
          cntSrhNums |-> cntSrhNums, fltLogFile |-> fltLogFile,
          topAfpFile |-> topAfpFile, botAfpFile |-> botAfpFile,
          movAfpFile |-> movAfpFile, movCntFile |-> movCntFile,
          groupList |-> groupList, afpMove |-> afpMove, Afpmove |-> Afpmove,
          routing_fn |-> routing_fn]

Summary == <<"getAfpName", "movLogFile", "cntSrhNums", "fltLogFile">>
runLoop == <<"groupList">> \o Summary \o <<"botAfpFile">>
             \o [i \in 1..(2 * Groups) |-> IF i % 2 = 1 THEN "movCntFile" ELSE "afpMove"]
Preconf == Summary \o <<"topAfpFile", "movAfpFile">>

Thread == {"Afpmove", "routing_fn", "runLoop", "Preconf", "runClient"}
Running == {"Afpmove", "routing_fn"}
             \cup (IF server = "main" THEN {"runLoop"} ELSE {"Preconf", "runClient"})

Program(t) == CASE t = "runLoop" -> runLoop
                [] t = "Preconf" -> Preconf
                [] t = "runClient" -> <<"afpMove">>
                [] OTHER -> <<t>>

-----------------------------------------------------------------------------
\* startInspect and main keep a file each.
Init ==
  /\ server \in {"main", "group"}
  /\ leaked = 2 /\ held = [t \in Thread |-> 0]
  /\ prog = [t \in Thread |-> <<>>] /\ at = [t \in Thread |-> 1]
  /\ rounds = [t \in Thread |-> 0] /\ clients = 0 /\ starved = FALSE

Total(f) == f["Afpmove"] + f["routing_fn"] + f["runLoop"] + f["Preconf"] + f["runClient"]
Room == leaked + Total(held) < Limit

Goto(t, i) == at' = [at EXCEPT ![t] = i]
Hold(t, n) == held' = [held EXCEPT ![t] = n]

\* The function returns and leaves n descriptors open.
Leave(t, n, rest) ==
  /\ leaked' = leaked + n /\ Hold(t, 0)
  /\ prog' = [prog EXCEPT ![t] = rest] /\ Goto(t, 1)
  /\ clients' = IF Head(prog[t]) = "movAfpFile" THEN clients + 1 ELSE clients

Begin(t) ==
  /\ t \in Running /\ prog[t] = <<>> /\ rounds[t] < MaxRounds
  /\ t = "runClient" => rounds[t] < clients
  /\ prog' = [prog EXCEPT ![t] = Program(t)]
  /\ rounds' = [rounds EXCEPT ![t] = @ + 1]
  /\ UNCHANGED <<server, leaked, held, at, clients, starved>>

Current(t) == Steps[Head(prog[t])]
Stepping(t, ops) ==
  prog[t] # <<>> /\ at[t] <= Len(Current(t)) /\ Current(t)[at[t]].op \in ops

Opens(t) ==
  /\ Stepping(t, {"open", "try", "blind"}) /\ Room
  /\ Hold(t, held[t] + 1) /\ Goto(t, at[t] + 1)
  /\ UNCHANGED <<server, leaked, prog, rounds, clients, starved>>

Closes(t) ==
  /\ Stepping(t, {"close"})
  /\ Hold(t, held[t] - Current(t)[at[t]].n) /\ Goto(t, at[t] + 1)
  /\ UNCHANGED <<server, leaked, prog, rounds, clients, starved>>

Returns(t) ==
  /\ prog[t] # <<>> /\ at[t] > Len(Current(t))
  /\ \/ Leave(t, held[t], Tail(prog[t]))
     \/ Head(prog[t]) = "topAfpFile" /\ Leave(t, held[t], <<>>)  \* no line
  /\ UNCHANGED <<server, rounds, starved>>

\* Without the group list or a list of files the round is over.
OpenFails(t) ==
  /\ Stepping(t, {"open"}) /\ ~Room /\ starved' = TRUE
  /\ Leave(t, held[t] - Current(t)[at[t]].n,
           IF Head(prog[t]) \in {"groupList", "botAfpFile", "topAfpFile"} THEN <<>>
           ELSE Tail(prog[t]))
  /\ UNCHANGED <<server, rounds>>

TryFails(t) ==
  /\ Stepping(t, {"try"}) /\ ~Room /\ starved' = TRUE
  /\ Goto(t, at[t] + 1 + Current(t)[at[t]].n)
  /\ UNCHANGED <<server, leaked, held, prog, rounds, clients>>

\* movLogFile writes to a file that is not open: the process dies, and is
\* started anew.
BlindFails(t) ==
  /\ Stepping(t, {"blind"}) /\ ~Room
  /\ leaked' = 2 /\ held' = [u \in Thread |-> 0]
  /\ prog' = [u \in Thread |-> <<>>] /\ at' = [u \in Thread |-> 1]
  /\ rounds' = [u \in Thread |-> 0] /\ clients' = 0 /\ starved' = FALSE
  /\ UNCHANGED server

\* A group refuses or does not answer.
NoVisit(t) ==
  /\ prog[t] # <<>> /\ Head(prog[t]) = "movCntFile" /\ at[t] = 1
  /\ prog' = [prog EXCEPT ![t] = Tail(Tail(@))]
  /\ UNCHANGED <<server, leaked, held, at, rounds, clients, starved>>

Next == \E t \in Thread : \/ Begin(t) \/ Opens(t) \/ Closes(t) \/ Returns(t)
                          \/ OpenFails(t) \/ TryFails(t) \/ BlindFails(t) \/ NoVisit(t)

Spec == Init /\ [][Next]_vars

-----------------------------------------------------------------------------
\* What a round may leave open, and what it may need at a time.
PerRound == [t \in Thread |-> CASE t = "runLoop" -> 1 + 3 * Groups
                                [] t \in {"Preconf", "runClient"} -> 1
                                [] OTHER -> 0]
Peak == [t \in Thread |-> CASE t \notin Running -> 0
                            [] t \in {"runLoop", "Preconf"} -> 3
                            [] t = "runClient" -> 2
                            [] OTHER -> 1]
Expected == 2 + Total([t \in Thread |-> rounds[t] * PerRound[t]])

\* What leaks is known: as long as no open has failed, a day of the main cache
\* costs one descriptor and three per group, a Preconf of a group two, and
\* nothing else adds up; and no open fails before those, with what the threads
\* need at a time, have used up the limit.
KnownLeaks ==
  IF starved THEN Expected + Total(Peak) > Limit
  ELSE leaked <= Expected
=============================================================================
