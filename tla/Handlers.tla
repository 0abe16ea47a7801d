------------------------------- MODULE Handlers -------------------------------
(***************************************************************************)
(* Several GCServer::Preconf handlers of one group at work at once: a main *)
(* cache that is started again calls Preconf without waiting for the       *)
(* handler of its last call, and a client thread outlives its handler.     *)
(* They share topAfpsFile.tmp, AFP_DIR and ORG_DIR without a lock.  The    *)
(* module FingerMove has Preconf in one step; here it is taken apart from  *)
(* topAfpFile on.  What the tmp files before it contain is left open, so   *)
(* the list of a handler is any list.                                      *)
(*                                                                         *)
(* The lines of topAfpsFile.tmp are taken to have one length (the ids have *)
(* the same number of digits) and to fit the buffer of a FILE: they are    *)
(* written by fclose(), at offset 0 of whatever the file then holds, and   *)
(* read by the first fgets().                                              *)
(***************************************************************************)
EXTENDS Naturals, Sequences, FiniteSets, SequencesExt

CONSTANTS Handler,     \* the invocations of Preconf, and their clients
          Files,
          GroupLimit,  \* Config::GROUP_LIMIT
          MaxFaults    \* bound on the failures of a run

\* Each invocation has a client, a thread of its own.
C(h) == <<"c", h>>
Client == {"c"} \X Handler
Thread == Handler \cup Client

ASSUME HandlersAssumption ==
  /\ IsFiniteSet(Handler) /\ IsFiniteSet(Files) /\ {GroupLimit, MaxFaults} \subseteq Nat
  /\ Handler \cap Client = {}

VARIABLES afp, org,    \* AFP_DIR and ORG_DIR of the group
          main,        \* what has reached the main cache
          top,         \* topAfpsFile.tmp
          pc, own,     \* per handler: the call it is in, the list it made
          lines,       \* ... the lines of topAfpsFile.tmp still to be renamed
          cst, held,   \* per client: its state, the file it has read
          must, seen,  \* per thread: entries found at opendir(), entries read
          gone,        \* history: files removed from ORG_DIR before they arrived
          failed,      \* history: files an error or a crash was met about
          alone,       \* history: every Preconf began with none at work before it
          faults

dirs == <<afp, org, main>>
handlers == <<top, pc, own, lines>>
clients == <<cst, held>>
scans == <<must, seen>>
history == <<gone, failed, alone>>
vars == <<dirs, handlers, clients, scans, history, faults>>

Lists == UNION {SetToSeqs(S) : S \in {T \in SUBSET Files : Cardinality(T) <= GroupLimit}}

Init ==
  /\ afp = Files /\ org = {} /\ main = {} /\ top \in Lists  \* of an earlier day
  /\ pc = [h \in Handler |-> "idle"]
  /\ own = [h \in Handler |-> <<>>] /\ lines = [h \in Handler |-> <<>>]
  /\ cst = [h \in Handler |-> "none"] /\ held = [h \in Handler |-> {}]
  /\ must = [t \in Thread |-> {}] /\ seen = [t \in Thread |-> {}]
  /\ gone = {} /\ failed = {} /\ alone = TRUE /\ faults = 0

At(h, from, to) == pc[h] = from /\ pc' = [pc EXCEPT ![h] = to]
Working == {h \in Handler : pc[h] \notin {"idle", "end", "dead"} \/ cst[h] \in {"new", "run"}}
Fault == faults < MaxFaults /\ faults' = faults + 1

\* What readdir() may return to thread t: it need not return what has come
\* since opendir().
Entry(t) == (must[t] \cup org) \ seen[t]

-----------------------------------------------------------------------------
(* GCServer::Preconf *)

\* A bug: fopen() with "r+b", for "wb".
OpenedKeeps(old) == old
Opened(old) == <<>>

\* topAfpFile opens its file.
TopOpen(h) ==
  /\ \E l \in Lists :
       /\ own' = [own EXCEPT ![h] = l]
       /\ At(h, "idle", IF l = <<>> THEN "end" ELSE "write")
  /\ top' = Opened(top)
  /\ alone' = (alone /\ Working = {})
  /\ UNCHANGED <<dirs, lines, clients, scans, gone, failed, faults>>

Written(old, text) == text \o SubSeq(old, Len(text) + 1, Len(old))

\* fclose() writes the list over what another handler may have written.
TopClose(h) ==
  /\ At(h, "write", "empty")
  /\ top' = Written(top, own[h])
  /\ UNCHANGED <<dirs, own, lines, clients, scans, history, faults>>

\* movAfpFile: opendir() of ORG_DIR ...
EmptyOpen(h) ==
  /\ At(h, "empty", "emptying")
  /\ must' = [must EXCEPT ![h] = org]
  /\ UNCHANGED <<dirs, top, own, lines, clients, seen, history, faults>>

\* ... which fails: movAfpFile returns, and Preconf goes on to startClient() ...
EmptyOpenFails(h) ==
  /\ At(h, "empty", "rename") /\ Fault
  /\ UNCHANGED <<dirs, top, own, lines, clients, scans, history>>

\* ... remove() of an entry ...
Empty(h, f) ==
  /\ pc[h] = "emptying" /\ f \in Entry(h)
  /\ seen' = [seen EXCEPT ![h] = @ \cup {f}]
  /\ org' = org \ {f}
  /\ gone' = gone \cup ((org \cap {f}) \ main)
  /\ UNCHANGED <<afp, main, handlers, clients, must, failed, alone, faults>>

\* ... and, at the end, the first fgets() of topAfpsFile.tmp.
ReadTop(h) ==
  /\ At(h, "emptying", "rename") /\ must[h] \subseteq seen[h]
  /\ lines' = [lines EXCEPT ![h] = top]
  /\ UNCHANGED <<dirs, top, own, clients, scans, history, faults>>

\* ... or its fopen(), which fails: there are no lines to rename.
ReadTopFails(h) ==
  /\ At(h, "emptying", "rename") /\ must[h] \subseteq seen[h] /\ Fault
  /\ UNCHANGED <<dirs, top, own, lines, clients, scans, history>>

\* rename() of the next line, which does nothing if the file is gone.
Rename(h) ==
  LET now == {Head(lines[h])} \cap afp
  IN  /\ pc[h] = "rename" /\ lines[h] # <<>>
      /\ lines' = [lines EXCEPT ![h] = Tail(@)]
      /\ afp' = afp \ now /\ org' = org \cup now
      /\ UNCHANGED <<main, top, pc, own, clients, scans, history, faults>>

\* startClient() and the reply, Len(own[h]).
Start(h) ==
  /\ At(h, "rename", "end") /\ lines[h] = <<>>
  /\ cst' = [cst EXCEPT ![h] = "new"]
  /\ UNCHANGED <<dirs, top, own, lines, held, scans, history, faults>>

-----------------------------------------------------------------------------
(* GrMoveClient::afpMove *)

ClientOpen(h) ==
  /\ cst[h] = "new" /\ cst' = [cst EXCEPT ![h] = "run"]
  /\ must' = [must EXCEPT ![C(h)] = org]
  /\ UNCHANGED <<dirs, handlers, held, seen, history, faults>>

\* Its opendir() fails: it sends nothing of what is there.
ClientOpenFails(h) ==
  /\ cst[h] = "new" /\ cst' = [cst EXCEPT ![h] = "done"] /\ Fault
  /\ failed' = failed \cup (org \ main)
  /\ UNCHANGED <<dirs, handlers, held, scans, gone, alone>>

\* A bug: the client gives up, for "continue", at a file it cannot open.
ClientReadBreaks(h, f) ==
  /\ cst[h] = "run" /\ held[h] = {} /\ f \in Entry(C(h))
  /\ seen' = [seen EXCEPT ![C(h)] = @ \cup {f}]
  /\ held' = [held EXCEPT ![h] = {f} \cap org]
  /\ cst' = [cst EXCEPT ![h] = IF f \in org THEN @ ELSE "done"]
  /\ UNCHANGED <<dirs, handlers, must, history, faults>>

\* The next entry is read, or skipped if it was removed meanwhile.
ClientRead(h, f) ==
  /\ cst[h] = "run" /\ held[h] = {} /\ f \in Entry(C(h))
  /\ seen' = [seen EXCEPT ![C(h)] = @ \cup {f}]
  /\ held' = [held EXCEPT ![h] = {f} \cap org]
  /\ UNCHANGED <<dirs, handlers, cst, must, history, faults>>

\* McServer::Afpmove has it.
ClientSend(h) ==
  /\ held[h] # {}
  /\ main' = main \cup held[h] /\ held' = [held EXCEPT ![h] = {}]
  /\ UNCHANGED <<afp, org, handlers, cst, scans, history, faults>>

\* The file cannot be opened, though it is there, or the call fails.
ClientSendFails(h) ==
  /\ held[h] # {} /\ Fault
  /\ failed' = failed \cup held[h] /\ held' = [held EXCEPT ![h] = {}]
  /\ UNCHANGED <<dirs, handlers, cst, scans, gone, alone>>

\* A bug: the client stops before its last entry.
EndsEarly(h) == held[h] = {} /\ Cardinality(must[C(h)] \ seen[C(h)]) <= 1
Ends(h) == held[h] = {} /\ must[C(h)] \subseteq seen[C(h)]

ClientEnd(h) ==
  /\ cst[h] = "run" /\ Ends(h)
  /\ cst' = [cst EXCEPT ![h] = "done"]
  /\ UNCHANGED <<dirs, handlers, held, scans, history, faults>>

\* The process dies, its handlers and clients with it: those before their
\* reply never send one, and a list that was not closed is lost.
Restart ==
  /\ Fault
  /\ failed' = failed \cup ((org \cup UNION {held[h] : h \in Handler}) \ main)
  /\ pc' = [h \in Handler |-> IF pc[h] \in {"idle", "end"} THEN pc[h] ELSE "dead"]
  /\ own' = [h \in Handler |-> IF pc[h] = "write" THEN <<>> ELSE own[h]]
  /\ cst' = [h \in Handler |-> IF cst[h] = "none" THEN "none" ELSE "done"]
  /\ held' = [h \in Handler |-> {}]
  /\ lines' = [h \in Handler |-> <<>>]
  /\ UNCHANGED <<dirs, top, scans, gone, alone>>

-----------------------------------------------------------------------------
HandlerStep(h) == \/ TopOpen(h) \/ TopClose(h) \/ EmptyOpen(h) \/ EmptyOpenFails(h)
                  \/ ReadTop(h) \/ ReadTopFails(h) \/ Rename(h) \/ Start(h)
                  \/ \E f \in Files : Empty(h, f)
ClientStep(h) == \/ ClientOpen(h) \/ ClientOpenFails(h) \/ ClientSend(h)
                 \/ ClientSendFails(h) \/ ClientEnd(h) \/ \E f \in Files : ClientRead(h, f)

Next == (\E h \in Handler : HandlerStep(h) \/ ClientStep(h)) \/ Restart

Spec == Init /\ [][Next]_vars

\* Handlers and clients are threads that run.  A client whose call has not
\* come back waits for it with no deadline.
Fairness == \A h \in Handler : /\ WF_vars(pc[h] # "idle" /\ HandlerStep(h))
                               /\ WF_vars(held[h] = {} /\ ClientStep(h))
FairSpec == Spec /\ Fairness
CallsReturn == \A h \in Handler : WF_vars(held[h] # {} /\ ClientStep(h))

-----------------------------------------------------------------------------
\* Somebody is going to send f.
Pending(f) ==
  \E h \in Handler :
    \/ f \in held[h]
    \/ f \in org /\ pc[h] = "rename"
    \/ f \in org /\ cst[h] = "new"
    \/ f \in org /\ cst[h] = "run" /\ f \in must[C(h)] \ seen[C(h)]

\* However the handlers and clients overlap, a file that no error was met
\* about is in AFP_DIR, at the main cache or about to be sent, unless
\* another handler's movAfpFile has removed it from ORG_DIR.
NothingStranded ==
  \A f \in Files \ (gone \cup failed) : f \in afp \cup main \/ Pending(f)

\* A file is removed unsent only if a Preconf began while another one, or its
\* client, was still at work, or after an error.
GoneOnlyByOverlap == alone => gone \subseteq failed

\* The lines the handlers report, or are still to report, each handler its
\* own; and the files whose names are in the list of one that died before.
Listed == {h \in Handler : pc[h] \notin {"idle", "write", "dead"}}
Unreported == UNION {ToSet(own[h]) : h \in {k \in Handler : pc[k] = "dead"}}
Reported == UNION {{h} \X DOMAIN own[h] : h \in Listed}

\* Whatever movAfpFile reads, a list of another handler, two lists in one or
\* the end of an old one, the group gives up no more files than its handlers
\* report to the main cache together, beside those in the list of a handler
\* that died before its reply.
ReportsCover == Cardinality((Files \ afp) \ Unreported) <= Cardinality(Reported)

\* If the calls come back, with an answer or an error, what is renamed into
\* ORG_DIR arrives, unless it is removed or fails.
TakenArrive == CallsReturn => \A f \in Files : f \in org ~> f \in main \cup gone \cup failed
=============================================================================
