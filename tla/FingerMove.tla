---------------------------- MODULE FingerMove ----------------------------
(***************************************************************************)
(* The exchange of fingerprint files between the main cache, the group     *)
(* servers and the sub caches.                                             *)
(*                                                                         *)
(* Once a day the main cache (McService::runLoop, service.cc) lists its    *)
(* coldest files and visits the groups in turn.  A group answers Preconf   *)
(* by renaming its hottest files into ORG_DIR and starting a thread that   *)
(* sends them to the main cache (promotion); the main cache then renames   *)
(* as many cold files into its own ORG_DIR, sends them to the group and    *)
(* has every sub cache delete them (demotion).  A promoted file is added   *)
(* to the sub caches by the main cache's handler, one after the other.     *)
(*                                                                         *)
(* afp, dst and org are the directories of the hosts.  A synchronous RPC   *)
(* whose handler is one call is one step with its handler.  The main       *)
(* cache's Afpmove handler calls the sub caches itself, so it is a process *)
(* of its own: an element of calls.                                        *)
(***************************************************************************)
EXTENDS ProDeal

CONSTANTS Main, Group, Sub,        \* the hosts
          GroupList, SubList,      \* the files group_list and sub_list
          Files,                   \* the fingerprint files
          NoFile,                  \* no file
          GroupLimit, CacheLimit,  \* Config::GROUP_LIMIT, CACHE_LIMIT
          Timely,                  \* every exchange settles within its day
          MaxHits, MaxRounds, MaxClients, MaxFaults  \* bounds of a run

ASSUME FingerMoveAssumption ==
  /\ Main \notin Group \cup Sub /\ Group \cap Sub = {}
  /\ GroupList \in Seq(Group) /\ SubList \in Seq(Sub)
  /\ Files \subseteq Name /\ IsFiniteSet(Files) /\ NoFile \notin Name
  /\ Timely \in BOOLEAN
  /\ GroupLimit \in Nat /\ CacheLimit \in Nat /\ MaxHits \in Nat
  /\ MaxRounds \in Nat /\ MaxClients \in Nat /\ MaxFaults \in Nat

Holder == {Main} \cup Group     \* hosts that keep a file for good
Host == Holder \cup Sub
Client == Group \X (1..MaxClients)   \* threads of GrMoveClient

VARIABLES
  afp, dst,   \* AFP_DIR and DST_DIR of every host
  org,        \* ORG_DIR of the holders
  \* McService::runLoop
  pc, round, turn, bot, thr, result, lineCount,
  todo, cur, i,   \* McMoveClient::afpMove: entries to read, file, sub index
  \* GrMoveClient::afpMove: thread state, entries found at opendir, entries read
  cst, cmust, cseen,
  calls,      \* invocations of McServer::Afpmove
  \* history: files an error was met about, that a crash cut off or that
  \* another step overtook; faults so far
  troubled, faults

dirs == <<afp, dst, org>>
listing == <<bot, thr, round>>
loop == <<pc, turn, result, lineCount, todo, cur, i>>
clients == <<cst, cmust, cseen>>
vars == <<dirs, listing, loop, clients, calls, troubled, faults>>

Call == [client : Client, file : Files, i : 1..(Len(SubList) + 1),
         ph : {"add", "store"}, heard : BOOLEAN]

\* The next group of the list, the one being visited.
Visited == GroupList[turn + 1]

\* Entries that client c is sure to read, and those it may read: readdir()
\* need not return what was created after opendir().
Sure(c) == CASE cst[c] = "new" -> org[c[1]]
             [] cst[c] = "run" -> cmust[c] \ cseen[c]
             [] OTHER          -> {}
May(c) == CASE cst[c] = "new" -> org[c[1]]
            [] cst[c] = "run" -> (cmust[c] \cup org[c[1]]) \ cseen[c]
            [] OTHER          -> {}

Waiting(c) == \E k \in calls : k.client = c /\ k.heard
Called == {k.file : k \in calls}
Served(h) == afp[h] \cup dst[h]

\* Nothing is on its way and every directory DST_DIR has been emptied.
Settled == /\ \A c \in Client : cst[c] \in {"none", "done"}
           /\ calls = {}
           /\ \A h \in Host : dst[h] = {}

Fault == faults < MaxFaults /\ faults' = faults + 1
NoFault == UNCHANGED faults
Trouble(S) == troubled' = troubled \cup S

\* Every file is kept by one holder, and the sub caches mirror the main cache.
Init ==
  /\ \E home \in [Files -> Holder] :
       afp = [h \in Host |-> {f \in Files : home[f] = IF h \in Sub THEN Main ELSE h}]
  /\ dst = [h \in Host |-> {}] /\ org = [h \in Holder |-> {}]
  /\ pc = "sleep" /\ round = 0 /\ turn = 0
  /\ bot = <<>> /\ thr = 0 /\ result = 0 /\ lineCount = 0
  /\ todo = {} /\ cur = NoFile /\ i = 0
  /\ cst = [c \in Client |-> "none"]
  /\ cmust = [c \in Client |-> {}] /\ cseen = [c \in Client |-> {}]
  /\ calls = {} /\ troubled = {} /\ faults = 0

\* Two bugs of the renaming: it copies, or ORG_DIR is not emptied first.
TakeCopies(h, S) == org' = [org EXCEPT ![h] = S] /\ UNCHANGED afp
TakeKeeps(h, S) == /\ afp' = [afp EXCEPT ![h] = @ \ S]
                   /\ org' = [org EXCEPT ![h] = @ \cup S]

\* Empty ORG_DIR and rename the files S of AFP_DIR into it.
Take(h, S) == /\ afp' = [afp EXCEPT ![h] = @ \ S]
              /\ org' = [org EXCEPT ![h] = S]

-----------------------------------------------------------------------------
(* The main cache's daily loop *)

\* List the coldest files of a directory dir.
List(dir) ==
  /\ pc = "sleep" /\ round < MaxRounds /\ round' = round + 1
  /\ Timely => Settled
  /\ \E hits \in [Song -> 0..MaxHits] : \E b \in ColdLists(dir, hits, CacheLimit) :
       bot' = b.list /\ thr' = b.thr
  /\ turn' = 0 /\ lineCount' = 0 /\ pc' = "preconf"
  /\ UNCHANGED <<dirs, result, todo, cur, i, clients, calls, troubled>>

Prep == List(afp[Main]) /\ NoFault

\* A call before botAfpFile failed: the list comes from old tmp files.
PrepStale == Fault /\ \E dir \in SUBSET Files : List(dir)

\* group_list does not open, or botAfpFile fails: wait one day.
PrepFails ==
  /\ pc = "sleep" /\ round < MaxRounds /\ round' = round + 1
  /\ Fault
  /\ UNCHANGED <<dirs, bot, thr, loop, clients, calls, troubled>>

\* A bug: the files are renamed, but no client is started.
StartNoClient(g) == UNCHANGED cst

\* GrMoveClient::startClient: the thread has not yet opened ORG_DIR.
StartClient(g) ==
  \E n \in 1..MaxClients :
    /\ cst[<<g, n>>] = "none"
    /\ \A m \in 1..(n - 1) : cst[<<g, m>>] # "none"
    /\ cst' = [cst EXCEPT ![<<g, n>>] = "new"]

\* GCServer::Preconf in group g, called with thr: the files of top present in
\* AFP_DIR go to ORG_DIR, which is emptied first, and a new client starts.
Preconf(g, top) ==
  LET up == movAfpFile(afp[g], top)
  IN  /\ Take(g, up)
      /\ StartClient(g)
      /\ Trouble(UNION {org[g] \cap Sure(c) : c \in {g} \X (1..MaxClients)})
      /\ UNCHANGED <<dst, cmust, cseen, calls>>

\* A group's list: topAfpFile at work on the searches of this group.
Tops(dir) ==
  UNION {HotLists(dir, hits, thr, GroupLimit) : hits \in [Song -> 0..MaxHits]}

PreconfOk ==
  /\ pc = "preconf" /\ turn < Len(GroupList)
  /\ \E top \in Tops(afp[Visited]) \ {<<>>} :
       Preconf(Visited, top) /\ result' = Len(top)
  /\ pc' = "mov" /\ NoFault
  /\ UNCHANGED <<listing, turn, lineCount, todo, cur, i>>

\* An earlier call of the chain failed: the list comes from old tmp files.
PreconfStale ==
  /\ pc = "preconf" /\ turn < Len(GroupList)
  /\ \E dir \in SUBSET Files : \E top \in Tops(dir) \ {<<>>} :
       Preconf(Visited, top) /\ result' = Len(top)
  /\ pc' = "mov" /\ Fault
  /\ UNCHANGED <<listing, turn, lineCount, todo, cur, i>>

\* The group works, but the main cache gets no OK and skips it.
PreconfLost ==
  /\ pc = "preconf" /\ turn < Len(GroupList)
  /\ \E top \in Tops(afp[Visited]) \ {<<>>} : Preconf(Visited, top)
  /\ turn' = turn + 1 /\ Fault
  /\ UNCHANGED <<listing, pc, result, lineCount, todo, cur, i>>

\* movAfpFile does not open topAfpsFile.tmp (ORG_DIR already emptied) or not
\* even ORG_DIR (nothing done); Preconf goes on either way.
PreconfMoveFails ==
  /\ pc = "preconf" /\ turn < Len(GroupList)
  /\ \E top \in Tops(afp[Visited]) \ {<<>>} : result' = Len(top)
  /\ \/ Preconf(Visited, <<>>)
     \/ /\ StartClient(Visited)
        /\ Trouble(org[Visited])
        /\ UNCHANGED <<dirs, cmust, cseen, calls>>
  /\ pc' = "mov" /\ Fault
  /\ UNCHANGED <<listing, turn, lineCount, todo, cur, i>>

\* A bug: the loop reads on after the last group.
PreconfNoEnd ==
  /\ pc = "preconf"
  /\ turn' = turn + 1
  /\ UNCHANGED <<dirs, listing, pc, result, lineCount, todo, cur, i, clients,
                 calls, troubled, faults>>

\* CANCELLED because no file is hot enough, or the group is not reached.
PreconfRefused ==
  /\ pc = "preconf" /\ turn < Len(GroupList)
  /\ turn' = turn + 1
  /\ UNCHANGED <<dirs, listing, pc, result, lineCount, todo, cur, i, clients,
                 calls, troubled, faults>>

\* movCntFile, then opendir() in McMoveClient::afpMove.  A file is overtaken
\* if a client or a handler is still busy with it or a second copy of it, sent
\* by a second client, waits in DST_DIR.
MovCnt ==
  LET down == movCntFile(afp[Main], bot, lineCount, result)
  IN  /\ pc = "mov"
      /\ Take(Main, down)
      /\ lineCount' = lineCount + result
      /\ todo' = org'[Main] /\ pc' = "move"
      /\ Trouble(down \cap (Called \cup dst[Main] \cup UNION {May(c) : c \in Client}))
      /\ NoFault
      /\ UNCHANGED <<dst, listing, turn, result, cur, i, clients, calls>>

\* One of the two opens of movCntFile fails; afpMove sends what ORG_DIR holds.
MovCntFails ==
  /\ pc = "mov" /\ Fault
  /\ \/ todo' = org[Main] /\ Trouble(org[Main]) /\ UNCHANGED org
     \/ todo' = {} /\ org' = [org EXCEPT ![Main] = {}] /\ UNCHANGED troubled
  /\ lineCount' = lineCount + result /\ pc' = "move"
  /\ UNCHANGED <<afp, dst, listing, turn, result, cur, i, clients, calls>>

\* afpMove does not open ORG_DIR: nothing is sent to this group.
OpenOrgFails ==
  /\ pc = "move" /\ todo = org[Main] /\ Fault
  /\ todo' = {} /\ Trouble(todo)
  /\ UNCHANGED <<dirs, listing, pc, turn, result, lineCount, cur, i, clients, calls>>

\* A bug: the directory is read from its start again.
PutAgain(f) ==
  /\ pc = "move" /\ f \in todo
  /\ cur' = f /\ i' = 1 /\ pc' = "del"
  /\ UNCHANGED <<afp, org, todo, listing, turn, result, lineCount, clients, calls>>

\* The next file goes to the group; GMServer::Afpmove writes it into DST_DIR.
Put(f) ==
  /\ pc = "move" /\ f \in todo
  /\ todo' = todo \ {f} /\ cur' = f /\ i' = 1 /\ pc' = "del"
  /\ UNCHANGED <<afp, org, listing, turn, result, lineCount, clients, calls>>

\* A bug: the group says OK and writes nothing.
PutNothing(f) == Put(f) /\ NoFault /\ UNCHANGED <<dst, troubled>>

PutOk(f) ==
  /\ Put(f)
  /\ dst' = [dst EXCEPT ![Visited] = @ \cup {f}]
  /\ NoFault /\ UNCHANGED troubled

\* No OK from the group, whether it wrote the file or not.  The file is
\* deleted from the sub caches all the same.
PutFails(f) ==
  /\ Put(f) /\ Fault /\ Trouble({f})
  /\ \/ dst' = [dst EXCEPT ![Visited] = @ \cup {f}]
     \/ UNCHANGED dst

\* fopen() of the file in ORG_DIR fails: the file is skipped.
ReadFails(f) ==
  /\ pc = "move" /\ f \in todo /\ todo' = todo \ {f}
  /\ Fault /\ Trouble({f})
  /\ UNCHANGED <<dirs, listing, pc, turn, result, lineCount, cur, i, clients, calls>>

\* appDel on the next sub cache; Delafps fails if the file is not in AFP_DIR.
DelAfps ==
  /\ pc = "del" /\ i <= Len(SubList)
  /\ i' = i + 1
  /\ UNCHANGED <<dst, org, listing, pc, turn, result, lineCount, todo, cur,
                 clients, calls>>

\* A second copy in DST_DIR survives, and the file with it.
DelOk ==
  /\ DelAfps /\ cur \in afp[SubList[i]]
  /\ afp' = [afp EXCEPT ![SubList[i]] = @ \ {cur}]
  /\ NoFault /\ Trouble({cur} \cap dst[SubList[i]])

DelMissing ==
  /\ DelAfps /\ cur \notin afp[SubList[i]]
  /\ Trouble({cur}) /\ NoFault /\ UNCHANGED afp

\* No OK from the sub cache, whether it removed the file or not.
DelFails ==
  /\ DelAfps /\ Fault /\ Trouble({cur})
  /\ \/ afp' = [afp EXCEPT ![SubList[i]] = @ \ {cur}]
     \/ UNCHANGED afp

\* A bug: the last sub cache is left out.
DelEndEarly ==
  /\ pc = "del" /\ i >= Len(SubList)
  /\ pc' = "move" /\ cur' = NoFile /\ i' = 0
  /\ UNCHANGED <<dirs, listing, turn, result, lineCount, todo, clients, calls,
                 troubled, faults>>

DelEnd ==
  /\ pc = "del" /\ i > Len(SubList)
  /\ pc' = "move" /\ cur' = NoFile /\ i' = 0
  /\ UNCHANGED <<dirs, listing, turn, result, lineCount, todo, clients, calls,
                 troubled, faults>>

MoveEnd ==
  /\ pc = "move" /\ todo = {}
  /\ pc' = "preconf" /\ turn' = turn + 1
  /\ UNCHANGED <<dirs, listing, result, lineCount, todo, cur, i, clients,
                 calls, troubled, faults>>

RoundEnd ==
  /\ pc = "preconf" /\ turn = Len(GroupList)
  /\ pc' = "sleep"
  /\ UNCHANGED <<dirs, listing, turn, result, lineCount, todo, cur, i, clients,
                 calls, troubled, faults>>

-----------------------------------------------------------------------------
(* GrMoveClient::afpMove, one thread per successful Preconf *)

ClientOpen(c) ==
  /\ cst[c] = "new"
  /\ cst' = [cst EXCEPT ![c] = "run"]
  /\ cmust' = [cmust EXCEPT ![c] = org[c[1]]]
  /\ UNCHANGED <<dirs, listing, loop, cseen, calls, troubled, faults>>

\* opendir() fails and the thread is over.
ClientOpenFails(c) ==
  /\ cst[c] = "new"
  /\ cst' = [cst EXCEPT ![c] = "done"]
  /\ Fault /\ Trouble(org[c[1]])
  /\ UNCHANGED <<dirs, listing, loop, cmust, cseen, calls>>

\* readdir() returns f.
Read(c, f) ==
  /\ cst[c] = "run" /\ ~Waiting(c) /\ f \in May(c)
  /\ cseen' = [cseen EXCEPT ![c] = @ \cup {f}]
  /\ UNCHANGED <<dirs, listing, loop, cst, cmust>>

ClientSend(c, f) ==
  /\ Read(c, f) /\ f \in org[c[1]]
  /\ calls' = calls \cup
       {[client |-> c, file |-> f, i |-> 1, ph |-> "add", heard |-> TRUE]}
  /\ NoFault /\ UNCHANGED troubled

\* A bug: the client tries the same entry again.
ClientRetries(c, f) ==
  cst[c] = "run" /\ f \in May(c) \ org[c[1]] /\ UNCHANGED vars

\* A later Preconf has emptied ORG_DIR: fopen() fails and f is skipped.
ClientSkip(c, f) ==
  /\ Read(c, f) /\ f \notin org[c[1]]
  /\ NoFault /\ UNCHANGED <<calls, troubled>>

\* fopen() fails, or the call fails before it reaches the main cache.
ClientSendFails(c, f) ==
  /\ Read(c, f)
  /\ Fault /\ Trouble({f}) /\ UNCHANGED calls

ClientEnd(c) ==
  /\ cst[c] = "run" /\ ~Waiting(c) /\ cmust[c] \subseteq cseen[c]
  /\ cst' = [cst EXCEPT ![c] = "done"]
  /\ UNCHANGED <<dirs, listing, loop, cmust, cseen, calls, troubled, faults>>

-----------------------------------------------------------------------------
(* McServer::Afpmove: for each sub cache appAdd, then a write to DST_DIR *)

Become(k, l) == calls' = (calls \ {k}) \cup {l}
End(k) == calls' = calls \ {k}

\* Addafps in the next sub cache writes the file into DST_DIR.
McAdd(k) ==
  /\ k.ph = "add" /\ k.i <= Len(SubList)
  /\ dst' = [dst EXCEPT ![SubList[k.i]] = @ \cup {k.file}]
  /\ Become(k, [k EXCEPT !.ph = "store"])
  /\ UNCHANGED <<afp, org, listing, loop, clients, troubled, faults>>

\* A bug: the status of appAdd is not looked at.
McAddIgnored(k) ==
  /\ k.ph = "add" /\ k.i <= Len(SubList)
  /\ Fault /\ Become(k, [k EXCEPT !.ph = "store"])
  /\ UNCHANGED <<dirs, listing, loop, clients, troubled>>

\* No OK from the sub cache, whether it wrote the file or not: CANCELLED.
McAddFails(k) ==
  /\ k.ph = "add" /\ k.i <= Len(SubList)
  /\ Fault /\ Trouble({k.file})
  /\ \/ dst' = [dst EXCEPT ![SubList[k.i]] = @ \cup {k.file}]
     \/ UNCHANGED dst
  /\ End(k)
  /\ UNCHANGED <<afp, org, listing, loop, clients>>

\* A bug: the main cache does not write its own copy.
McStoreNothing(k) ==
  /\ k.ph = "store"
  /\ Become(k, [k EXCEPT !.ph = "add", !.i = @ + 1])
  /\ UNCHANGED <<dirs, listing, loop, clients, troubled, faults>>

\* The main cache's own copy, written once per sub cache.
McStore(k) ==
  /\ k.ph = "store"
  /\ dst' = [dst EXCEPT ![Main] = @ \cup {k.file}]
  /\ Become(k, [k EXCEPT !.ph = "add", !.i = @ + 1])
  /\ UNCHANGED <<afp, org, listing, loop, clients, troubled, faults>>

\* fopen() of the copy fails: CANCELLED.
McStoreFails(k) ==
  /\ k.ph = "store"
  /\ Fault /\ Trouble({k.file}) /\ End(k)
  /\ UNCHANGED <<dirs, listing, loop, clients>>

\* A bug: OK before the last sub cache.
McReturnEarly(k) ==
  /\ k.ph = "add" /\ k.i >= Len(SubList)
  /\ End(k)
  /\ UNCHANGED <<dirs, listing, loop, clients, troubled, faults>>

\* OK after the last sub cache.
McReturn(k) ==
  /\ k.ph = "add" /\ k.i > Len(SubList)
  /\ End(k)
  /\ UNCHANGED <<dirs, listing, loop, clients, troubled, faults>>

\* The connection breaks: the client goes on, and so does the handler.
CallBreaks(k) ==
  /\ k.heard
  /\ Fault /\ Trouble({k.file})
  /\ Become(k, [k EXCEPT !.heard = FALSE])
  /\ UNCHANGED <<dirs, listing, loop, clients>>

-----------------------------------------------------------------------------
(* The surroundings *)

\* External: the search engine of host h takes what DST_DIR holds into use.
Ingest(h) ==
  /\ dst[h] # {}
  /\ afp' = [afp EXCEPT ![h] = @ \cup dst[h]]
  /\ dst' = [dst EXCEPT ![h] = {}]
  /\ UNCHANGED <<org, listing, loop, clients, calls, troubled, faults>>

\* The main cache's process dies and is started again: runLoop begins anew.
MainRestart ==
  /\ Fault
  /\ Trouble(todo \cup ({cur} \ {NoFile}) \cup Called)
  /\ pc' = "sleep" /\ todo' = {} /\ cur' = NoFile /\ i' = 0
  /\ calls' = {}
  /\ UNCHANGED <<dirs, listing, turn, result, lineCount, clients>>

\* A group's process dies, and its clients with it.
GroupRestart(g) ==
  LET mine == {c \in Client : c[1] = g}
  IN  /\ Fault
      /\ Trouble({k.file : k \in {l \in calls : l.client \in mine}} \cup
                   UNION {Sure(c) : c \in mine})
      /\ cst' = [c \in Client |-> IF c \in mine /\ cst[c] # "none" THEN "done"
                                  ELSE cst[c]]
      /\ calls' = {[k EXCEPT !.heard = @ /\ k.client \notin mine] : k \in calls}
      /\ UNCHANGED <<dirs, listing, loop, cmust, cseen>>

-----------------------------------------------------------------------------
Visit == \/ PreconfOk \/ PreconfStale \/ PreconfLost \/ PreconfMoveFails
         \/ PreconfRefused \/ MovCnt \/ MovCntFails \/ OpenOrgFails
         \/ \E f \in Files : PutOk(f) \/ PutFails(f) \/ ReadFails(f)
         \/ DelOk \/ DelMissing \/ DelFails \/ DelEnd \/ MoveEnd \/ RoundEnd

ClientStep(c) == \/ ClientOpen(c) \/ ClientOpenFails(c) \/ ClientEnd(c)
                 \/ \E f \in Files : \/ ClientSend(c, f) \/ ClientSkip(c, f)
                                     \/ ClientSendFails(c, f)

Handle(k) == \/ McAdd(k) \/ McAddFails(k) \/ McStore(k) \/ McStoreFails(k)
             \/ McReturn(k)

Next == \/ Prep \/ PrepStale \/ PrepFails \/ Visit
        \/ \E c \in Client : ClientStep(c)
        \/ \E k \in calls : Handle(k) \/ CallBreaks(k)
        \/ \E h \in Host : Ingest(h)
        \/ MainRestart
        \/ \E g \in Group : GroupRestart(g)

Spec == Init /\ [][Next]_vars

\* What the loop does by itself, and what it does when an RPC comes back.
LoopRuns == MovCnt \/ DelEnd \/ MoveEnd \/ RoundEnd
LoopAnswered == \/ PreconfOk \/ PreconfStale \/ PreconfLost \/ PreconfMoveFails
                \/ PreconfRefused \/ \E f \in Files : PutOk(f) \/ PutFails(f)
                \/ DelOk \/ DelMissing \/ DelFails

\* The loop, the clients and the handlers are threads that run.  The loop's
\* next day is not promised, nor that an RPC comes back: no context has a
\* deadline (grpcwrap.cc).
Fairness == /\ WF_vars(LoopRuns)
            /\ \A c \in Client : WF_vars(ClientStep(c))
            /\ WF_vars(\E k \in calls : McStore(k) \/ McReturn(k))
            /\ WF_vars(\E h \in Host : Ingest(h))

FairSpec == Spec /\ Fairness

\* The hypothesis that every RPC comes back with some status.
CallsReturn == /\ WF_vars(LoopAnswered)
               /\ WF_vars(\E k \in calls : McAdd(k) \/ McAddFails(k))

-----------------------------------------------------------------------------
TypeOK ==
  /\ afp \in [Host -> SUBSET Files] /\ dst \in [Host -> SUBSET Files]
  /\ org \in [Holder -> SUBSET Files]
  /\ pc \in {"sleep", "preconf", "mov", "move", "del"}
  /\ round \in 0..MaxRounds /\ turn \in 0..Len(GroupList)
  /\ pc \in {"mov", "move", "del"} => turn < Len(GroupList)
  /\ thr \in Nat /\ result \in Nat /\ lineCount \in Nat
  /\ todo \subseteq Files /\ cur \in Files \cup {NoFile}
  /\ i \in 0..(Len(SubList) + 1)
  /\ pc = "del" => i > 0 /\ cur \in Files
  /\ cst \in [Client -> {"none", "new", "run", "done"}]
  /\ cmust \in [Client -> SUBSET Files] /\ cseen \in [Client -> SUBSET Files]
  /\ calls \subseteq Call
  /\ \A k \in calls : k.ph = "store" => k.i <= Len(SubList)
  /\ troubled \subseteq Files /\ faults \in 0..MaxFaults

GoingUp(f) == f \in Called \/ \E c \in Client : f \in Sure(c) \cap org[c[1]]
GoingDown(f) == f \in todo

\* No fingerprint vanishes without a trace: a file no error was met about and
\* nothing overtook is kept by a holder or is on its way, read by a client, a
\* handler or the loop, although ORG_DIR is emptied by the next exchange
\* (movAfpFile, movCntFile) and a failed transfer is never repeated.
NoSilentLoss ==
  \A f \in Files \ troubled :
    GoingUp(f) \/ GoingDown(f) \/ \E h \in Holder : f \in Served(h)

\* The exchange implements Placement: a file is where it is served, or on the
\* way, unless it is troubled.  "twice" and "nowhere" are no places there.
Place(f) ==
  LET at == {h \in Holder : f \in Served(h)}
  IN  IF f \in troubled            THEN "lost"
      ELSE IF Cardinality(at) = 1  THEN CHOOSE h \in at : TRUE
      ELSE IF at # {}              THEN "twice"
      ELSE IF GoingUp(f)           THEN "up"
      ELSE IF GoingDown(f)         THEN "down"
      ELSE "nowhere"

Placed == INSTANCE Placement WITH place <- [f \in Files |-> Place(f)]
ImplementsPlacement == Placed!Spec

\* What makes NoSilentLoss inductive: the loop reads ORG_DIR only in afpMove,
\* a client has read nothing before opendir(), and a handler that is past its
\* first sub cache has stored the file.
LossInv ==
  /\ NoSilentLoss
  /\ pc \in {"sleep", "preconf", "mov"} => todo = {}
  /\ \A c \in Client : cst[c] \in {"none", "new"} => cseen[c] = {}
  /\ \A k \in calls : k.i > 1 => k.file \in Served(Main) \cup troubled

\* What the main cache serves, every sub cache has, or the handler that adds
\* the file has still to reach that sub cache (McServer::Afpmove).
SubsCover ==
  \A f \in Served(Main) \ troubled : \A j \in DOMAIN SubList :
    f \in Served(SubList[j]) \/ \E k \in calls : k.file = f /\ k.i <= j

\* What the main cache has given away, no sub cache keeps: once the loop has
\* dealt with the file, every appDel has found it in AFP_DIR.
SubsForget ==
  \A f \in Files \ (troubled \cup Served(Main) \cup Called \cup todo \cup {cur}) :
    \A j \in DOMAIN SubList : f \notin Served(SubList[j])

\* A group is given no more files than it reported: lineCount and result
\* delimit the window of botAfpsFile.tmp for this group.
FairSwap ==
  pc \in {"move", "del"} => Cardinality(org[Main] \ troubled) <= result

\* Without failures and with every exchange settled before the next day
\* nothing is overtaken either, so the guarantees hold for every file.
NoTrouble == Timely /\ faults = 0 => troubled = {}

\* The loop waits for the answer of a group or of a sub cache.
InCall == \/ pc = "preconf" /\ turn < Len(GroupList)
          \/ pc = "move" /\ todo # {}
          \/ pc = "del" /\ i <= Len(SubList)

\* Whatever fails in it, a visit to the groups comes to its end and the loop
\* sleeps, unless an answer that it waits for never comes: no failure makes it
\* call without end.
RoundsEnd == pc # "sleep" ~> (pc = "sleep" \/ []InCall)

\* If the calls come back, a file on its way up is in use at the main cache in
\* the end, unless an error was met about it.
PromotionsArrive ==
  CallsReturn => \A f \in Files : GoingUp(f) ~> f \in afp[Main] \cup troubled

\* If the calls come back, a file on its way down is in use at a group in the
\* end.
DemotionsArrive ==
  CallsReturn => \A f \in Files :
    GoingDown(f) ~> f \in troubled \/ \E g \in Group : f \in afp[g]

\* If the calls come back, every client thread comes to its end, even when its
\* directory is emptied and refilled under it.
ClientsEnd == CallsReturn => \A c \in Client : cst[c] = "new" ~> cst[c] = "done"
=============================================================================
