-------------------------- MODULE FingerMoveProofs --------------------------
(***************************************************************************)
(* Proofs about FingerMove, for any number of hosts, files, days, clients  *)
(* and failures: its types; no file is lost silently; a file is in one     *)
(* place at a time; the sub caches mirror the main cache; a group gets no  *)
(* more files than it reported; and the exchange implements Placement.     *)
(***************************************************************************)
EXTENDS FingerMove, TLAPS, FiniteSetTheorems

-----------------------------------------------------------------------------
(* The lists: what the module needs to know of their types *)

\* There is one line per queried song, so that a list of lines is finite.
LEMMA LinesFinite ==
  ASSUME NEW hits \in [Song -> 0..MaxHits]
  PROVE  IsFiniteSet(Lines(hits))
<1> DEFINE f == [l \in Lines(hits) |-> l.id]
<1>1. \A l \in Lines(hits) : l.id \in Song /\ l.num = hits[l.id] /\ l = [id |-> l.id, num |-> l.num]
  BY DEF Lines
<1>2. f \in Injection(Lines(hits), Song)
  BY <1>1 DEF Injection, IsInjective
<1>. QED
  BY <1>2, FiniteSongs, FS_Injection

LEMMA RankedType ==
  ASSUME NEW S, NEW hits \in [Song -> 0..MaxHits], NEW flg,
         NEW q \in Ranked(S, hits, flg)
  PROVE  /\ \E n \in Nat : DOMAIN q = 1..n
         /\ \A j \in DOMAIN q : q[j].num \in Nat
<1> DEFINE L == {l \in Lines(hits) : l.id \in S}
<1>1. Cardinality(L) \in Nat
  <2>1. L \in SUBSET Lines(hits) OBVIOUS
  <2>. QED BY <2>1, LinesFinite, FS_Subset, FS_CardinalityType
<1>2. q \in [1..Cardinality(L) -> L]
  BY DEF Ranked, SetToSeqs
<1>3. \A l \in L : l.num \in Nat
  BY FingerMoveAssumption DEF Lines
<1>. QED
  BY <1>1, <1>2, <1>3

\* botAfpFile: the threshold is 0 or the count in one of the lines.
LEMMA ThrType ==
  ASSUME NEW dir \in SUBSET Files, NEW hits \in [Song -> 0..MaxHits],
         NEW b \in ColdLists(dir, hits, CacheLimit)
  PROVE  b.thr \in Nat
<1>1. PICK u \in SetToSeqs(Idle(dir, hits)), q \in Ranked(Ids(dir), hits, 1) :
        b = ColdList(u, q, CacheLimit)
  BY DEF ColdLists
<1>2. PICK n \in Nat : DOMAIN q = 1..n
  BY RankedType
<1>3. \A j \in DOMAIN q : q[j].num \in Nat
  BY RankedType
<1>4. PICK k \in Nat : DOMAIN u = 1..k
  <2>1. IsFiniteSet(Idle(dir, hits))
    BY FingerMoveAssumption, FS_Subset DEF Idle
  <2>. QED
    BY <2>1, FS_CardinalityType DEF SetToSeqs
<1>5. Len(q) = n /\ Len(u) = k
  BY <1>2, <1>4
<1> DEFINE l == Least(CacheLimit, Len(u))
           m == Least(CacheLimit - l, Len(q))
<1>6. m \in Nat /\ m <= n
  BY <1>5, FingerMoveAssumption DEF Least
<1>7. b.thr = IF m = 0 THEN 0 ELSE q[m].num
  BY <1>1 DEF ColdList
<1>. QED
  BY <1>2, <1>3, <1>6, <1>7

\* topAfpFile: the number reported is a number of lines.
LEMMA TopsType ==
  ASSUME NEW dir, NEW top \in Tops(dir)
  PROVE  Len(top) \in Nat
<1>0. PICK hits \in [Song -> 0..MaxHits] : top \in HotLists(dir, hits, thr, GroupLimit)
  BY DEF Tops
<1>1. PICK q \in Ranked(Ids(dir), hits, 0) : top = topAfpFile(q, thr, GroupLimit)
  BY <1>0 DEF HotLists
<1>2. PICK n \in Nat : DOMAIN q = 1..n
  BY <1>1, RankedType
<1>3. Cardinality(Admitted(q, thr, GroupLimit)) \in Nat
  <2>1. Admitted(q, thr, GroupLimit) \in SUBSET (1..n)
    BY <1>2 DEF Admitted
  <2>2. IsFiniteSet(1..n)
    BY FS_Interval
  <2>3. IsFiniteSet(Admitted(q, thr, GroupLimit))
    BY <2>1, <2>2, FS_Subset
  <2>. QED
    BY <2>3, FS_CardinalityType
<1>. QED
  BY <1>1, <1>3 DEF topAfpFile

-----------------------------------------------------------------------------
(* Type correctness *)

LEMMA HostTypes ==
  /\ Main \in Host /\ Main \in Holder /\ Main \notin Sub
  /\ \A g \in Group : g \in Host /\ g \in Holder /\ g # Main /\ g \notin Sub
  /\ \A j \in 1..Len(SubList) : SubList[j] \in Sub
  /\ \A s \in Sub : s \in Host /\ s \notin Holder
  /\ \A j \in 1..Len(GroupList) : GroupList[j] \in Group
  /\ Len(SubList) \in Nat /\ Len(GroupList) \in Nat
  /\ \A c \in Client : c[1] \in Group /\ c \in Group \X (1..MaxClients)
BY FingerMoveAssumption DEF Host, Holder, Client

LEMMA VisitedType ==
  ASSUME TypeOK, turn < Len(GroupList)
  PROVE  Visited \in Group /\ turn + 1 \in 0..Len(GroupList)
BY HostTypes DEF TypeOK, Visited

LEMMA TypeInit == Init => TypeOK
<1> SUFFICES ASSUME Init PROVE TypeOK
  OBVIOUS
<1>1. PICK home \in [Files -> Holder] :
        afp = [h \in Host |-> {f \in Files : home[f] = IF h \in Sub THEN Main ELSE h}]
  BY DEF Init
<1>2. afp \in [Host -> SUBSET Files]
  BY <1>1
<1>. QED
  BY <1>2, HostTypes, FingerMoveAssumption DEF Init, TypeOK

\* The variables of the loop and the files, unchanged by an action.
LEMMA TypeList ==
  ASSUME TypeOK, NEW dir \in SUBSET Files, List(dir), faults' \in 0..MaxFaults
  PROVE  TypeOK'
<1>1. thr' \in Nat
  BY ThrType DEF List
<1>2. round' \in 0..MaxRounds
  BY FingerMoveAssumption DEF TypeOK, List
<1>. QED
  BY <1>1, <1>2, HostTypes DEF TypeOK, List, dirs, clients

LEMMA FaultType ==
  ASSUME TypeOK
  PROVE  (Fault \/ NoFault) => faults' \in 0..MaxFaults
BY FingerMoveAssumption DEF TypeOK, Fault, NoFault

LEMMA StartType ==
  ASSUME TypeOK, NEW g \in Group, StartClient(g)
  PROVE  /\ cst' \in [Client -> {"none", "new", "run", "done"}]
         /\ \E n \in 1..MaxClients :
              /\ <<g, n>> \in Client /\ cst[<<g, n>>] = "none"
              /\ cst' = [cst EXCEPT ![<<g, n>>] = "new"]
<1>1. PICK n \in 1..MaxClients :
        cst[<<g, n>>] = "none" /\ cst' = [cst EXCEPT ![<<g, n>>] = "new"]
  BY DEF StartClient
<1>2. <<g, n>> \in Client
  BY DEF Client
<1>. QED
  BY <1>1, <1>2 DEF TypeOK

LEMMA PreconfType ==
  ASSUME TypeOK, NEW g \in Group, NEW top, Preconf(g, top)
  PROVE  /\ afp' \in [Host -> SUBSET Files] /\ org' \in [Holder -> SUBSET Files]
         /\ dst' = dst /\ cmust' = cmust /\ cseen' = cseen /\ calls' = calls
         /\ cst' \in [Client -> {"none", "new", "run", "done"}]
         /\ troubled' \subseteq Files
<1>1. movAfpFile(afp[g], top) \subseteq Files
  BY HostTypes DEF TypeOK, movAfpFile
<1>2. StartClient(g)
  BY DEF Preconf
<1>3. org[g] \subseteq Files
  BY HostTypes DEF TypeOK
<1>. QED
  BY <1>1, <1>2, <1>3, HostTypes, StartType DEF TypeOK, Preconf, Take, Trouble

\* The main cache's loop keeps the types.
LEMMA TypeVisit ==
  ASSUME TypeOK, Visit
  PROVE  TypeOK'
<1>1. CASE PreconfOk
  <2>1. PICK top \in Tops(afp[Visited]) : Preconf(Visited, top) /\ result' = Len(top)
    BY <1>1 DEF PreconfOk
  <2>. QED
    BY <1>1, <2>1, TopsType, VisitedType, PreconfType, FaultType
    DEF PreconfOk, TypeOK, listing
<1>2. CASE PreconfStale
  <2>1. PICK dir \in SUBSET Files :
          \E top \in Tops(dir) : Preconf(Visited, top) /\ result' = Len(top)
    BY <1>2 DEF PreconfStale
  <2>2. PICK top \in Tops(dir) : Preconf(Visited, top) /\ result' = Len(top)
    BY <2>1
  <2>. QED
    BY <1>2, <2>2, TopsType, VisitedType, PreconfType, FaultType
    DEF PreconfStale, TypeOK, listing
<1>3. CASE PreconfLost
  <2>1. PICK top \in Tops(afp[Visited]) : Preconf(Visited, top)
    BY <1>3 DEF PreconfLost
  <2>. QED
    BY <1>3, <2>1, VisitedType, PreconfType, FaultType
    DEF PreconfLost, TypeOK, listing
<1>4. CASE PreconfMoveFails
  <2>1. PICK top \in Tops(afp[Visited]) : result' = Len(top)
    BY <1>4 DEF PreconfMoveFails
  <2>2. result' \in Nat
    BY <2>1, TopsType
  <2>3. CASE Preconf(Visited, <<>>)
    BY <1>4, <2>2, <2>3, VisitedType, PreconfType, FaultType
    DEF PreconfMoveFails, TypeOK, listing
  <2>4. CASE /\ StartClient(Visited) /\ Trouble(org[Visited])
             /\ UNCHANGED <<dirs, cmust, cseen, calls>>
    <3>1. org[Visited] \subseteq Files
      BY <1>4, VisitedType, HostTypes DEF PreconfMoveFails, TypeOK
    <3>. QED
      BY <1>4, <2>2, <2>4, <3>1, VisitedType, StartType, FaultType
      DEF PreconfMoveFails, TypeOK, listing, dirs, Trouble
  <2>. QED
    BY <1>4, <2>3, <2>4 DEF PreconfMoveFails
<1>5. CASE PreconfRefused
  BY <1>5, VisitedType DEF PreconfRefused, TypeOK, dirs, listing, clients
<1>6. CASE MovCnt
  <2> DEFINE down == movCntFile(afp[Main], bot, lineCount, result)
  <2>1. down \subseteq Files
    BY HostTypes DEF TypeOK, movCntFile
  <2>2. org' = [org EXCEPT ![Main] = down] /\ afp' = [afp EXCEPT ![Main] = @ \ down]
    BY <1>6 DEF MovCnt, Take
  <2>3. org' \in [Holder -> SUBSET Files] /\ org'[Main] = down
    BY <2>1, <2>2, HostTypes DEF TypeOK
  <2>4. afp' \in [Host -> SUBSET Files]
    BY <2>2, HostTypes DEF TypeOK
  <2>5. troubled' \subseteq Files
    BY <1>6, <2>1 DEF MovCnt, TypeOK, Trouble
  <2>. QED
    BY <1>6, <2>1, <2>3, <2>4, <2>5 DEF MovCnt, TypeOK, listing, clients, NoFault
<1>7. CASE MovCntFails
  <2>1. org[Main] \subseteq Files
    BY HostTypes DEF TypeOK
  <2>2. org' \in [Holder -> SUBSET Files]
    BY <1>7, HostTypes DEF MovCntFails, TypeOK
  <2>3. todo' \subseteq Files /\ troubled' \subseteq Files
    BY <1>7, <2>1 DEF MovCntFails, TypeOK, Trouble
  <2>4. faults' \in 0..MaxFaults
    BY <1>7, FaultType DEF MovCntFails
  <2>. QED
    BY <1>7, <2>2, <2>3, <2>4 DEF MovCntFails, TypeOK, listing, clients
<1>8. CASE OpenOrgFails
  BY <1>8, FaultType DEF OpenOrgFails, TypeOK, dirs, listing, clients, Trouble
<1>9. ASSUME NEW f \in Files, PutOk(f) \/ PutFails(f)
      PROVE  TypeOK'
  <2>1. turn < Len(GroupList)
    BY <1>9 DEF TypeOK, PutOk, PutFails, Put
  <2>2. dst' \in [Host -> SUBSET Files]
    <3>1. Visited \in Host
      BY <2>1, VisitedType, HostTypes
    <3>. QED
      BY <1>9, <3>1 DEF TypeOK, PutOk, PutFails
  <2>3. faults' \in 0..MaxFaults /\ troubled' \subseteq Files
    BY <1>9, FaultType DEF TypeOK, PutOk, PutFails, Trouble
  <2>. QED
    BY <1>9, <2>1, <2>2, <2>3, HostTypes
    DEF PutOk, PutFails, Put, TypeOK, listing, clients
<1>10. ASSUME NEW f \in Files, ReadFails(f)
       PROVE  TypeOK'
  BY <1>10, FaultType DEF ReadFails, TypeOK, dirs, listing, clients, Trouble
<1>11. CASE DelOk \/ DelMissing \/ DelFails
  <2>1. i \in 1..Len(SubList) /\ i + 1 \in 1..(Len(SubList) + 1)
    BY <1>11, HostTypes DEF DelOk, DelMissing, DelFails, DelAfps, TypeOK
  <2>2. afp' \in [Host -> SUBSET Files]
    <3>1. SubList[i] \in Host
      BY <2>1, HostTypes
    <3>. QED
      BY <1>11, <3>1 DEF DelOk, DelMissing, DelFails, TypeOK
  <2>3. cur \in Files
    BY <1>11 DEF DelOk, DelMissing, DelFails, DelAfps, TypeOK
  <2>4. faults' \in 0..MaxFaults /\ troubled' \subseteq Files
    BY <1>11, <2>3, FaultType DEF DelOk, DelMissing, DelFails, TypeOK, Trouble
  <2>5. DelAfps
    BY <1>11 DEF DelOk, DelMissing, DelFails
  <2>. QED
    BY <2>1, <2>2, <2>4, <2>5 DEF DelAfps, TypeOK, listing, clients
<1>12. CASE DelEnd
  BY <1>12, HostTypes DEF DelEnd, TypeOK, dirs, listing, clients
<1>13. CASE MoveEnd
  BY <1>13, VisitedType DEF MoveEnd, TypeOK, dirs, listing, clients
<1>14. CASE RoundEnd
  BY <1>14 DEF RoundEnd, TypeOK, dirs, listing, clients
<1>. QED
  BY <1>1, <1>2, <1>3, <1>4, <1>5, <1>6, <1>7, <1>8, <1>9, <1>10, <1>11, <1>12,
     <1>13, <1>14 DEF Visit

\* A client's steps keep the types.
LEMMA TypeClient ==
  ASSUME TypeOK, NEW c \in Client, ClientStep(c)
  PROVE  TypeOK'
<1>1. org[c[1]] \subseteq Files
  BY HostTypes DEF TypeOK
<1>2. CASE ClientOpen(c)
  BY <1>1, <1>2 DEF ClientOpen, TypeOK, dirs, listing, loop
<1>3. CASE ClientOpenFails(c)
  BY <1>1, <1>3, FaultType DEF ClientOpenFails, TypeOK, dirs, listing, loop, Trouble
<1>4. CASE ClientEnd(c)
  BY <1>4 DEF ClientEnd, TypeOK, dirs, listing, loop
<1>5. ASSUME NEW f \in Files, ClientSend(c, f)
      PROVE  TypeOK'
  <2> DEFINE k == [client |-> c, file |-> f, i |-> 1, ph |-> "add", heard |-> TRUE]
  <2>1. k \in Call /\ k.ph = "add"
    BY HostTypes DEF Call
  <2>2. calls' = calls \cup {k}
    BY <1>5 DEF ClientSend
  <2> HIDE DEF k
  <2>3. calls' \subseteq Call /\ \A l \in calls' : l.ph = "store" => l.i <= Len(SubList)
    BY <2>1, <2>2 DEF TypeOK
  <2>4. cseen' \in [Client -> SUBSET Files]
    BY <1>5 DEF ClientSend, Read, TypeOK
  <2>. QED
    BY <1>5, <2>3, <2>4 DEF ClientSend, Read, TypeOK, dirs, listing, loop, NoFault
<1>6. ASSUME NEW f \in Files, ClientSkip(c, f) \/ ClientSendFails(c, f)
      PROVE  TypeOK'
  <2>1. cseen' \in [Client -> SUBSET Files]
    BY <1>6 DEF ClientSkip, ClientSendFails, Read, TypeOK
  <2>2. faults' \in 0..MaxFaults /\ troubled' \subseteq Files
    BY <1>6, FaultType DEF ClientSkip, ClientSendFails, TypeOK, Trouble
  <2>. QED
    BY <1>6, <2>1, <2>2
    DEF ClientSkip, ClientSendFails, Read, TypeOK, dirs, listing, loop
<1>. QED
  BY <1>2, <1>3, <1>4, <1>5, <1>6 DEF ClientStep

\* What a step may make of an invocation k of McServer::Afpmove: it ends or
\* goes on as l.
LEMMA TypeCalls ==
  ASSUME TypeOK, NEW k \in calls
  PROVE  /\ End(k) => calls' \subseteq calls
         /\ \A l \in Call : Become(k, l) /\ (l.ph = "store" => l.i <= Len(SubList)) =>
              /\ calls' \subseteq Call
              /\ \A j \in calls' : j.ph = "store" => j.i <= Len(SubList)
BY DEF TypeOK, End, Become

LEMMA CallType ==
  ASSUME NEW k \in Call
  PROVE  /\ k.client \in Client /\ k.file \in Files /\ k.heard \in BOOLEAN
         /\ k.i \in 1..(Len(SubList) + 1) /\ k.ph \in {"add", "store"}
         /\ LET l == [k EXCEPT !.ph = "store"] IN
              l \in Call /\ l.ph = "store" /\ l.i = k.i /\ l.file = k.file
         /\ k.i <= Len(SubList) =>
              /\ k.i \in 1..Len(SubList)
              /\ LET l == [k EXCEPT !.ph = "add", !.i = @ + 1] IN
                   l \in Call /\ l.ph = "add" /\ l.i = k.i + 1 /\ l.file = k.file
         /\ LET l == [k EXCEPT !.heard = FALSE] IN
              l \in Call /\ l.ph = k.ph /\ l.i = k.i /\ l.file = k.file
<1>1. k.i <= Len(SubList) =>
        k.i \in 1..Len(SubList) /\ k.i + 1 \in 1..(Len(SubList) + 1)
  BY HostTypes DEF Call
<1>. QED
  BY <1>1 DEF Call

\* The handler's steps keep the types.
LEMMA TypeHandle ==
  ASSUME TypeOK, NEW k \in calls, Handle(k) \/ CallBreaks(k)
  PROVE  TypeOK'
<1>0. k \in Call /\ (k.ph = "store" => k.i <= Len(SubList))
  BY DEF TypeOK
<1>1. k.i <= Len(SubList) => SubList[k.i] \in Host
  <2>1. k.i <= Len(SubList) => k.i \in 1..Len(SubList)
    BY <1>0, CallType
  <2>. QED
    BY <2>1, HostTypes
<1>f. k.file \in Files
  BY <1>0, CallType
<1>2. CASE McAdd(k)
  <2>1. dst' \in [Host -> SUBSET Files]
    BY <1>1, <1>2, <1>f DEF McAdd, TypeOK
  <2>2. calls' \subseteq Call /\ \A j \in calls' : j.ph = "store" => j.i <= Len(SubList)
    <3> DEFINE l == [k EXCEPT !.ph = "store"]
    <3>1. l \in Call /\ l.i = k.i
      BY <1>0, CallType
    <3>. QED
      BY <1>2, <3>1, TypeCalls DEF McAdd
  <2>. QED
    BY <1>2, <2>1, <2>2 DEF McAdd, TypeOK, listing, loop, clients
<1>3. CASE McAddFails(k)
  <2>1. dst' \in [Host -> SUBSET Files]
    BY <1>1, <1>3, <1>f DEF McAddFails, TypeOK
  <2>2. calls' \subseteq calls /\ faults' \in 0..MaxFaults /\ troubled' \subseteq Files
    BY <1>3, <1>f, TypeCalls, FaultType DEF McAddFails, TypeOK, Trouble
  <2>. QED
    BY <1>3, <2>1, <2>2 DEF McAddFails, TypeOK, listing, loop, clients
<1>4. CASE McStore(k)
  <2>1. dst' \in [Host -> SUBSET Files]
    BY <1>4, <1>f, HostTypes DEF McStore, TypeOK
  <2>2. calls' \subseteq Call /\ \A j \in calls' : j.ph = "store" => j.i <= Len(SubList)
    <3> DEFINE l == [k EXCEPT !.ph = "add", !.i = @ + 1]
    <3>1. l \in Call /\ l.ph = "add"
      BY <1>0, <1>4, CallType DEF McStore
    <3>. QED
      BY <1>4, <3>1, TypeCalls DEF McStore
  <2>. QED
    BY <1>4, <2>1, <2>2 DEF McStore, TypeOK, listing, loop, clients
<1>5. CASE McStoreFails(k)
  <2>1. calls' \subseteq calls /\ faults' \in 0..MaxFaults /\ troubled' \subseteq Files
    BY <1>5, <1>f, TypeCalls, FaultType DEF McStoreFails, TypeOK, Trouble
  <2>. QED
    BY <1>5, <2>1 DEF McStoreFails, TypeOK, dirs, listing, loop, clients
<1>6. CASE McReturn(k)
  <2>1. calls' \subseteq calls
    BY <1>6, TypeCalls DEF McReturn
  <2>. QED
    BY <1>6, <2>1 DEF McReturn, TypeOK, dirs, listing, loop, clients
<1>7. CASE CallBreaks(k)
  <2>1. faults' \in 0..MaxFaults /\ troubled' \subseteq Files
    BY <1>7, <1>f, FaultType DEF CallBreaks, TypeOK, Trouble
  <2>2. calls' \subseteq Call /\ \A j \in calls' : j.ph = "store" => j.i <= Len(SubList)
    <3> DEFINE l == [k EXCEPT !.heard = FALSE]
    <3>1. l \in Call /\ l.ph = k.ph /\ l.i = k.i
      BY <1>0, CallType
    <3>2. l.ph = "store" => l.i <= Len(SubList)
      BY <1>0, <3>1
    <3>. QED
      BY <1>7, <3>1, <3>2, TypeCalls DEF CallBreaks
  <2>. QED
    BY <1>7, <2>1, <2>2 DEF CallBreaks, TypeOK, dirs, listing, loop, clients
<1>. QED
  BY <1>2, <1>3, <1>4, <1>5, <1>6, <1>7 DEF Handle

LEMMA TypeNext == TypeOK /\ [Next]_vars => TypeOK'
<1> SUFFICES ASSUME TypeOK, [Next]_vars
             PROVE  TypeOK'
  OBVIOUS
<1>1. CASE Prep
  <2>1. afp[Main] \in SUBSET Files
    BY HostTypes DEF TypeOK
  <2>. QED
    BY <1>1, <2>1, TypeList, FaultType DEF Prep
<1>2. CASE PrepStale
  BY <1>2, TypeList, FaultType DEF PrepStale
<1>3. CASE PrepFails
  <2>1. round' \in 0..MaxRounds
    BY <1>3, FingerMoveAssumption DEF PrepFails, TypeOK
  <2>. QED
    BY <1>3, <2>1, FaultType DEF PrepFails, TypeOK, dirs, loop, clients
<1>4. CASE Visit
  BY <1>4, TypeVisit
<1>5. CASE \E c \in Client : ClientStep(c)
  BY <1>5, TypeClient
<1>6. CASE \E k \in calls : Handle(k) \/ CallBreaks(k)
  BY <1>6, TypeHandle
<1>7. ASSUME NEW h \in Host, Ingest(h)
      PROVE  TypeOK'
  BY <1>7 DEF Ingest, TypeOK, listing, loop, clients
<1>8. CASE MainRestart
  <2>1. troubled' \subseteq Files
    <3>1. Called \subseteq Files
      <4>1. \A k \in calls : k.file \in Files
        BY CallType DEF TypeOK
      <4>. QED
        BY <4>1 DEF Called
    <3>2. todo \cup ({cur} \ {NoFile}) \subseteq Files
      BY DEF TypeOK
    <3>. QED
      BY <1>8, <3>1, <3>2 DEF MainRestart, TypeOK, Trouble
  <2>. QED
    BY <1>8, <2>1, HostTypes, FaultType DEF MainRestart, TypeOK, dirs, listing, clients
<1>9. ASSUME NEW g \in Group, GroupRestart(g)
      PROVE  TypeOK'
  <2> DEFINE mine == {c \in Client : c[1] = g}
             cut(k) == [k EXCEPT !.heard = @ /\ k.client \notin mine]
  <2>1. \A k \in Call : cut(k) \in Call /\ cut(k).ph = k.ph /\ cut(k).i = k.i
    BY DEF Call
  <2>2. calls' \subseteq Call /\ \A j \in calls' : j.ph = "store" => j.i <= Len(SubList)
    <3>1. calls' = {cut(k) : k \in calls}
      BY <1>9 DEF GroupRestart
    <3>2. calls \subseteq Call /\ \A j \in calls : j.ph = "store" => j.i <= Len(SubList)
      BY DEF TypeOK
    <3> HIDE DEF cut
    <3>. QED
      BY <2>1, <3>1, <3>2
  <2>3. troubled' \subseteq Files
    <3>1. \A k \in calls : k.file \in Files
      BY CallType DEF TypeOK
    <3>2. \A c \in Client : Sure(c) \subseteq Files
      BY HostTypes DEF TypeOK, Sure
    <3>. QED
      BY <1>9, <3>1, <3>2 DEF GroupRestart, TypeOK, Trouble
  <2>4. cst' \in [Client -> {"none", "new", "run", "done"}]
    BY <1>9 DEF GroupRestart, TypeOK
  <2>. QED
    BY <1>9, <2>2, <2>3, <2>4, FaultType DEF GroupRestart, TypeOK, dirs, listing, loop
<1>10. CASE UNCHANGED vars
  BY <1>10 DEF TypeOK, vars, dirs, listing, loop, clients
<1>. QED
  BY <1>1, <1>2, <1>3, <1>4, <1>5, <1>6, <1>7, <1>8, <1>9, <1>10 DEF Next

\* Every variable keeps its type, whatever fails: no list, window, index or
\* directory operation of the loop, the clients and the handlers leaves the
\* values the code can hold.
THEOREM TypeCorrect == Spec => []TypeOK
<1>1. Init => TypeOK
  BY TypeInit
<1>2. TypeOK /\ [Next]_vars => TypeOK'
  BY TypeNext
<1>. QED
  BY <1>1, <1>2, PTL DEF Spec

-----------------------------------------------------------------------------
(* No fingerprint is lost without a trace *)

Kept(f) == GoingUp(f) \/ GoingDown(f) \/ \E h \in Holder : f \in Served(h)

LEMMA TroubleGrows == [Next]_vars => troubled \subseteq troubled'
<1> SUFFICES ASSUME [Next]_vars PROVE troubled \subseteq troubled'
  OBVIOUS
<1>1. CASE Prep \/ PrepStale \/ PrepFails
  BY <1>1 DEF Prep, PrepStale, PrepFails, List
<1>2. CASE Visit
  BY <1>2 DEF Visit, PreconfOk, PreconfStale, PreconfLost, PreconfMoveFails, Preconf,
     PreconfRefused, MovCnt, MovCntFails, OpenOrgFails, PutOk, PutFails, ReadFails,
     DelOk, DelMissing, DelFails, DelEnd, MoveEnd, RoundEnd, Trouble
<1>3. CASE \E c \in Client : ClientStep(c)
  BY <1>3 DEF ClientStep, ClientOpen, ClientOpenFails, ClientEnd, ClientSend,
     ClientSkip, ClientSendFails, Trouble
<1>4. CASE \E k \in calls : Handle(k) \/ CallBreaks(k)
  BY <1>4 DEF Handle, CallBreaks, McAdd, McAddFails, McStore, McStoreFails,
     McReturn, Trouble
<1>5. CASE (\E h \in Host : Ingest(h)) \/ MainRestart \/ \E g \in Group : GroupRestart(g)
  BY <1>5 DEF Ingest, MainRestart, GroupRestart, Trouble
<1>6. CASE UNCHANGED vars
  BY <1>6 DEF vars
<1>. QED
  BY <1>1, <1>2, <1>3, <1>4, <1>5, <1>6 DEF Next

\* The steps of the loop that leave the clients and the handlers alone: what
\* they take from a holder they are about to send, and what they no longer
\* have to send is served or an error was met about it.
LEMMA LoopFrame ==
  ASSUME TypeOK, LossInv, UNCHANGED <<clients, calls>>,
         troubled \subseteq troubled',
         \A g \in Group : org'[g] = org[g],
         \A h \in Holder : \A f \in Served(h) : f \in Served(h)' \cup todo' \cup troubled',
         \A f \in Served(Main) \cap Called : f \in Served(Main)' \cup troubled',
         \A f \in todo : \/ f \in todo' \cup troubled'
                         \/ \E h \in Holder : f \in Served(h)',
         pc' \in {"sleep", "preconf", "mov"} => todo' = {}
  PROVE  LossInv'
<1>1. \A f : GoingUp(f) => GoingUp(f)'
  <2>1. \A c \in Client : Sure(c)' = Sure(c) /\ org'[c[1]] = org[c[1]]
    BY HostTypes DEF Sure, clients
  <2>2. Called' = Called
    BY DEF Called
  <2>. QED
    BY <2>1, <2>2 DEF GoingUp
<1>2. NoSilentLoss'
  <2> SUFFICES ASSUME NEW f \in Files, f \notin troubled'
               PROVE  Kept(f)'
    BY DEF NoSilentLoss, Kept
  <2>1. Kept(f)
    BY DEF LossInv, NoSilentLoss, Kept
  <2>. QED
    BY <1>1, <2>1 DEF Kept, GoingDown
<1>3. \A c \in Client : cst'[c] \in {"none", "new"} => cseen'[c] = {}
  BY DEF LossInv, clients
<1>4. \A k \in calls' : k.i > 1 => k.file \in Served(Main)' \cup troubled'
  BY DEF LossInv, Called
<1>. QED
  BY <1>2, <1>3, <1>4 DEF LossInv

\* A Preconf that works: what it takes, its client will read; what it removes
\* from ORG_DIR unread is marked.
LEMMA LossPreconf ==
  ASSUME TypeOK, LossInv, NEW g \in Group, NEW top, Preconf(g, top),
         pc = "preconf", UNCHANGED todo
  PROVE  LossInv'
<1> DEFINE up == movAfpFile(afp[g], top)
<1>1. /\ afp' = [afp EXCEPT ![g] = @ \ up] /\ org' = [org EXCEPT ![g] = up]
      /\ UNCHANGED <<dst, cmust, cseen, calls>>
      /\ troubled' = troubled \cup UNION {org[g] \cap Sure(c) : c \in {g} \X (1..MaxClients)}
  BY DEF Preconf, Take, Trouble
<1>2. PICK n \in 1..MaxClients : /\ <<g, n>> \in Client /\ cst[<<g, n>>] = "none"
                                 /\ cst' = [cst EXCEPT ![<<g, n>>] = "new"]
  BY StartType DEF Preconf
<1>3. /\ afp'[g] = afp[g] \ up /\ org'[g] = up
      /\ \A h \in Holder : h # g => afp'[h] = afp[h] /\ org'[h] = org[h]
      /\ g # Main /\ todo = {}
  BY <1>1, HostTypes DEF TypeOK, LossInv, Host, Holder
<1>4. NoSilentLoss'
  <2> SUFFICES ASSUME NEW f \in Files, f \notin troubled'
               PROVE  Kept(f)'
    BY DEF NoSilentLoss, Kept
  <2>1. Kept(f)
    BY <1>1 DEF LossInv, NoSilentLoss, Kept
  <2>2. CASE f \in Called
    BY <1>1, <2>2 DEF Called, Kept, GoingUp
  <2>3. ASSUME NEW c \in Client, f \in Sure(c) \cap org[c[1]]
        PROVE  Kept(f)'
    <3>1. c[1] # g
      <4> SUFFICES ASSUME c[1] = g PROVE FALSE
        OBVIOUS
      <4>1. c \in {g} \X (1..MaxClients)
        BY DEF Client
      <4>. QED
        BY <1>1, <2>3, <4>1
    <3>2. cst'[c] = cst[c] /\ org'[c[1]] = org[c[1]]
      BY <1>2, <1>3, <3>1, HostTypes DEF TypeOK
    <3>3. Sure(c)' = Sure(c)
      BY <1>1, <3>2 DEF Sure
    <3>. QED
      BY <2>3, <3>2, <3>3 DEF Kept, GoingUp
  <2>4. ASSUME NEW h \in Holder, f \in Served(h)
        PROVE  Kept(f)'
    <3>1. CASE h = g /\ f \in up
      <4>1. cst'[<<g, n>>] = "new" /\ <<g, n>>[1] = g
        BY <1>2 DEF TypeOK
      <4>2. f \in Sure(<<g, n>>)' \cap org'[g]
        BY <1>3, <3>1, <4>1 DEF Sure
      <4>. QED
        BY <1>2, <4>1, <4>2 DEF Kept, GoingUp
    <3>2. CASE h # g \/ f \notin up
      BY <1>1, <1>3, <2>4, <3>2 DEF Kept, Served
    <3>. QED
      BY <3>1, <3>2
  <2>. QED
    BY <1>3, <2>1, <2>2, <2>3, <2>4 DEF Kept, GoingUp, GoingDown
<1>5. \A c \in Client : cst'[c] \in {"none", "new"} => cseen'[c] = {}
  BY <1>1, <1>2 DEF LossInv, TypeOK
<1>6. \A k \in calls' : k.i > 1 => k.file \in Served(Main)' \cup troubled'
  <2>1. Served(Main)' = Served(Main)
    BY <1>1, <1>3, HostTypes DEF Served
  <2>. QED
    BY <1>1, <2>1 DEF LossInv
<1>. QED
  BY <1>3, <1>4, <1>5, <1>6 DEF LossInv

\* The steps that take nothing from a holder: whatever a client, a handler or
\* the loop no longer has to send is served or an error was met about it.
LEMMA UpFrame ==
  ASSUME LossInv, UNCHANGED org, troubled \subseteq troubled',
         \A h \in Holder : Served(h) \subseteq Served(h)',
         todo \subseteq todo' \cup troubled',
         pc' \in {"sleep", "preconf", "mov"} => todo' = {},
         \A c \in Client : \A f \in Sure(c) \cap org[c[1]] :
           f \in Sure(c)' \cup Called' \cup troubled',
         \A c \in Client : cst'[c] \in {"none", "new"} => cseen'[c] = {},
         \A f \in Called : f \in Called' \cup Served(Main)' \cup troubled',
         \A k \in calls' : k.i > 1 => k.file \in Served(Main)' \cup troubled'
  PROVE  LossInv'
<1>1. NoSilentLoss'
  <2> SUFFICES ASSUME NEW f \in Files, f \notin troubled'
               PROVE  Kept(f)'
    BY DEF NoSilentLoss, Kept
  <2>1. Kept(f)
    BY DEF LossInv, NoSilentLoss, Kept
  <2>2. CASE f \in Called
    BY <2>2, HostTypes DEF Kept, GoingUp
  <2>3. ASSUME NEW c \in Client, f \in Sure(c) \cap org[c[1]]
        PROVE  Kept(f)'
    BY <2>3 DEF Kept, GoingUp
  <2>4. CASE GoingDown(f) \/ \E h \in Holder : f \in Served(h)
    BY <2>4 DEF Kept, GoingDown
  <2>. QED
    BY <2>1, <2>2, <2>3, <2>4 DEF Kept, GoingUp
<1>. QED
  BY <1>1 DEF LossInv

LEMMA LossInit == Init => LossInv
<1> SUFFICES ASSUME Init PROVE LossInv
  OBVIOUS
<1>1. PICK home \in [Files -> Holder] :
        afp = [h \in Host |-> {f \in Files : home[f] = IF h \in Sub THEN Main ELSE h}]
  BY DEF Init
<1>2. \A f \in Files : f \in Served(home[f])
  BY <1>1, HostTypes DEF Served, Host, Holder
<1>3. NoSilentLoss
  BY <1>2 DEF NoSilentLoss
<1>. QED
  BY <1>3 DEF Init, LossInv

\* A day begins or is skipped.
LEMMA LossPrep ==
  ASSUME TypeOK, LossInv, Prep \/ PrepStale \/ PrepFails
  PROVE  LossInv'
<1>1. UNCHANGED <<dirs, todo, clients, calls, troubled>> /\ pc = "sleep"
  BY DEF Prep, PrepStale, PrepFails, List, loop
<1>2. todo = {}
  BY <1>1 DEF LossInv
<1>. QED
  BY <1>1, <1>2, LoopFrame DEF dirs, Served

\* A Preconf that does not open ORG_DIR: the client finds what was left there.
LEMMA LossMoveFails ==
  ASSUME TypeOK, LossInv, NEW g \in Group, StartClient(g), pc = "preconf",
         UNCHANGED <<dirs, cmust, cseen, calls, todo>>, troubled \subseteq troubled'
  PROVE  LossInv'
<1>1. PICK n \in 1..MaxClients : /\ <<g, n>> \in Client /\ cst[<<g, n>>] = "none"
                                 /\ cst' = [cst EXCEPT ![<<g, n>>] = "new"]
  BY StartType
<1>2. \A c \in Client : Sure(c) \subseteq Sure(c)'
  <2> SUFFICES ASSUME NEW c \in Client PROVE Sure(c) \subseteq Sure(c)'
    OBVIOUS
  <2>1. CASE c = <<g, n>>
    BY <1>1, <2>1 DEF Sure
  <2>2. CASE c # <<g, n>>
    <3>1. cst'[c] = cst[c]
      BY <1>1, <2>2 DEF TypeOK
    <3>. QED
      BY <3>1 DEF Sure, dirs
  <2>. QED
    BY <2>1, <2>2
<1>3. \A c \in Client : cst'[c] \in {"none", "new"} => cseen'[c] = {}
  BY <1>1 DEF LossInv, TypeOK
<1>4. todo = {}
  BY DEF LossInv
<1>5. \A h : Served(h)' = Served(h)
  BY DEF Served, dirs
<1>6. Called' = Called /\ \A k \in calls' : k.i > 1 => k.file \in Served(Main)' \cup troubled'
  BY <1>5 DEF Called, LossInv
<1>. QED
  BY <1>2, <1>3, <1>4, <1>5, <1>6, UpFrame DEF dirs

\* The loop's steps in a visit.
LEMMA LossVisit ==
  ASSUME TypeOK, LossInv, Visit, troubled \subseteq troubled'
  PROVE  LossInv'
<1>1. CASE PreconfOk \/ PreconfStale \/ PreconfLost
  <2>1. \E top : Preconf(Visited, top)
    BY <1>1 DEF PreconfOk, PreconfStale, PreconfLost
  <2>2. pc = "preconf" /\ UNCHANGED todo /\ turn < Len(GroupList)
    BY <1>1 DEF PreconfOk, PreconfStale, PreconfLost
  <2>. QED
    BY <2>1, <2>2, VisitedType, LossPreconf
<1>2. CASE PreconfMoveFails
  <2>1. pc = "preconf" /\ UNCHANGED todo /\ Visited \in Group
    BY <1>2, VisitedType DEF PreconfMoveFails
  <2>2. CASE Preconf(Visited, <<>>)
    BY <2>1, <2>2, LossPreconf
  <2>3. CASE StartClient(Visited) /\ UNCHANGED <<dirs, cmust, cseen, calls>>
    BY <2>1, <2>3, LossMoveFails
  <2>. QED
    BY <1>2, <2>2, <2>3 DEF PreconfMoveFails
<1>3. CASE PreconfRefused \/ MoveEnd \/ RoundEnd \/ DelEnd
  <2>1. UNCHANGED <<dirs, todo, clients, calls, troubled>>
    BY <1>3 DEF PreconfRefused, MoveEnd, RoundEnd, DelEnd
  <2>2. pc' \in {"sleep", "preconf", "mov"} => todo = {}
    BY <1>3 DEF PreconfRefused, MoveEnd, RoundEnd, DelEnd, LossInv
  <2>. QED
    BY <2>1, <2>2, LoopFrame DEF dirs, Served
<1>4. CASE MovCnt
  <2> DEFINE down == movCntFile(afp[Main], bot, lineCount, result)
  <2>1. /\ afp' = [afp EXCEPT ![Main] = @ \ down] /\ org' = [org EXCEPT ![Main] = down]
        /\ UNCHANGED <<dst, clients, calls>> /\ todo' = org'[Main]
        /\ pc = "mov" /\ pc' = "move"
        /\ down \cap Called \subseteq troubled'
    BY <1>4 DEF MovCnt, Take, Trouble
  <2> HIDE DEF down
  <2>2. /\ afp'[Main] = afp[Main] \ down /\ todo' = down
        /\ \A h \in Holder : h # Main => afp'[h] = afp[h]
        /\ \A g \in Group : org'[g] = org[g]
    BY <2>1, HostTypes DEF TypeOK
  <2>3. todo = {}
    BY <2>1 DEF LossInv
  <2>4. \A h \in Holder : \A f \in Served(h) : f \in Served(h)' \cup todo' \cup troubled'
    BY <2>1, <2>2 DEF Served
  <2>5. \A f \in Served(Main) \cap Called : f \in Served(Main)' \cup troubled'
    BY <2>1, <2>2 DEF Served
  <2>. QED
    BY <2>1, <2>2, <2>3, <2>4, <2>5, LoopFrame
<1>5. CASE MovCntFails
  <2>1. /\ UNCHANGED <<afp, dst, clients, calls>> /\ pc = "mov" /\ pc' = "move"
        /\ \A g \in Group : org'[g] = org[g]
    BY <1>5, HostTypes DEF MovCntFails, TypeOK
  <2>2. todo = {}
    BY <2>1 DEF LossInv
  <2>. QED
    BY <2>1, <2>2, LoopFrame DEF Served
<1>6. CASE OpenOrgFails
  <2>1. UNCHANGED <<dirs, pc, clients, calls>> /\ pc = "move" /\ todo \subseteq troubled'
    BY <1>6 DEF OpenOrgFails, Trouble
  <2>. QED
    BY <2>1, LoopFrame DEF Served, dirs
<1>7. ASSUME NEW f \in Files, PutOk(f) \/ PutFails(f)
      PROVE  LossInv'
  <2>1. /\ UNCHANGED <<afp, org, clients, calls>> /\ pc' = "del" /\ todo' = todo \ {f}
        /\ Visited \in Group
    BY <1>7, VisitedType DEF PutOk, PutFails, Put, TypeOK
  <2>2. \A h \in Host : Served(h) \subseteq Served(h)'
    BY <1>7, <2>1 DEF PutOk, PutFails, TypeOK, Served
  <2>3. f \in troubled' \/ \E h \in Holder : f \in Served(h)'
    <3>1. CASE PutOk(f)
      <4>1. Visited \in Host /\ Visited \in Holder
        BY <2>1, HostTypes
      <4>2. dst'[Visited] = dst[Visited] \cup {f} /\ Visited' = Visited
        BY <3>1, <4>1 DEF PutOk, Put, TypeOK, Visited
      <4>. QED
        BY <4>1, <4>2 DEF Served
    <3>2. CASE PutFails(f)
      BY <3>2 DEF PutFails, Trouble
    <3>. QED
      BY <1>7, <3>1, <3>2
  <2>4. \A h \in Holder : Served(h) \subseteq Served(h)'
    BY <2>2 DEF Host
  <2>5. \A g \in Group : org'[g] = org[g]
    BY <2>1
  <2>6. \A e \in todo : e \in todo' \cup troubled' \/ \E h \in Holder : e \in Served(h)'
    BY <2>1, <2>3
  <2>7. troubled \subseteq troubled' /\ UNCHANGED <<clients, calls>>
    BY <2>1
  <2>. QED
    BY <2>1, <2>4, <2>5, <2>6, <2>7, HostTypes, LoopFrame
<1>8. ASSUME NEW f \in Files, ReadFails(f)
      PROVE  LossInv'
  <2>1. /\ UNCHANGED <<dirs, pc, clients, calls>> /\ pc = "move" /\ todo' = todo \ {f}
        /\ f \in troubled'
    BY <1>8 DEF ReadFails, Trouble
  <2>. QED
    BY <2>1, LoopFrame DEF Served, dirs
<1>9. CASE DelOk \/ DelMissing \/ DelFails
  <2>1. /\ UNCHANGED <<dst, org, todo, clients, calls, pc>> /\ pc = "del"
        /\ i \in 1..Len(SubList)
    BY <1>9, HostTypes DEF DelOk, DelMissing, DelFails, DelAfps, TypeOK
  <2>2. \A h \in Holder : afp'[h] = afp[h]
    <3>1. \A h \in Holder : h \in Host /\ h # SubList[i]
      BY <2>1, HostTypes DEF Host
    <3>. QED
      BY <1>9, <3>1 DEF DelOk, DelMissing, DelFails, TypeOK
  <2>3. \A h \in Holder : Served(h)' = Served(h)
    BY <2>1, <2>2 DEF Served
  <2>. QED
    BY <2>1, <2>3, HostTypes, LoopFrame
<1>. QED
  BY <1>1, <1>2, <1>3, <1>4, <1>5, <1>6, <1>7, <1>8, <1>9 DEF Visit

LEMMA SentCall ==
  ASSUME NEW c, NEW f, ClientSend(c, f)
  PROVE  \E k : calls' = calls \cup {k} /\ k.file = f /\ k.i = 1
<1> DEFINE k == [client |-> c, file |-> f, i |-> 1, ph |-> "add", heard |-> TRUE]
<1>1. k.file = f /\ k.i = 1
  OBVIOUS
<1>2. calls' = calls \cup {k}
  BY DEF ClientSend
<1> HIDE DEF k
<1>. QED
  BY <1>1, <1>2

\* A client's steps.
LEMMA LossClient ==
  ASSUME TypeOK, LossInv, NEW c \in Client, ClientStep(c), troubled \subseteq troubled'
  PROVE  LossInv'
<1>1. UNCHANGED <<dirs, pc, todo>>
  BY DEF ClientStep, ClientOpen, ClientOpenFails, ClientEnd, ClientSend,
     ClientSkip, ClientSendFails, Read, loop
<1>2. \A h : Served(h)' = Served(h)
  BY <1>1 DEF Served, dirs
<1>3. \A d \in Client : d # c => cst'[d] = cst[d] /\ cmust'[d] = cmust[d] /\ cseen'[d] = cseen[d]
  BY DEF ClientStep, ClientOpen, ClientOpenFails, ClientEnd, ClientSend,
     ClientSkip, ClientSendFails, Read, TypeOK
<1>4. \A d \in Client : d # c => Sure(d)' = Sure(d)
  BY <1>1, <1>3 DEF Sure, dirs
<1>5. cst'[c] \in {"none", "new"} => cseen'[c] = {}
  BY DEF ClientStep, ClientOpen, ClientOpenFails, ClientEnd, ClientSend,
     ClientSkip, ClientSendFails, Read, TypeOK
<1>6. calls \subseteq calls' /\ \A k \in calls' : k \in calls \/ k.i = 1
  <2>1. UNCHANGED calls \/ \E f \in Files : ClientSend(c, f)
    BY DEF ClientStep, ClientOpen, ClientOpenFails, ClientEnd, ClientSkip, ClientSendFails
  <2>2. ASSUME NEW f \in Files, ClientSend(c, f)
        PROVE  \E k : calls' = calls \cup {k} /\ k.i = 1
    BY <2>2, SentCall
  <2>. QED
    BY <2>1, <2>2
<1>7. \A f \in Sure(c) \cap org[c[1]] : f \in Sure(c)' \cup Called' \cup troubled'
  <2>1. CASE ClientOpen(c)
    BY <2>1 DEF ClientOpen, Sure, LossInv, TypeOK, dirs
  <2>2. CASE ClientOpenFails(c)
    BY <2>2 DEF ClientOpenFails, Trouble
  <2>3. CASE ClientEnd(c)
    BY <2>3 DEF ClientEnd, Sure
  <2>4. ASSUME NEW f \in Files, Read(c, f), f \in Called' \cup troubled' \/ f \notin org[c[1]]
        PROVE  \A e \in Sure(c) \cap org[c[1]] : e \in Sure(c)' \cup Called' \cup troubled'
    BY <2>4 DEF Read, Sure, TypeOK
  <2>5. ASSUME NEW f \in Files, ClientSend(c, f)
        PROVE  f \in Called'
    <3>1. PICK k : calls' = calls \cup {k} /\ k.file = f
      BY <2>5, SentCall
    <3>. QED
      BY <3>1 DEF Called
  <2>6. ASSUME NEW f \in Files, ClientSendFails(c, f)
        PROVE  f \in troubled'
    BY <2>6 DEF ClientSendFails, Trouble
  <2>. QED
    BY <2>1, <2>2, <2>3, <2>4, <2>5, <2>6
    DEF ClientStep, ClientSend, ClientSkip, ClientSendFails
<1>8. \A d \in Client : \A f \in Sure(d) \cap org[d[1]] :
        f \in Sure(d)' \cup Called' \cup troubled'
  BY <1>4, <1>7
<1>9. \A d \in Client : cst'[d] \in {"none", "new"} => cseen'[d] = {}
  BY <1>3, <1>5 DEF LossInv
<1>10. \A k \in calls' : k.i > 1 => k.file \in Served(Main)' \cup troubled'
  BY <1>2, <1>6 DEF LossInv
<1>11. Called \subseteq Called'
  BY <1>6 DEF Called
<1>12. pc' \in {"sleep", "preconf", "mov"} => todo' = {}
  BY <1>1 DEF LossInv
<1>. QED
  BY <1>1, <1>2, <1>8, <1>9, <1>10, <1>11, <1>12, UpFrame DEF dirs

\* The steps of an invocation of McServer::Afpmove: when it ends without an
\* error it has been past a sub cache, so the main cache has the file.
LEMMA LossHandle ==
  ASSUME TypeOK, LossInv, SubList # <<>>, NEW k \in calls, Handle(k) \/ CallBreaks(k),
         troubled \subseteq troubled'
  PROVE  LossInv'
<1>1. k \in Call /\ k.i \in 1..(Len(SubList) + 1)
  BY CallType DEF TypeOK
<1>2. UNCHANGED <<org, afp, pc, todo, clients>>
  BY DEF Handle, CallBreaks, McAdd, McAddFails, McStore, McStoreFails, McReturn,
     dirs, loop
<1>3. \A h \in Holder : Served(h) \subseteq Served(h)'
  BY <1>2 DEF Handle, CallBreaks, McAdd, McAddFails, McStore, McStoreFails,
     McReturn, dirs, TypeOK, Served, Host
<1>4. \A c \in Client : Sure(c)' = Sure(c)
  BY <1>2 DEF Sure, clients
<1>5. /\ \A l \in calls : l # k => l \in calls'
      /\ \/ calls' \subseteq calls
         \/ \E l : /\ calls' \subseteq calls \cup {l} /\ l \in calls' /\ l.file = k.file
                   /\ l.i > 1 => k.i > 1 \/ k.file \in Served(Main)'
  <2>1. CASE McAddFails(k) \/ McStoreFails(k) \/ McReturn(k)
    BY <2>1 DEF McAddFails, McStoreFails, McReturn, End
  <2>2. CASE McAdd(k)
    <3> DEFINE l == [k EXCEPT !.ph = "store"]
    <3>1. l.file = k.file /\ l.i = k.i
      BY <1>1, CallType
    <3>2. calls' = (calls \ {k}) \cup {l}
      BY <2>2 DEF McAdd, Become
    <3> HIDE DEF l
    <3>. QED
      BY <3>1, <3>2
  <2>3. CASE CallBreaks(k)
    <3> DEFINE l == [k EXCEPT !.heard = FALSE]
    <3>1. l.file = k.file /\ l.i = k.i
      BY <1>1, CallType
    <3>2. calls' = (calls \ {k}) \cup {l}
      BY <2>3 DEF CallBreaks, Become
    <3> HIDE DEF l
    <3>. QED
      BY <3>1, <3>2
  <2>4. CASE McStore(k)
    <3>1. k.file \in Served(Main)'
      BY <2>4, HostTypes DEF McStore, Served, TypeOK
    <3> DEFINE l == [k EXCEPT !.ph = "add", !.i = @ + 1]
    <3>2. l.file = k.file
      BY <1>1 DEF Call
    <3>3. calls' = (calls \ {k}) \cup {l}
      BY <2>4 DEF McStore, Become
    <3> HIDE DEF l
    <3>. QED
      BY <3>1, <3>2, <3>3
  <2>. QED
    BY <2>1, <2>2, <2>3, <2>4 DEF Handle
<1>6. k.file \in Called' \cup Served(Main)' \cup troubled'
  <2>1. CASE McAddFails(k) \/ McStoreFails(k) \/ CallBreaks(k)
    BY <2>1 DEF McAddFails, McStoreFails, CallBreaks, Trouble
  <2>2. CASE McReturn(k)
    <3>1. k.i > 1
      <4>1. Len(SubList) > 0
        BY FingerMoveAssumption
      <4>. QED
        BY <1>1, <2>2, <4>1, HostTypes DEF McReturn
    <3>. QED
      BY <1>3, <3>1, HostTypes DEF LossInv
  <2>3. CASE McAdd(k)
    <3>1. [k EXCEPT !.ph = "store"] \in calls' /\ [k EXCEPT !.ph = "store"].file = k.file
      BY <1>1, <2>3, CallType DEF McAdd, Become
    <3>. QED
      BY <3>1 DEF Called
  <2>4. CASE McStore(k)
    BY <2>4, HostTypes DEF McStore, Served, TypeOK
  <2>. QED
    BY <2>1, <2>2, <2>3, <2>4 DEF Handle
<1>7. \A f \in Called : f \in Called' \cup Served(Main)' \cup troubled'
  BY <1>5, <1>6 DEF Called
<1>8. \A l \in calls' : l.i > 1 => l.file \in Served(Main)' \cup troubled'
  BY <1>3, <1>5, HostTypes DEF LossInv
<1>9. \A c \in Client : cst'[c] \in {"none", "new"} => cseen'[c] = {}
  BY <1>2 DEF LossInv, clients
<1>10. pc' \in {"sleep", "preconf", "mov"} => todo' = {}
  BY <1>2 DEF LossInv
<1>. QED
  BY <1>2, <1>3, <1>4, <1>7, <1>8, <1>9, <1>10, UpFrame

LEMMA LossRestart ==
  ASSUME TypeOK, LossInv, MainRestart \/ \E g \in Group : GroupRestart(g),
         troubled \subseteq troubled'
  PROVE  LossInv'
<1>1. UNCHANGED dirs /\ \A h : Served(h)' = Served(h)
  BY DEF MainRestart, GroupRestart, Served, dirs
<1>2. CASE MainRestart
  <2>1. /\ todo' = {} /\ todo \cup Called \subseteq troubled' /\ UNCHANGED clients
        /\ calls' = {}
    BY <1>2 DEF MainRestart, Trouble
  <2>2. \A c \in Client : Sure(c)' = Sure(c)
    BY <1>1, <2>1 DEF Sure, dirs, clients
  <2>3. \A c \in Client : cst'[c] \in {"none", "new"} => cseen'[c] = {}
    BY <2>1 DEF LossInv, clients
  <2>. QED
    BY <1>1, <2>1, <2>2, <2>3, UpFrame DEF dirs
<1>3. ASSUME NEW g \in Group, GroupRestart(g)
      PROVE  LossInv'
  <2> DEFINE mine == {c \in Client : c[1] = g}
             cut(k) == [k EXCEPT !.heard = @ /\ k.client \notin mine]
  <2>1. \A k \in calls : cut(k).file = k.file /\ cut(k).i = k.i
    BY DEF TypeOK, Call
  <2>2. calls' = {cut(k) : k \in calls}
    BY <1>3 DEF GroupRestart
  <2> HIDE DEF cut
  <2>3. Called' = Called
    BY <2>1, <2>2 DEF Called
  <2>4. \A k \in calls' : k.i > 1 => k.file \in Served(Main)' \cup troubled'
    BY <1>1, <2>1, <2>2 DEF LossInv
  <2>5. ASSUME NEW c \in Client
        PROVE  \A f \in Sure(c) \cap org[c[1]] : f \in Sure(c)' \cup Called' \cup troubled'
    <3>1. CASE c \in mine
      BY <1>3, <3>1 DEF GroupRestart, Trouble
    <3>2. CASE c \notin mine
      BY <1>1, <1>3, <3>2 DEF GroupRestart, Sure, dirs
    <3>. QED
      BY <3>1, <3>2
  <2>6. \A c \in Client : cst'[c] \in {"none", "new"} => cseen'[c] = {}
    BY <1>3 DEF GroupRestart, LossInv, TypeOK
  <2>7. UNCHANGED <<pc, todo>>
    BY <1>3 DEF GroupRestart, loop
  <2>8. pc' \in {"sleep", "preconf", "mov"} => todo' = {}
    BY <2>7 DEF LossInv
  <2>. QED
    BY <1>1, <2>3, <2>4, <2>5, <2>6, <2>7, <2>8, UpFrame DEF dirs
<1>. QED
  BY <1>2, <1>3

LEMMA LossNext == SubList # <<>> /\ TypeOK /\ LossInv /\ [Next]_vars => LossInv'
<1> SUFFICES ASSUME SubList # <<>>, TypeOK, LossInv, [Next]_vars
             PROVE  LossInv'
  OBVIOUS
<1>1. troubled \subseteq troubled'
  BY TroubleGrows
<1>2. CASE Prep \/ PrepStale \/ PrepFails
  BY <1>2, LossPrep
<1>3. CASE Visit
  BY <1>1, <1>3, LossVisit
<1>4. CASE \E c \in Client : ClientStep(c)
  BY <1>1, <1>4, LossClient
<1>5. CASE \E k \in calls : Handle(k) \/ CallBreaks(k)
  BY <1>1, <1>5, LossHandle
<1>6. ASSUME NEW h \in Host, Ingest(h)
      PROVE  LossInv'
  <2>1. UNCHANGED <<org, loop, clients, calls, troubled>>
    BY <1>6 DEF Ingest
  <2>2. \A g \in Host : Served(g)' = Served(g)
    BY <1>6 DEF Ingest, Served, TypeOK
  <2>. QED
    BY <2>1, <2>2, HostTypes, LoopFrame DEF LossInv, loop, Host
<1>7. CASE MainRestart \/ \E g \in Group : GroupRestart(g)
  BY <1>1, <1>7, LossRestart
<1>8. CASE UNCHANGED vars
  BY <1>8, LoopFrame DEF LossInv, vars, dirs, loop, Served
<1>. QED
  BY <1>2, <1>3, <1>4, <1>5, <1>6, <1>7, <1>8 DEF Next

\* No fingerprint is lost without a trace as long as there is a sub cache:
\* with an empty sub_list McServer::Afpmove says OK and stores nothing.
THEOREM NothingLost ==
  ASSUME SubList # <<>>
  PROVE  Spec => []NoSilentLoss
<1>1. Init => TypeOK /\ LossInv
  BY TypeInit, LossInit
<1>2. TypeOK /\ LossInv /\ [Next]_vars => (TypeOK /\ LossInv)'
  BY TypeNext, LossNext
<1>3. LossInv => NoSilentLoss
  BY DEF LossInv
<1>. QED
  BY <1>1, <1>2, <1>3, PTL DEF Spec

-----------------------------------------------------------------------------
(* One place at a time *)

\* The files client c may still send to the main cache.
Sends(c) == May(c) \cap org[c[1]]

\* What a client is sure to read is still in ORG_DIR, or marked.
SureKept == \A c \in Client : Sure(c) \subseteq org[c[1]] \cup troubled

\* A file is served by one holder at most, with one copy in a group; the
\* loop sends what nobody serves, calls about or is going to send; and what
\* is on its way up, no group serves.
OnePlace(f) ==
  /\ \A g, h \in Holder : f \in Served(g) \cap Served(h) => g = h
  /\ \A g \in Group : f \notin afp[g] \cap dst[g]
  /\ f \in todo => /\ \A h \in Holder : f \notin Served(h)
                   /\ f \notin Called
                   /\ \A c \in Client : f \notin Sends(c)
  /\ f \in Called => \A g \in Group : f \notin Served(g)
  /\ \A c \in Client : f \in Sends(c) => \A g \in Group : f \notin Served(g)

PlaceInv == SureKept /\ \A f \in Files \ troubled : OnePlace(f)

-----------------------------------------------------------------------------
(* What a step does to a file that is not marked *)

\* Whoever serves f keeps serving it, and f does not join or leave todo.
\* A file on its way up may go on from a client to a handler.
Stay(f) ==
  /\ \A h \in Holder : f \in Served(h)' <=> f \in Served(h)
  /\ \A g \in Group : f \in afp'[g] \cap dst'[g] => f \in afp[g] \cap dst[g]
  /\ f \in todo' <=> f \in todo
  /\ f \in Called' => f \in Called \/ \E c \in Client : f \in Sends(c)
  /\ \A c \in Client : f \in Sends(c)' => f \in Sends(c)

\* Preconf renames f into ORG_DIR of group g.
TakenUp(f, g) ==
  /\ f \in afp[g] /\ f \notin afp'[g] /\ dst'[g] = dst[g]
  /\ \A h \in Holder \ {g} : afp'[h] = afp[h] /\ dst'[h] = dst[h]
  /\ todo = {} /\ todo' = {} /\ Called' = Called

\* The main cache's handler writes f.
Stored(f) ==
  /\ f \in Called /\ f \in Served(Main)'
  /\ \A g \in Group : afp'[g] = afp[g] /\ dst'[g] = dst[g]
  /\ todo' = todo /\ Called' \subseteq Called
  /\ \A c \in Client : Sends(c)' = Sends(c)

\* movCntFile renames f into the main cache's ORG_DIR.
TakenDown(f) ==
  /\ f \in afp[Main] /\ f \notin Served(Main)'
  /\ \A g \in Group : afp'[g] = afp[g] /\ dst'[g] = dst[g]
  /\ todo = {} /\ f \in todo' /\ f \notin Called'
  /\ \A c \in Client : f \notin Sends(c)'

\* Group g writes f.
PutDown(f, g) ==
  /\ f \in todo /\ f \notin todo' /\ f \in dst'[g]
  /\ \A h \in Holder : afp'[h] = afp[h]
  /\ \A h \in Holder \ {g} : dst'[h] = dst[h]
  /\ Called' = Called /\ \A c \in Client : Sends(c)' = Sends(c)

\* The files that move in one step move the same way.
Flow ==
  LET Clean == Files \ troubled'
  IN  \/ \E g \in Group : \A f \in Clean : Stay(f) \/ TakenUp(f, g)
      \/ \A f \in Clean : Stay(f) \/ Stored(f)
      \/ \A f \in Clean : Stay(f) \/ TakenDown(f)
      \/ \E g \in Group : \A f \in Clean : Stay(f) \/ PutDown(f, g)

\* The steps that leave the holders' directories and the loop's entries be.
LEMMA StayFrame ==
  ASSUME UNCHANGED todo,
         \A h \in Holder : afp'[h] = afp[h] /\ dst'[h] = dst[h],
         \A f \in Files \ troubled' :
           /\ f \in Called' => f \in Called \/ \E c \in Client : f \in Sends(c)
           /\ \A c \in Client : f \in Sends(c)' => f \in Sends(c)
  PROVE  \A f \in Files \ troubled' : Stay(f)
BY DEF Stay, Served, Holder

\* The clients' entries when neither the clients nor ORG_DIR of their groups
\* change.
LEMMA SendsFrame ==
  ASSUME UNCHANGED clients, \A g \in Group : org'[g] = org[g]
  PROVE  \A c \in Client : May(c)' = May(c) /\ Sends(c)' = Sends(c) /\ Sure(c)' = Sure(c)
BY HostTypes DEF May, Sure, Sends, clients

LEMMA FlowPreconf ==
  ASSUME TypeOK, LossInv, PlaceInv, NEW g \in Group, NEW top, Preconf(g, top),
         pc = "preconf", UNCHANGED todo
  PROVE  /\ \A f \in Files \ troubled' : Stay(f) \/ TakenUp(f, g)
         /\ SureKept'
<1> DEFINE up == movAfpFile(afp[g], top)
<1>1. /\ afp' = [afp EXCEPT ![g] = @ \ up] /\ org' = [org EXCEPT ![g] = up]
      /\ UNCHANGED <<dst, cmust, cseen, calls>>
      /\ troubled' = troubled \cup UNION {org[g] \cap Sure(c) : c \in {g} \X (1..MaxClients)}
  BY DEF Preconf, Take, Trouble
<1>2. PICK n \in 1..MaxClients : /\ <<g, n>> \in Client /\ cst[<<g, n>>] = "none"
                                 /\ cst' = [cst EXCEPT ![<<g, n>>] = "new"]
  BY StartType DEF Preconf
<1>3. /\ afp'[g] = afp[g] \ up /\ org'[g] = up /\ up \subseteq afp[g]
      /\ \A h \in Holder : h # g => afp'[h] = afp[h] /\ org'[h] = org[h]
      /\ todo = {} /\ todo' = {} /\ Called' = Called
  BY <1>1, HostTypes DEF TypeOK, LossInv, Host, Holder, Called, movAfpFile
<1> HIDE DEF up
<1>4. \A c \in Client : c[1] # g => /\ org'[c[1]] = org[c[1]] /\ cst'[c] = cst[c]
                                    /\ May(c)' = May(c) /\ Sure(c)' = Sure(c)
  BY <1>1, <1>2, <1>3, HostTypes DEF TypeOK, May, Sure
<1>5. ASSUME NEW f \in Files, f \notin up
      PROVE  Stay(f)
  <2>1. \A c \in Client : f \in Sends(c)' => f \in Sends(c)
    BY <1>3, <1>4, <1>5 DEF Sends
  <2>2. \A h \in Holder : f \in Served(h)' <=> f \in Served(h)
    BY <1>1, <1>3, <1>5 DEF Served
  <2>. QED
    BY <1>1, <1>3, <1>5, <2>1, <2>2, HostTypes DEF Stay
<1>6. ASSUME NEW f \in up
      PROVE  TakenUp(f, g)
  BY <1>1, <1>3, <1>6 DEF TakenUp
<1>7. ASSUME NEW c \in Client
      PROVE  Sure(c)' \subseteq org'[c[1]] \cup troubled'
  <2>1. CASE c[1] # g
    BY <1>1, <1>4, <2>1 DEF PlaceInv, SureKept
  <2>2. CASE c[1] = g /\ cst'[c] = "new"
    BY <2>2 DEF Sure
  <2>3. CASE c[1] = g /\ cst'[c] # "new"
    <3>1. cst'[c] = cst[c]
      BY <1>2, <2>3 DEF TypeOK
    <3>2. Sure(c)' = Sure(c)
      BY <1>1, <2>3, <3>1 DEF Sure
    <3>3. c \in {g} \X (1..MaxClients)
      BY <2>3, HostTypes
    <3>4. Sure(c) \subseteq org[g] \cup troubled
      BY <2>3 DEF PlaceInv, SureKept
    <3>. QED
      BY <1>1, <3>2, <3>3, <3>4
  <2>. QED
    BY <2>1, <2>2, <2>3
<1>. QED
  BY <1>5, <1>6, <1>7 DEF SureKept

\* A Preconf that does not open ORG_DIR: what is left there is marked.
LEMMA FlowMoveFails ==
  ASSUME TypeOK, LossInv, PlaceInv, NEW g \in Group, StartClient(g),
         Trouble(org[g]), UNCHANGED <<dirs, cmust, cseen, calls, todo>>
  PROVE  /\ \A f \in Files \ troubled' : Stay(f)
         /\ SureKept'
<1>1. PICK n \in 1..MaxClients : /\ <<g, n>> \in Client /\ cst[<<g, n>>] = "none"
                                 /\ cst' = [cst EXCEPT ![<<g, n>>] = "new"]
  BY StartType
<1>2. \A c \in Client : c[1] # g => May(c)' = May(c) /\ Sure(c)' = Sure(c)
  BY <1>1 DEF TypeOK, May, Sure, dirs
<1>3. org[g] \subseteq troubled' /\ troubled \subseteq troubled' /\ org' = org
  BY DEF Trouble, dirs
<1>4. ASSUME NEW c \in Client
      PROVE  /\ \A f \in Files \ troubled' : f \in Sends(c)' => f \in Sends(c)
             /\ Sure(c)' \subseteq org'[c[1]] \cup troubled'
  <2>1. CASE c[1] # g
    BY <1>2, <1>3, <2>1 DEF Sends, PlaceInv, SureKept
  <2>2. CASE c = <<g, n>>
    BY <1>1, <1>3, <2>2 DEF Sends, Sure, TypeOK
  <2>3. CASE c[1] = g /\ c # <<g, n>>
    <3>1. Sure(c)' = Sure(c)
      BY <1>1, <2>3 DEF Sure, TypeOK, dirs
    <3>. QED
      BY <1>3, <2>3, <3>1 DEF Sends, PlaceInv, SureKept
  <2>. QED
    BY <2>1, <2>2, <2>3
<1>5. Called' = Called
  BY DEF Called
<1>. QED
  BY <1>4, <1>5, StayFrame DEF SureKept, dirs

LEMMA FlowMovCnt ==
  ASSUME TypeOK, LossInv, PlaceInv, MovCnt
  PROVE  \A f \in Files \ troubled' : Stay(f) \/ TakenDown(f)
<1> DEFINE down == movCntFile(afp[Main], bot, lineCount, result)
<1>1. /\ afp' = [afp EXCEPT ![Main] = @ \ down] /\ org' = [org EXCEPT ![Main] = down]
      /\ UNCHANGED <<dst, clients, calls>> /\ todo' = org'[Main] /\ pc = "mov"
      /\ down \cap (Called \cup dst[Main] \cup UNION {May(c) : c \in Client}) \subseteq troubled'
      /\ down \subseteq afp[Main]
  BY DEF MovCnt, Take, Trouble, movCntFile
<1> HIDE DEF down
<1>2. /\ afp'[Main] = afp[Main] \ down /\ todo' = down
      /\ \A g \in Group : org'[g] = org[g] /\ afp'[g] = afp[g]
      /\ todo = {} /\ Called' = Called
  BY <1>1, HostTypes DEF TypeOK, LossInv, Called
<1>3. \A c \in Client : May(c)' = May(c) /\ Sends(c)' = Sends(c)
  BY <1>1, <1>2, SendsFrame
<1>4. ASSUME NEW f \in Files \ troubled', f \in down
      PROVE  TakenDown(f)
  <2>1. f \notin Called /\ f \notin dst[Main] /\ \A c \in Client : f \notin May(c)
    BY <1>1, <1>4
  <2>. QED
    BY <1>1, <1>2, <1>3, <1>4, <2>1 DEF TakenDown, Served, Sends
<1>5. ASSUME NEW f \in Files \ troubled', f \notin down
      PROVE  Stay(f)
  <2>1. \A h \in Holder : f \in Served(h)' <=> f \in Served(h)
    BY <1>1, <1>2, <1>5 DEF Served, Holder
  <2>. QED
    BY <1>1, <1>2, <1>3, <1>5, <2>1 DEF Stay
<1>. QED
  BY <1>4, <1>5

LEMMA FlowPut ==
  ASSUME TypeOK, LossInv, PlaceInv, NEW f \in Files, PutOk(f) \/ PutFails(f)
  PROVE  /\ Visited \in Group
         /\ \A e \in Files \ troubled' : Stay(e) \/ PutDown(e, Visited)
<1>1. /\ UNCHANGED <<afp, org, clients, calls>> /\ todo' = todo \ {f} /\ f \in todo
      /\ \/ dst' = [dst EXCEPT ![Visited] = @ \cup {f}]
         \/ dst' = dst /\ f \in troubled'
      /\ Visited \in Group
  BY VisitedType DEF PutOk, PutFails, Put, TypeOK, Trouble
<1>2. Called' = Called /\ \A c \in Client : Sends(c)' = Sends(c)
  BY <1>1, SendsFrame DEF Called
<1>3. \A h \in Holder : h # Visited => dst'[h] = dst[h]
  BY <1>1, HostTypes DEF TypeOK, Host
<1>4. dst'[Visited] = dst[Visited] \cup {f} \/ (dst' = dst /\ f \in troubled')
  BY <1>1, HostTypes DEF TypeOK
<1>5. ASSUME NEW e \in Files \ troubled', e # f
      PROVE  Stay(e)
  <2>1. \A h \in Holder : e \in dst'[h] <=> e \in dst[h]
    BY <1>3, <1>4, <1>5
  <2>2. (e \in todo' <=> e \in todo) /\ afp' = afp
    BY <1>1, <1>5
  <2>. QED
    BY <1>2, <2>1, <2>2, HostTypes DEF Stay, Served
<1>6. ASSUME f \notin troubled'
      PROVE  PutDown(f, Visited)
  <2>1. f \in dst'[Visited]
    BY <1>4, <1>6
  <2>. QED
    BY <1>1, <1>2, <1>3, <2>1 DEF PutDown
<1>. QED
  BY <1>1, <1>5, <1>6

LEMMA FlowVisit ==
  ASSUME TypeOK, LossInv, PlaceInv, Visit, troubled \subseteq troubled'
  PROVE  Flow /\ SureKept'
<1>0. ASSUME UNCHANGED clients, \A g \in Group : org'[g] = org[g]
      PROVE  SureKept'
  BY <1>0, SendsFrame, HostTypes DEF PlaceInv, SureKept
<1>1. CASE PreconfOk \/ PreconfStale \/ PreconfLost
  <2>1. \E top : Preconf(Visited, top)
    BY <1>1 DEF PreconfOk, PreconfStale, PreconfLost
  <2>2. pc = "preconf" /\ UNCHANGED todo /\ turn < Len(GroupList)
    BY <1>1 DEF PreconfOk, PreconfStale, PreconfLost
  <2>. QED
    BY <2>1, <2>2, VisitedType, FlowPreconf DEF Flow
<1>2. CASE PreconfMoveFails
  <2>1. pc = "preconf" /\ UNCHANGED todo /\ Visited \in Group
    BY <1>2, VisitedType DEF PreconfMoveFails
  <2>2. CASE Preconf(Visited, <<>>)
    BY <2>1, <2>2, FlowPreconf DEF Flow
  <2>3. CASE /\ StartClient(Visited) /\ Trouble(org[Visited])
             /\ UNCHANGED <<dirs, cmust, cseen, calls>>
    BY <2>1, <2>3, FlowMoveFails DEF Flow
  <2>. QED
    BY <1>2, <2>2, <2>3 DEF PreconfMoveFails
<1>3. CASE PreconfRefused \/ MoveEnd \/ RoundEnd \/ DelEnd
  <2>1. UNCHANGED <<dirs, todo, clients, calls, troubled>>
    BY <1>3 DEF PreconfRefused, MoveEnd, RoundEnd, DelEnd
  <2>. QED
    BY <1>0, <2>1, SendsFrame, StayFrame DEF dirs, Called, Flow
<1>4. CASE MovCnt
  <2>1. UNCHANGED clients /\ \A g \in Group : org'[g] = org[g]
    BY <1>4, HostTypes DEF MovCnt, Take, TypeOK
  <2>. QED
    BY <1>0, <1>4, <2>1, FlowMovCnt DEF Flow
<1>5. CASE MovCntFails
  <2>1. /\ UNCHANGED <<afp, dst, clients, calls>> /\ pc = "mov"
        /\ \A g \in Group : org'[g] = org[g]
        /\ todo' \subseteq troubled'
    BY <1>5, HostTypes DEF MovCntFails, TypeOK, Trouble
  <2>2. todo = {}
    BY <2>1 DEF LossInv
  <2>3. \A c \in Client : Sends(c)' = Sends(c)
    BY <2>1, SendsFrame
  <2>. QED
    BY <1>0, <2>1, <2>2, <2>3 DEF Stay, Served, Called, Flow
<1>6. ASSUME NEW f \in Files, PutOk(f) \/ PutFails(f)
      PROVE  Flow /\ SureKept'
  BY <1>0, <1>6, FlowPut DEF Flow, PutOk, PutFails, Put
<1>7. CASE OpenOrgFails \/ \E f \in Files : ReadFails(f)
  <2>1. /\ UNCHANGED <<dirs, clients, calls>> /\ todo' \subseteq todo
        /\ todo \ todo' \subseteq troubled'
    BY <1>7 DEF OpenOrgFails, ReadFails, Trouble
  <2>2. \A c \in Client : Sends(c)' = Sends(c)
    BY <2>1, SendsFrame DEF dirs
  <2>. QED
    BY <1>0, <2>1, <2>2 DEF Stay, Served, Called, Flow, dirs
<1>8. CASE DelOk \/ DelMissing \/ DelFails
  <2>1. UNCHANGED <<dst, org, todo, clients, calls>> /\ i \in 1..Len(SubList)
    BY <1>8, HostTypes DEF DelOk, DelMissing, DelFails, DelAfps, TypeOK
  <2>2. \A h \in Holder : afp'[h] = afp[h]
    <3>1. \A h \in Holder : h \in Host /\ h # SubList[i]
      BY <2>1, HostTypes DEF Host
    <3>. QED
      BY <1>8, <3>1 DEF DelOk, DelMissing, DelFails, TypeOK
  <2>. QED
    BY <1>0, <2>1, <2>2, SendsFrame, StayFrame DEF Called, Flow
<1>. QED
  BY <1>1, <1>2, <1>3, <1>4, <1>5, <1>6, <1>7, <1>8 DEF Visit

LEMMA FlowClient ==
  ASSUME TypeOK, LossInv, PlaceInv, NEW c \in Client, ClientStep(c),
         troubled \subseteq troubled'
  PROVE  Flow /\ SureKept'
<1>1. UNCHANGED <<dirs, todo>>
  BY DEF ClientStep, ClientOpen, ClientOpenFails, ClientEnd, ClientSend,
     ClientSkip, ClientSendFails, Read, loop
<1>2. \A d \in Client : d # c => cst'[d] = cst[d] /\ cmust'[d] = cmust[d] /\ cseen'[d] = cseen[d]
  BY DEF ClientStep, ClientOpen, ClientOpenFails, ClientEnd, ClientSend,
     ClientSkip, ClientSendFails, Read, TypeOK
<1>3. \A d \in Client : d # c => May(d)' = May(d) /\ Sure(d)' = Sure(d)
  BY <1>1, <1>2 DEF May, Sure, dirs
<1>4. Sends(c)' \subseteq Sends(c) /\ Sure(c)' \subseteq Sure(c)
  <2>1. CASE ClientOpen(c)
    BY <1>1, <2>1 DEF ClientOpen, Sends, May, Sure, TypeOK, dirs
  <2>2. CASE ClientOpenFails(c) \/ ClientEnd(c)
    BY <2>2 DEF ClientOpenFails, ClientEnd, Sends, May, Sure, TypeOK
  <2>3. ASSUME NEW f \in Files, Read(c, f)
        PROVE  Sends(c)' \subseteq Sends(c) /\ Sure(c)' \subseteq Sure(c)
    BY <1>1, <2>3 DEF Read, Sends, May, Sure, TypeOK, dirs
  <2>. QED
    BY <2>1, <2>2, <2>3 DEF ClientStep, ClientSend, ClientSkip, ClientSendFails
<1>5. \A f \in Called' : f \in Called \/ f \in Sends(c)
  <2>1. UNCHANGED calls \/ \E f \in Files : ClientSend(c, f)
    BY DEF ClientStep, ClientOpen, ClientOpenFails, ClientEnd, ClientSkip, ClientSendFails
  <2>2. ASSUME NEW f \in Files, ClientSend(c, f)
        PROVE  f \in Sends(c) /\ \E k : calls' = calls \cup {k} /\ k.file = f
    BY <2>2, SentCall DEF ClientSend, Read, Sends
  <2>. QED
    BY <2>1, <2>2 DEF Called
<1>6. \A d \in Client : Sends(d)' \subseteq Sends(d) /\ Sure(d)' \subseteq Sure(d)
  BY <1>1, <1>3, <1>4 DEF Sends, dirs
<1>7. SureKept'
  BY <1>1, <1>6 DEF PlaceInv, SureKept, dirs
<1>. QED
  BY <1>1, <1>5, <1>6, <1>7, StayFrame DEF Flow, dirs

LEMMA FlowHandle ==
  ASSUME TypeOK, LossInv, PlaceInv, NEW k \in calls, Handle(k) \/ CallBreaks(k),
         troubled \subseteq troubled'
  PROVE  Flow /\ SureKept'
<1>0. k \in Call /\ k.file \in Called
  BY DEF TypeOK, Called
<1>1. UNCHANGED <<org, afp, todo, clients>>
  BY DEF Handle, CallBreaks, McAdd, McAddFails, McStore, McStoreFails, McReturn,
     dirs, loop
<1>2. \A c \in Client : Sends(c)' = Sends(c) /\ Sure(c)' = Sure(c)
  BY <1>1, SendsFrame
<1>3. Called' \subseteq Called
  <2>1. CASE McAddFails(k) \/ McStoreFails(k) \/ McReturn(k)
    BY <2>1 DEF McAddFails, McStoreFails, McReturn, End, Called
  <2>2. ASSUME NEW l, Become(k, l), l.file = k.file
        PROVE  Called' \subseteq Called
    BY <2>2, <1>0 DEF Become, Called
  <2>3. CASE McAdd(k)
    BY <1>0, <2>2, <2>3, CallType DEF McAdd
  <2>4. CASE CallBreaks(k)
    BY <1>0, <2>2, <2>4, CallType DEF CallBreaks
  <2>5. CASE McStore(k)
    <3>1. [k EXCEPT !.ph = "add", !.i = @ + 1].file = k.file
      BY <1>0 DEF Call
    <3>. QED
      BY <2>2, <2>5, <3>1 DEF McStore
  <2>. QED
    BY <2>1, <2>3, <2>4, <2>5 DEF Handle
<1>4. SureKept'
  BY <1>1, <1>2 DEF PlaceInv, SureKept
<1>5. CASE McStore(k)
  <2>1. dst' = [dst EXCEPT ![Main] = @ \cup {k.file}]
    BY <1>5 DEF McStore
  <2>2. /\ dst'[Main] = dst[Main] \cup {k.file}
        /\ \A g \in Group : dst'[g] = dst[g]
    BY <2>1, HostTypes DEF TypeOK
  <2>3. Stored(k.file)
    BY <1>0, <1>1, <1>2, <1>3, <2>2 DEF Stored, Served
  <2>4. ASSUME NEW f \in Files, f # k.file
        PROVE  Stay(f)
    BY <1>1, <1>2, <1>3, <2>2, <2>4 DEF Stay, Served, Holder
  <2>. QED
    BY <1>4, <2>3, <2>4 DEF Flow
<1>6. CASE ~ McStore(k)
  <2>1. \A h \in Holder : dst'[h] = dst[h]
    <3>1. k.i <= Len(SubList) => SubList[k.i] \in Sub
      BY <1>0, CallType, HostTypes
    <3>. QED
      BY <1>6, <3>1, HostTypes DEF Handle, CallBreaks, McAdd, McAddFails, McStoreFails,
         McReturn, dirs, TypeOK, Holder
  <2>. QED
    BY <1>1, <1>2, <1>3, <1>4, <2>1, StayFrame DEF Flow
<1>. QED
  BY <1>5, <1>6

LEMMA FlowRestart ==
  ASSUME TypeOK, LossInv, PlaceInv, MainRestart \/ \E g \in Group : GroupRestart(g)
  PROVE  Flow /\ SureKept'
<1>1. UNCHANGED dirs /\ troubled \subseteq troubled'
  BY DEF MainRestart, GroupRestart, Trouble
<1>2. CASE MainRestart
  <2>1. todo' = {} /\ todo \subseteq troubled' /\ UNCHANGED clients /\ calls' = {}
    BY <1>2 DEF MainRestart, Trouble
  <2>2. \A c \in Client : Sends(c)' = Sends(c) /\ Sure(c)' = Sure(c)
    BY <1>1, <2>1, SendsFrame DEF dirs
  <2>. QED
    BY <1>1, <2>1, <2>2 DEF Flow, Stay, Served, Called, PlaceInv, SureKept, dirs
<1>3. ASSUME NEW g \in Group, GroupRestart(g)
      PROVE  Flow /\ SureKept'
  <2> DEFINE mine == {c \in Client : c[1] = g}
             cut(k) == [k EXCEPT !.heard = @ /\ k.client \notin mine]
  <2>1. \A k \in calls : cut(k).file = k.file
    BY DEF TypeOK, Call
  <2>2. calls' = {cut(k) : k \in calls}
    BY <1>3 DEF GroupRestart
  <2> HIDE DEF cut
  <2>3. Called' = Called
    BY <2>1, <2>2 DEF Called
  <2>4. \A c \in Client : /\ cst'[c] \in {"done", cst[c]} \/ cst'[c] = cst[c]
                          /\ cmust'[c] = cmust[c] /\ cseen'[c] = cseen[c]
    BY <1>3 DEF GroupRestart
  <2>5. \A c \in Client : Sends(c)' \subseteq Sends(c) /\ Sure(c)' \subseteq Sure(c)
    BY <1>1, <2>4 DEF Sends, May, Sure, TypeOK, dirs
  <2>6. UNCHANGED todo
    BY <1>3 DEF GroupRestart, loop
  <2>7. SureKept'
    BY <1>1, <2>5 DEF SureKept, PlaceInv, dirs
  <2>. QED
    BY <1>1, <2>3, <2>5, <2>6, <2>7, StayFrame DEF Flow, dirs
<1>. QED
  BY <1>2, <1>3

\* Every step moves the files of a clean record one way at most.
LEMMA FlowNext ==
  ASSUME TypeOK, LossInv, PlaceInv, [Next]_vars
  PROVE  Flow /\ SureKept'
<1>1. troubled \subseteq troubled'
  BY TroubleGrows
<1>2. ASSUME UNCHANGED <<org, afp, dst, todo, clients, calls>>
      PROVE  Flow /\ SureKept'
  BY <1>1, <1>2, SendsFrame, StayFrame DEF Flow, Called, PlaceInv, SureKept
<1>3. CASE Prep \/ PrepStale \/ PrepFails
  BY <1>2, <1>3 DEF Prep, PrepStale, PrepFails, List, loop, dirs
<1>4. CASE Visit
  BY <1>1, <1>4, FlowVisit
<1>5. CASE \E c \in Client : ClientStep(c)
  BY <1>1, <1>5, FlowClient
<1>6. CASE \E k \in calls : Handle(k) \/ CallBreaks(k)
  BY <1>1, <1>6, FlowHandle
<1>7. ASSUME NEW h \in Host, Ingest(h)
      PROVE  Flow /\ SureKept'
  <2>1. UNCHANGED <<org, todo, clients, calls>>
    BY <1>7 DEF Ingest, loop
  <2>2. /\ \A g \in Host : Served(g)' = Served(g)
        /\ \A g \in Host : afp'[g] \cap dst'[g] \subseteq afp[g] \cap dst[g]
    BY <1>7 DEF Ingest, Served, TypeOK
  <2>3. \A c \in Client : Sends(c)' = Sends(c) /\ Sure(c)' = Sure(c)
    BY <2>1, SendsFrame
  <2>. QED
    BY <1>1, <2>1, <2>2, <2>3 DEF Flow, Stay, Called, PlaceInv, SureKept, Host, Holder
<1>8. CASE MainRestart \/ \E g \in Group : GroupRestart(g)
  BY <1>8, FlowRestart
<1>9. CASE UNCHANGED vars
  BY <1>2, <1>9 DEF vars, dirs, loop
<1>. QED
  BY <1>3, <1>4, <1>5, <1>6, <1>7, <1>8, <1>9 DEF Next

-----------------------------------------------------------------------------
(* One place at a time *)

\* Every file starts at its home, and nothing is on its way.
LEMMA PlaceInit == Init => PlaceInv
<1> SUFFICES ASSUME Init PROVE PlaceInv
  OBVIOUS
<1>1. PICK home \in [Files -> Holder] :
        afp = [h \in Host |-> {f \in Files : home[f] = IF h \in Sub THEN Main ELSE h}]
  BY DEF Init
<1>2. \A h \in Holder : Served(h) = {f \in Files : home[f] = h} /\ dst[h] = {}
  BY <1>1, HostTypes DEF Init, Served, Host, Holder
<1>3. \A c \in Client : Sends(c) = {} /\ Sure(c) = {}
  BY DEF Init, Sends, May, Sure
<1>4. Called = {} /\ todo = {}
  BY DEF Init, Called
<1>. QED
  BY <1>2, <1>3, <1>4, HostTypes DEF PlaceInv, SureKept, OnePlace

\* Whatever way an unmarked file goes, it is in one place afterwards.
LEMMA OnePlaceNext ==
  ASSUME NEW f, OnePlace(f),
         \/ Stay(f) \/ Stored(f) \/ TakenDown(f)
         \/ \E g \in Group : TakenUp(f, g) \/ PutDown(f, g)
  PROVE  OnePlace(f)'
<1>0. /\ Main \in Holder /\ Holder = {Main} \cup Group /\ Main \notin Group
      /\ \A c \in Client : c[1] \in Group
  BY HostTypes DEF Holder
<1>1. CASE Stay(f)
  BY <1>0, <1>1 DEF OnePlace, Stay
<1>2. ASSUME NEW g \in Group, TakenUp(f, g)
      PROVE  OnePlace(f)'
  <2>1. \A h \in Holder : f \notin Served(h)'
    BY <1>0, <1>2 DEF OnePlace, TakenUp, Served
  <2>. QED
    BY <1>0, <1>2, <2>1 DEF OnePlace, TakenUp, Served
<1>3. CASE Stored(f)
  BY <1>0, <1>3 DEF OnePlace, Stored, Served
<1>4. CASE TakenDown(f)
  BY <1>0, <1>4 DEF OnePlace, TakenDown, Served
<1>5. ASSUME NEW g \in Group, PutDown(f, g)
      PROVE  OnePlace(f)'
  BY <1>0, <1>5 DEF OnePlace, PutDown, Served
<1>. QED
  BY <1>1, <1>2, <1>3, <1>4, <1>5

\* PlaceInv is inductive, beside the types and what NothingLost rests on.
LEMMA PlaceNext ==
  ASSUME TypeOK, LossInv, PlaceInv, [Next]_vars
  PROVE  PlaceInv'
<1>1. troubled \subseteq troubled' /\ Flow /\ SureKept'
  BY TroubleGrows, FlowNext
<1>2. ASSUME NEW f \in Files \ troubled'
      PROVE  OnePlace(f)'
  <2>1. OnePlace(f)
    BY <1>1, <1>2 DEF PlaceInv
  <2>2. \/ Stay(f) \/ Stored(f) \/ TakenDown(f)
        \/ \E g \in Group : TakenUp(f, g) \/ PutDown(f, g)
    BY <1>1, <1>2 DEF Flow
  <2>. QED
    BY <2>1, <2>2, OnePlaceNext
<1>. QED
  BY <1>1, <1>2 DEF PlaceInv

-----------------------------------------------------------------------------
(* The exchange implements Placement *)

\* A file is where it is served, "down" while the loop has it to send, and
\* "up" otherwise.
PlaceValues ==
  \A f \in Files :
    /\ f \in troubled => Place(f) = "lost"
    /\ f \notin troubled =>
         /\ \A h \in Holder : f \in Served(h) => Place(f) = h
         /\ (\A h \in Holder : f \notin Served(h)) =>
              Place(f) = IF f \in todo THEN "down" ELSE "up"

\* With the invariants "twice" and "nowhere" are no places.
LEMMA PlaceValue == PlaceInv /\ NoSilentLoss => PlaceValues
<1> SUFFICES ASSUME PlaceInv, NoSilentLoss, NEW f \in Files
             PROVE  /\ f \in troubled => Place(f) = "lost"
                    /\ f \notin troubled =>
                         /\ \A h \in Holder : f \in Served(h) => Place(f) = h
                         /\ (\A h \in Holder : f \notin Served(h)) =>
                              Place(f) = IF f \in todo THEN "down" ELSE "up"
  BY DEF PlaceValues
<1> DEFINE at == {h \in Holder : f \in Served(h)}
<1>1. CASE f \in troubled
  BY <1>1 DEF Place
<1>2. ASSUME f \notin troubled, NEW h \in Holder, f \in Served(h)
      PROVE  Place(f) = h
  <2>1. at = {h}
    BY <1>2 DEF PlaceInv, OnePlace
  <2>2. Cardinality(at) = 1
    BY <2>1, FS_Singleton
  <2>3. (CHOOSE g \in at : TRUE) = h
    BY <2>1
  <2>. QED
    BY <1>2, <2>2, <2>3 DEF Place
<1>3. ASSUME f \notin troubled, \A h \in Holder : f \notin Served(h)
      PROVE  Place(f) = IF f \in todo THEN "down" ELSE "up"
  <2>1. at = {} /\ Cardinality(at) = 0
    BY <1>3, FS_EmptySet
  <2>2. GoingUp(f) <=> f \notin todo
    <3>1. GoingUp(f) \/ f \in todo
      BY <1>3 DEF NoSilentLoss, GoingDown
    <3>2. \A c \in Client : Sure(c) \subseteq May(c)
      BY DEF Sure, May
    <3>3. f \in todo => ~ GoingUp(f)
      BY <1>3, <3>2 DEF PlaceInv, OnePlace, GoingUp, Sends
    <3>. QED
      BY <3>1, <3>3
  <2>. QED
    BY <1>3, <2>1, <2>2 DEF Place, GoingDown
<1>. QED
  BY <1>1, <1>2, <1>3

\* The same in the state after a step.
LEMMA PlaceValueAfter == (PlaceInv /\ NoSilentLoss => PlaceValues)'
BY PlaceValue, PTL

\* The place of a file after a step.
LEMMA PlaceStep ==
  ASSUME PlaceInv, NoSilentLoss, PlaceInv', NoSilentLoss',
         troubled \subseteq troubled', NEW f \in Files
  PROVE  /\ f \in troubled' => Place(f)' = "lost"
         /\ f \notin troubled' =>
              /\ Stay(f) => Place(f)' = Place(f)
              /\ \A g \in Group : TakenUp(f, g) => Place(f) = g /\ Place(f)' = "up"
              /\ Stored(f) => \/ Place(f)' = Place(f)
                              \/ Place(f) = "up" /\ Place(f)' = Main
              /\ TakenDown(f) => Place(f) = Main /\ Place(f)' = "down"
              /\ \A g \in Group : PutDown(f, g) => Place(f) = "down" /\ Place(f)' = g
<1>0. Main \in Holder /\ Holder = {Main} \cup Group /\ Main \notin Group
  BY HostTypes DEF Holder
<1>v. PlaceValues /\ PlaceValues'
  BY PlaceValue, PlaceValueAfter
<1>1. f \in troubled' => Place(f)' = "lost"
  BY <1>v DEF PlaceValues
<1> SUFFICES ASSUME f \notin troubled'
             PROVE  /\ Stay(f) => Place(f)' = Place(f)
                    /\ \A g \in Group : TakenUp(f, g) => Place(f) = g /\ Place(f)' = "up"
                    /\ Stored(f) => \/ Place(f)' = Place(f)
                                    \/ Place(f) = "up" /\ Place(f)' = Main
                    /\ TakenDown(f) => Place(f) = Main /\ Place(f)' = "down"
                    /\ \A g \in Group : PutDown(f, g) => Place(f) = "down" /\ Place(f)' = g
  BY <1>1
<1>2. OnePlace(f) /\ OnePlace(f)' /\ f \notin troubled
  BY DEF PlaceInv
<1>3. /\ \A h \in Holder : f \in Served(h) => Place(f) = h
      /\ (\A h \in Holder : f \notin Served(h)) => Place(f) = IF f \in todo THEN "down" ELSE "up"
  BY <1>2, <1>v DEF PlaceValues
<1>4. /\ \A h \in Holder : f \in Served(h)' => Place(f)' = h
      /\ (\A h \in Holder : f \notin Served(h)')
           => Place(f)' = IF f \in todo' THEN "down" ELSE "up"
  BY <1>2, <1>v DEF PlaceValues
<1>5. Stay(f) => Place(f)' = Place(f)
  BY <1>3, <1>4 DEF Stay
<1>6. ASSUME NEW g \in Group, TakenUp(f, g)
      PROVE  Place(f) = g /\ Place(f)' = "up"
  <2>1. \A h \in Holder : f \notin Served(h)'
    BY <1>0, <1>2, <1>6 DEF OnePlace, TakenUp, Served
  <2>. QED
    BY <1>0, <1>3, <1>4, <1>6, <2>1 DEF TakenUp, Served
<1>7. ASSUME Stored(f)
      PROVE  Place(f)' = Place(f) \/ (Place(f) = "up" /\ Place(f)' = Main)
  <2>1. Place(f)' = Main
    BY <1>0, <1>4, <1>7 DEF Stored
  <2>2. \A g \in Group : f \notin Served(g)
    BY <1>2, <1>7 DEF OnePlace, Stored
  <2>3. f \notin todo
    BY <1>2, <1>7 DEF OnePlace, Stored
  <2>. QED
    BY <1>0, <1>3, <2>1, <2>2, <2>3
<1>8. ASSUME TakenDown(f)
      PROVE  Place(f) = Main /\ Place(f)' = "down"
  <2>1. \A h \in Holder : f \notin Served(h)'
    BY <1>0, <1>2, <1>8 DEF OnePlace, TakenDown, Served
  <2>. QED
    BY <1>0, <1>3, <1>4, <1>8, <2>1 DEF TakenDown, Served
<1>9. ASSUME NEW g \in Group, PutDown(f, g)
      PROVE  Place(f) = "down" /\ Place(f)' = g
  BY <1>0, <1>2, <1>3, <1>4, <1>9 DEF OnePlace, PutDown, Served
<1>. QED
  BY <1>5, <1>6, <1>7, <1>8, <1>9

LEMMA PlacedInit == Init => Placed!Init
<1> SUFFICES ASSUME Init PROVE Placed!Init
  OBVIOUS
<1>1. PICK home \in [Files -> Holder] :
        afp = [h \in Host |-> {f \in Files : home[f] = IF h \in Sub THEN Main ELSE h}]
  BY DEF Init
<1>2. \A f \in Files : home[f] \in Holder /\ f \in Served(home[f])
  BY <1>1, HostTypes DEF Served, Host, Holder
<1>3. PlaceInv /\ NoSilentLoss /\ troubled = {}
  BY PlaceInit, LossInit DEF LossInv, Init
<1>4. \A f \in Files : Place(f) = home[f]
  BY <1>2, <1>3, PlaceValue DEF PlaceValues
<1>. QED
  BY <1>2, <1>4 DEF Placed!Init, Holder

LEMMA PlacedNext ==
  ASSUME TypeOK, LossInv, PlaceInv, LossInv', PlaceInv', [Next]_vars
  PROVE  Placed!Next
<1> DEFINE to == [f \in Files |-> Place(f)]
<1>0. NoSilentLoss /\ NoSilentLoss'
  BY DEF LossInv
<1>1. troubled \subseteq troubled' /\ Flow
  BY TroubleGrows, FlowNext
<1>2. to' \in [Files -> Placed!Place]
  <2>1. PlaceValues'
    BY <1>0, PlaceValueAfter
  <2>. QED
    BY <2>1 DEF PlaceValues, Placed!Place, Holder
<1>3. \A f \in Files : to[f] = Place(f) /\ to'[f] = Place(f)'
  OBVIOUS
<1>4. ASSUME NEW way \in Placed!Way,
             \A f \in Files \ troubled' : \/ Place(f)' = Place(f)
                                          \/ <<Place(f), Place(f)'>> = way
      PROVE  Placed!Next
  <2>1. \A f \in Files : \/ to'[f] \in {to[f], "lost"}
                         \/ <<to[f], to'[f]>> = way
    BY <1>0, <1>1, <1>3, <1>4, PlaceStep
  <2>. QED
    BY <1>2, <1>4, <2>1 DEF Placed!Next, Placed!Move
<1>5. /\ \A g \in Group : <<g, "up">> \in Placed!Way /\ <<"down", g>> \in Placed!Way
      /\ <<"up", Main>> \in Placed!Way /\ <<Main, "down">> \in Placed!Way
  BY DEF Placed!Way
<1>6. CASE \E g \in Group : \A f \in Files \ troubled' : Stay(f) \/ TakenUp(f, g)
  <2>1. PICK g \in Group : \A f \in Files \ troubled' : Stay(f) \/ TakenUp(f, g)
    BY <1>6
  <2>2. \A f \in Files \ troubled' : \/ Place(f)' = Place(f)
                                     \/ <<Place(f), Place(f)'>> = <<g, "up">>
    BY <1>0, <1>1, <2>1, PlaceStep
  <2>. QED
    BY <1>4, <1>5, <2>2
<1>7. CASE \A f \in Files \ troubled' : Stay(f) \/ Stored(f)
  <2>1. \A f \in Files \ troubled' : \/ Place(f)' = Place(f)
                                     \/ <<Place(f), Place(f)'>> = <<"up", Main>>
    BY <1>0, <1>1, <1>7, PlaceStep
  <2>. QED
    BY <1>4, <1>5, <2>1
<1>8. CASE \A f \in Files \ troubled' : Stay(f) \/ TakenDown(f)
  <2>1. \A f \in Files \ troubled' : \/ Place(f)' = Place(f)
                                     \/ <<Place(f), Place(f)'>> = <<Main, "down">>
    BY <1>0, <1>1, <1>8, PlaceStep
  <2>. QED
    BY <1>4, <1>5, <2>1
<1>9. CASE \E g \in Group : \A f \in Files \ troubled' : Stay(f) \/ PutDown(f, g)
  <2>1. PICK g \in Group : \A f \in Files \ troubled' : Stay(f) \/ PutDown(f, g)
    BY <1>9
  <2>2. \A f \in Files \ troubled' : \/ Place(f)' = Place(f)
                                     \/ <<Place(f), Place(f)'>> = <<"down", g>>
    BY <1>0, <1>1, <2>1, PlaceStep
  <2>. QED
    BY <1>4, <1>5, <2>2
<1>. QED
  BY <1>1, <1>6, <1>7, <1>8, <1>9 DEF Flow

\* As long as there is a sub cache the exchange implements Placement: a file
\* no error was met about is kept by one holder or on its way, and goes only
\* the ways of Preconf, movCntFile and the two Afpmove handlers.
THEOREM PlacementImplemented ==
  ASSUME SubList # <<>>
  PROVE  Spec => ImplementsPlacement
<1>1. Init => TypeOK /\ LossInv /\ PlaceInv
  BY TypeInit, LossInit, PlaceInit
<1>2. TypeOK /\ LossInv /\ PlaceInv /\ [Next]_vars => (TypeOK /\ LossInv /\ PlaceInv)'
  BY TypeNext, LossNext, PlaceNext
<1>3. Init => Placed!Init
  BY PlacedInit
<1>4. /\ TypeOK /\ LossInv /\ PlaceInv /\ (TypeOK /\ LossInv /\ PlaceInv)' /\ [Next]_vars
      => Placed!Next
  BY PlacedNext
<1>. QED
  BY <1>1, <1>2, <1>3, <1>4, PTL DEF Spec, ImplementsPlacement, Placed!Spec

-----------------------------------------------------------------------------
(* The sub caches mirror the main cache *)

\* The file being deleted from the sub caches is at the group by then.
DelServed == pc = "del" /\ cur \notin troubled => cur \in Served(Visited)

\* The sub caches before i no longer have it.
DelForgot ==
  pc = "del" /\ cur \notin troubled => \A j \in 1..(i - 1) : cur \notin Served(SubList[j])

\* A handler has given its file to the sub caches it is past.
HandlerCovers ==
  \A k \in calls : \A j \in 1..Len(SubList) :
    j < k.i \/ (j = k.i /\ k.ph = "store") => k.file \in Served(SubList[j]) \cup troubled

CurReset == pc # "del" => cur = NoFile

MirrorInv == /\ DelServed /\ DelForgot /\ HandlerCovers /\ CurReset
             /\ SubsCover /\ SubsForget

\* The steps that leave the sub caches and the file being deleted alone.  What
\* the main cache no longer serves, the loop has still to send; an invocation
\* that ends has given its file to all, or the file is marked.
LEMMA MirrorFrame ==
  ASSUME TypeOK, TypeOK', MirrorInv, UNCHANGED <<cur, i>>, pc' = "del" <=> pc = "del",
         pc = "del" => turn' = turn /\ \A g \in Group : Served(g) \subseteq Served(g)',
         troubled \subseteq troubled', todo \subseteq todo' \cup troubled',
         \A f \in Files \ troubled' :
           /\ \A s \in Sub : f \in Served(s)' <=> f \in Served(s)
           /\ f \in Served(Main)' => f \in Served(Main)
           /\ f \in Served(Main) => f \in Served(Main)' \cup todo',
         \A k \in calls : \/ k.file \in troubled'
                          \/ k.i > Len(SubList) /\ k.file \in Served(Main)'
                          \/ \E l \in calls' : l.file = k.file /\ l.i = k.i,
         \A l \in calls' : \/ l.i = 1 /\ l.ph = "add"
                           \/ \E k \in calls : l.file = k.file /\ l.i = k.i /\ l.ph = k.ph
  PROVE  MirrorInv'
<1>0. /\ \A k \in calls : k.file \in Files /\ k.i \in Nat
      /\ \A k \in calls' : k.file \in Files /\ k.i \in Nat
      /\ DOMAIN SubList = 1..Len(SubList) /\ Len(SubList) \in Nat
      /\ \A j \in 1..Len(SubList) : SubList[j] \in Sub
      /\ Served(Main)' \subseteq Files
  <2>1. \A k \in Call : k.file \in Files /\ k.i \in Nat
    BY HostTypes DEF Call
  <2>2. calls \subseteq Call /\ calls' \subseteq Call
    BY DEF TypeOK
  <2>3. Served(Main)' \subseteq Files
    BY HostTypes DEF TypeOK, Served
  <2>. QED
    BY <2>1, <2>2, <2>3, HostTypes, FingerMoveAssumption
<1>1. DelServed'
  <2>1. pc = "del" => Visited \in Group /\ Visited' = Visited
    BY VisitedType DEF TypeOK, Visited
  <2>. QED
    BY <2>1 DEF MirrorInv, DelServed
<1>2. DelForgot'
  <2> SUFFICES ASSUME pc = "del", cur \notin troubled', NEW j \in 1..(i - 1)
               PROVE  cur \notin Served(SubList[j])'
    BY DEF DelForgot
  <2>1. cur \in Files /\ cur \notin Served(SubList[j]) /\ j \in 1..Len(SubList)
    BY <1>0 DEF MirrorInv, DelForgot, TypeOK
  <2>. QED
    BY <1>0, <2>1
<1>3. HandlerCovers'
  <2> SUFFICES ASSUME NEW l \in calls', NEW j \in 1..Len(SubList), l.file \notin troubled',
                      j < l.i \/ (j = l.i /\ l.ph = "store")
               PROVE  l.file \in Served(SubList[j])'
    BY DEF HandlerCovers
  <2>1. PICK k \in calls : l.file = k.file /\ l.i = k.i /\ l.ph = k.ph
    BY <1>0
  <2>. QED
    BY <1>0, <2>1 DEF MirrorInv, HandlerCovers
<1>4. CurReset'
  BY DEF MirrorInv, CurReset
<1>5. SubsCover'
  <2> SUFFICES ASSUME NEW f \in Served(Main)', f \notin troubled', NEW j \in 1..Len(SubList),
                      f \notin Served(SubList[j])'
               PROVE  \E l \in calls' : l.file = f /\ l.i <= j
    BY <1>0 DEF SubsCover
  <2>1. f \in Files /\ f \in Served(Main) /\ f \notin Served(SubList[j])
    BY <1>0
  <2>2. PICK k \in calls : k.file = f /\ k.i <= j
    BY <1>0, <2>1 DEF MirrorInv, SubsCover
  <2>. QED
    BY <1>0, <2>2
<1>6. SubsForget'
  <2> SUFFICES ASSUME NEW f \in Files, f \notin troubled', f \notin Served(Main)',
                      f \notin Called', f \notin todo', f # cur,
                      NEW j \in 1..Len(SubList)
               PROVE  f \notin Served(SubList[j])'
    BY <1>0 DEF SubsForget
  <2>1. f \notin Served(Main) /\ f \notin todo /\ f \notin troubled
    OBVIOUS
  <2>2. f \notin Called
    BY DEF Called
  <2>3. f \notin Served(SubList[j])
    BY <1>0, <2>1, <2>2 DEF MirrorInv, SubsForget
  <2>. QED
    BY <1>0, <2>3
<1>. QED
  BY <1>1, <1>2, <1>3, <1>4, <1>5, <1>6 DEF MirrorInv

\* The same for the steps of the loop that keep every invocation.
LEMMA MirrorLoop ==
  ASSUME TypeOK, TypeOK', MirrorInv, UNCHANGED <<cur, i, calls>>, pc # "del", pc' # "del",
         troubled \subseteq troubled', todo \subseteq todo' \cup troubled',
         \A s \in Sub : Served(s)' = Served(s),
         \A f \in Files \ troubled' :
           /\ f \in Served(Main)' => f \in Served(Main)
           /\ f \in Served(Main) => f \in Served(Main)' \cup todo'
  PROVE  MirrorInv'
BY MirrorFrame

LEMMA MirrorPut ==
  ASSUME TypeOK, MirrorInv, NEW f \in Files, PutOk(f) \/ PutFails(f)
  PROVE  MirrorInv'
<1>1. /\ UNCHANGED <<afp, calls, turn>> /\ todo' = todo \ {f} /\ cur' = f /\ i' = 1
      /\ pc = "move" /\ pc' = "del" /\ troubled \subseteq troubled'
      /\ \/ dst' = [dst EXCEPT ![Visited] = @ \cup {f}]
         \/ dst' = dst /\ f \in troubled'
      /\ Visited \in Group
  BY VisitedType DEF PutOk, PutFails, Put, TypeOK, Trouble
<1>2. \A h \in Host \ {Visited} : Served(h)' = Served(h)
  BY <1>1 DEF TypeOK, Served
<1>3. f \in dst'[Visited] \/ f \in troubled'
  <2>1. CASE dst' = [dst EXCEPT ![Visited] = @ \cup {f}]
    <3>1. Visited \in Host /\ dst \in [Host -> SUBSET Files]
      BY <1>1, HostTypes DEF TypeOK
    <3>. QED
      BY <2>1, <3>1
  <2>. QED
    BY <1>1, <2>1
<1>4. Served(Main)' = Served(Main) /\ \A j \in 1..Len(SubList) : Served(SubList[j])' = Served(SubList[j])
  BY <1>1, <1>2, HostTypes
<1>5. DelServed' /\ DelForgot' /\ CurReset'
  <2>1. Visited' = Visited
    BY <1>1 DEF Visited
  <2>. QED
    BY <1>1, <1>3, <2>1 DEF DelServed, DelForgot, CurReset, Served
<1>6. HandlerCovers'
  BY <1>1, <1>4 DEF MirrorInv, HandlerCovers
<1>7. DOMAIN SubList = 1..Len(SubList)
  BY FingerMoveAssumption
<1>8. SubsCover'
  BY <1>1, <1>4, <1>7 DEF MirrorInv, SubsCover
<1>9. SubsForget'
  <2>1. cur = NoFile /\ cur \notin Files
    BY <1>1, FingerMoveAssumption DEF MirrorInv, CurReset
  <2>2. Called' = Called
    BY <1>1 DEF Called
  <2>. QED
    BY <1>1, <1>4, <1>7, <2>1, <2>2 DEF MirrorInv, SubsForget
<1>. QED
  BY <1>5, <1>6, <1>8, <1>9 DEF MirrorInv

\* The file leaves one sub cache: it is at the group, so that the main cache
\* does not serve it and no handler adds it.
LEMMA MirrorDel ==
  ASSUME TypeOK, PlaceInv, MirrorInv, DelOk \/ DelMissing \/ DelFails
  PROVE  MirrorInv'
<1>1. /\ UNCHANGED <<dst, calls, turn, todo, cur>> /\ i' = i + 1 /\ pc = "del" /\ pc' = "del"
      /\ i \in 1..Len(SubList) /\ SubList[i] \in Sub /\ cur \in Files
      /\ troubled \subseteq troubled' /\ Visited \in Group
  BY HostTypes, VisitedType
  DEF DelOk, DelMissing, DelFails, DelAfps, TypeOK, Trouble
<1>s. PICK sub \in Sub : sub = SubList[i]
  BY <1>1
<1>2. /\ \A h \in Host \ {sub} : afp'[h] = afp[h]
      /\ afp'[sub] = afp[sub] \/ afp'[sub] = afp[sub] \ {cur}
      /\ cur \in troubled' \/ (cur \notin afp'[sub] /\ cur \notin dst[sub])
  BY <1>1, <1>s, HostTypes DEF DelOk, DelMissing, DelFails, TypeOK, Trouble
<1>3. /\ \A h \in Holder : Served(h)' = Served(h)
      /\ \A s \in Sub : Served(s) \ {cur} \subseteq Served(s)' /\ Served(s)' \subseteq Served(s)
      /\ cur \in troubled' \/ cur \notin Served(sub)'
  <2>1. \A h \in Holder : afp'[h] = afp[h]
    <3>1. \A h \in Holder : h \in Host \ {sub}
      BY HostTypes DEF Host
    <3>. QED
      BY <1>2, <3>1
  <2>2. \A s \in Sub : afp[s] \ {cur} \subseteq afp'[s] /\ afp'[s] \subseteq afp[s]
    BY <1>2, HostTypes
  <2>. QED
    BY <1>1, <1>2, <2>1, <2>2 DEF Served
<1>4. cur \in troubled' \/ (cur \in Served(Visited) /\ cur \notin Called /\ cur \notin Served(Main))
  <2>1. cur \notin troubled' => cur \in Served(Visited) /\ OnePlace(cur)
    BY <1>1 DEF MirrorInv, DelServed, PlaceInv
  <2>. QED
    BY <1>1, <2>1, HostTypes DEF OnePlace
<1>5. /\ DOMAIN SubList = 1..Len(SubList) /\ Len(SubList) \in Nat
      /\ \A j \in 1..Len(SubList) : SubList[j] \in Sub
  BY HostTypes, FingerMoveAssumption
<1>6. DelServed'
  <2>1. Visited' = Visited
    BY <1>1 DEF Visited
  <2>. QED
    BY <1>1, <1>3, <2>1, HostTypes DEF MirrorInv, DelServed
<1>7. DelForgot'
  <2> SUFFICES ASSUME cur \notin troubled', NEW j \in 1..i
               PROVE  cur \notin Served(SubList[j])'
    BY <1>1 DEF DelForgot
  <2>1. CASE j = i
    BY <1>s, <1>3, <2>1
  <2>2. CASE j < i
    <3>1. j \in 1..(i - 1) /\ j \in 1..Len(SubList)
      BY <1>1, <1>5, <2>2
    <3>2. cur \notin Served(SubList[j]) /\ SubList[j] \in Sub
      BY <1>1, <1>5, <3>1 DEF MirrorInv, DelForgot
    <3>. QED
      BY <1>3, <3>2
  <2>. QED
    BY <1>1, <2>1, <2>2
<1>8. HandlerCovers'
  <2> SUFFICES ASSUME NEW k \in calls, NEW j \in 1..Len(SubList),
                      j < k.i \/ (j = k.i /\ k.ph = "store"), k.file \notin troubled'
               PROVE  k.file \in Served(SubList[j])'
    BY <1>1 DEF HandlerCovers
  <2>1. k.file \in Served(SubList[j])
    BY <1>1 DEF MirrorInv, HandlerCovers
  <2>2. k.file # cur
    BY <1>4 DEF Called
  <2>. QED
    BY <1>3, <1>5, <2>1, <2>2
<1>9. CurReset'
  BY <1>1 DEF CurReset
<1>10. SubsCover'
  <2> SUFFICES ASSUME NEW f \in Served(Main), f \notin troubled', NEW j \in 1..Len(SubList)
               PROVE  f \in Served(SubList[j])' \/ \E k \in calls : k.file = f /\ k.i <= j
    BY <1>1, <1>3, <1>5, HostTypes DEF SubsCover
  <2>1. f \in Served(SubList[j]) \/ \E k \in calls : k.file = f /\ k.i <= j
    BY <1>1, <1>5 DEF MirrorInv, SubsCover
  <2>. QED
    BY <1>3, <1>4, <1>5, <2>1
<1>11. SubsForget'
  <2>1. Called' = Called /\ Served(Main)' = Served(Main)
    BY <1>1, <1>3, HostTypes DEF Called
  <2>. QED
    BY <1>1, <1>3, <1>5, <2>1 DEF MirrorInv, SubsForget
<1>. QED
  BY <1>6, <1>7, <1>8, <1>9, <1>10, <1>11 DEF MirrorInv

\* The loop is done with the file: no sub cache has it.
LEMMA MirrorDelEnd ==
  ASSUME TypeOK, MirrorInv, DelEnd
  PROVE  MirrorInv'
<1>1. /\ UNCHANGED <<dirs, calls, todo, troubled>> /\ pc = "del" /\ pc' = "move"
      /\ cur' = NoFile /\ i = Len(SubList) + 1
  BY HostTypes DEF DelEnd, TypeOK
<1>2. \A h : Served(h)' = Served(h)
  BY <1>1 DEF Served, dirs
<1>3. Called' = Called /\ DOMAIN SubList = 1..Len(SubList) /\ Len(SubList) \in Nat
  BY <1>1, HostTypes, FingerMoveAssumption DEF Called
<1>4. DelServed' /\ DelForgot' /\ CurReset'
  BY <1>1 DEF DelServed, DelForgot, CurReset
<1>5. HandlerCovers' /\ SubsCover'
  BY <1>1, <1>2 DEF MirrorInv, HandlerCovers, SubsCover
<1>6. SubsForget'
  <2>1. cur \notin troubled => \A j \in 1..Len(SubList) : cur \notin Served(SubList[j])
    BY <1>1, <1>3 DEF MirrorInv, DelForgot
  <2>. QED
    BY <1>1, <1>2, <1>3, <2>1 DEF MirrorInv, SubsForget
<1>. QED
  BY <1>4, <1>5, <1>6 DEF MirrorInv

LEMMA MirrorVisit ==
  ASSUME TypeOK, TypeOK', LossInv, PlaceInv, MirrorInv, Visit, troubled \subseteq troubled'
  PROVE  MirrorInv'
<1>0. \A s \in Sub : s \in Host /\ s # Main /\ s \notin Group
  BY HostTypes
<1>1. ASSUME NEW g \in Group, NEW top, Preconf(g, top)
      PROVE  /\ \A s \in Sub : Served(s)' = Served(s)
             /\ Served(Main)' = Served(Main) /\ calls' = calls
  <2>1. \A h \in Host : h # g => afp'[h] = afp[h] /\ dst'[h] = dst[h]
    BY <1>1 DEF Preconf, Take, TypeOK
  <2>. QED
    BY <1>0, <1>1, <2>1, HostTypes DEF Preconf, Served
<1>2. CASE PreconfOk \/ PreconfStale \/ PreconfLost \/ PreconfMoveFails
  <2>1. /\ pc = "preconf" /\ pc' \in {"mov", "preconf"} /\ UNCHANGED <<todo, cur, i>>
        /\ Visited \in Group
    BY <1>2, VisitedType DEF PreconfOk, PreconfStale, PreconfLost, PreconfMoveFails
  <2>2. \/ \E top : Preconf(Visited, top)
        \/ UNCHANGED <<dirs, calls>>
    BY <1>2 DEF PreconfOk, PreconfStale, PreconfLost, PreconfMoveFails
  <2>3. /\ \A s \in Sub : Served(s)' = Served(s)
        /\ Served(Main)' = Served(Main) /\ calls' = calls
    BY <1>1, <2>1, <2>2 DEF Served, dirs
  <2>. QED
    BY <2>1, <2>3, MirrorLoop
<1>3. CASE PreconfRefused \/ MoveEnd \/ RoundEnd
  BY <1>3, MirrorLoop DEF PreconfRefused, MoveEnd, RoundEnd, dirs, Served
<1>4. CASE MovCnt
  <2> DEFINE down == movCntFile(afp[Main], bot, lineCount, result)
  <2>1. /\ afp' = [afp EXCEPT ![Main] = @ \ down] /\ org' = [org EXCEPT ![Main] = down]
        /\ UNCHANGED <<dst, calls, cur, i>> /\ todo' = org'[Main] /\ pc = "mov" /\ pc' = "move"
    BY <1>4 DEF MovCnt, Take
  <2> HIDE DEF down
  <2>2. afp'[Main] = afp[Main] \ down /\ todo' = down /\ todo = {}
    BY <2>1, HostTypes DEF TypeOK, LossInv
  <2>3. \A s \in Sub : afp'[s] = afp[s]
    BY <1>0, <2>1 DEF TypeOK
  <2>. QED
    BY <2>1, <2>2, <2>3, MirrorLoop DEF Served
<1>5. CASE MovCntFails
  <2>1. UNCHANGED <<afp, dst, calls, cur, i>> /\ pc = "mov" /\ pc' = "move" /\ todo = {}
    BY <1>5 DEF MovCntFails, LossInv
  <2>. QED
    BY <2>1, MirrorLoop DEF Served
<1>6. CASE OpenOrgFails \/ \E f \in Files : ReadFails(f)
  <2>1. /\ UNCHANGED <<dirs, calls, cur, i, pc>> /\ pc = "move"
        /\ todo \subseteq todo' \cup troubled'
    BY <1>6 DEF OpenOrgFails, ReadFails, Trouble
  <2>. QED
    BY <2>1, MirrorLoop DEF Served, dirs
<1>7. CASE DelOk \/ DelMissing \/ DelFails
  BY <1>7, MirrorDel
<1>8. CASE \E f \in Files : PutOk(f) \/ PutFails(f)
  BY <1>8, MirrorPut
<1>9. CASE DelEnd
  BY <1>9, MirrorDelEnd
<1>. QED
  BY <1>2, <1>3, <1>4, <1>5, <1>6, <1>7, <1>8, <1>9 DEF Visit

\* A client calls or goes on; the loop and the directories are untouched.
LEMMA MirrorClient ==
  ASSUME TypeOK, TypeOK', MirrorInv, NEW c \in Client, ClientStep(c),
         troubled \subseteq troubled'
  PROVE  MirrorInv'
<1>1. UNCHANGED <<dirs, loop>>
  BY DEF ClientStep, ClientOpen, ClientOpenFails, ClientEnd, ClientSend,
     ClientSkip, ClientSendFails, Read
<1>2. UNCHANGED calls \/ \E k : calls' = calls \cup {k} /\ k.i = 1 /\ k.ph = "add"
  <2>1. UNCHANGED calls \/ \E f \in Files : ClientSend(c, f)
    BY DEF ClientStep, ClientOpen, ClientOpenFails, ClientEnd, ClientSkip, ClientSendFails
  <2>2. ASSUME NEW f \in Files, ClientSend(c, f)
        PROVE  \E k : calls' = calls \cup {k} /\ k.i = 1 /\ k.ph = "add"
    <3> DEFINE k == [client |-> c, file |-> f, i |-> 1, ph |-> "add", heard |-> TRUE]
    <3>1. k.i = 1 /\ k.ph = "add"
      OBVIOUS
    <3>2. calls' = calls \cup {k}
      BY <2>2 DEF ClientSend
    <3> HIDE DEF k
    <3>. QED
      BY <3>1, <3>2
  <2>. QED
    BY <2>1, <2>2
<1>3. \A k \in calls : k \in calls'
  BY <1>2
<1>4. \A l \in calls' : (l.i = 1 /\ l.ph = "add") \/ l \in calls
  BY <1>2
<1>. QED
  BY <1>1, <1>3, <1>4, MirrorFrame DEF dirs, loop, Served

\* A handler writes its file to a sub cache.
LEMMA MirrorAdd ==
  ASSUME TypeOK, TypeOK', PlaceInv, MirrorInv, NEW k \in calls, McAdd(k)
  PROVE  MirrorInv'
<1>0. /\ k \in Call /\ k.file \in Called /\ k.file \in Files /\ k.ph = "add"
      /\ k.i \in 1..Len(SubList)
  <2>1. k \in Call /\ k.file \in Called /\ k.ph = "add" /\ k.i <= Len(SubList)
    BY DEF TypeOK, Called, McAdd
  <2>. QED
    BY <2>1, CallType
<1>1. PICK sub \in Sub : sub = SubList[k.i]
  BY <1>0, HostTypes
<1>2. PICK l : /\ calls' = (calls \ {k}) \cup {l} /\ l.file = k.file /\ l.i = k.i
               /\ l.ph = "store"
  BY <1>0, CallType DEF McAdd, Become
<1>3. /\ UNCHANGED <<afp, loop, troubled>>
      /\ \A h \in Host \ {sub} : dst'[h] = dst[h]
      /\ dst'[sub] = dst[sub] \cup {k.file}
  BY <1>1, HostTypes DEF McAdd, TypeOK
<1>4. /\ \A h \in Holder : Served(h)' = Served(h)
      /\ \A s \in Sub : Served(s) \subseteq Served(s)' /\ Served(s)' \subseteq Served(s) \cup {k.file}
      /\ k.file \in Served(sub)'
  <2>1. \A h \in Holder : h \in Host \ {sub}
    BY HostTypes DEF Host
  <2>. QED
    BY <1>3, <2>1, HostTypes DEF Served
<1>5. Called' = Called
  BY <1>0, <1>2 DEF Called
<1>6. /\ DOMAIN SubList = 1..Len(SubList) /\ Len(SubList) \in Nat
      /\ \A j \in 1..Len(SubList) : SubList[j] \in Sub
  BY HostTypes, FingerMoveAssumption
<1>7. pc = "del" /\ cur \notin troubled => cur \in Files /\ cur \in Served(Visited) /\ cur \notin Called
  <2>1. pc = "del" => cur \in Files /\ Visited \in Group
    BY VisitedType DEF TypeOK
  <2>. QED
    BY <2>1 DEF MirrorInv, DelServed, PlaceInv, OnePlace
<1>8. DelServed'
  <2>1. pc = "del" => Visited \in Group /\ Visited' = Visited
    BY <1>3, VisitedType DEF TypeOK, Visited, loop
  <2>. QED
    BY <1>3, <1>4, <2>1, HostTypes DEF MirrorInv, DelServed, loop
<1>9. DelForgot'
  <2> SUFFICES ASSUME pc = "del", cur \notin troubled, NEW j \in 1..(i - 1)
               PROVE  cur \notin Served(SubList[j])'
    BY <1>3 DEF DelForgot, loop
  <2>1. i \in 0..(Len(SubList) + 1)
    BY DEF TypeOK
  <2>2. j \in 1..Len(SubList)
    BY <1>6, <2>1
  <2>3. cur \notin Served(SubList[j]) /\ cur # k.file
    BY <1>0, <1>7 DEF MirrorInv, DelForgot
  <2>. QED
    BY <1>4, <1>6, <2>2, <2>3
<1>10. HandlerCovers'
  <2> SUFFICES ASSUME NEW m \in calls', NEW j \in 1..Len(SubList),
                      j < m.i \/ (j = m.i /\ m.ph = "store"), m.file \notin troubled
               PROVE  m.file \in Served(SubList[j])'
    BY <1>3 DEF HandlerCovers
  <2>1. CASE m \in calls
    BY <1>4, <1>6, <2>1 DEF MirrorInv, HandlerCovers
  <2>2. CASE m = l
    <3>1. CASE j = k.i
      BY <1>1, <1>2, <1>4, <2>2, <3>1
    <3>2. CASE j < k.i
      BY <1>2, <1>4, <1>6, <2>2, <3>2 DEF MirrorInv, HandlerCovers
    <3>. QED
      BY <1>0, <1>2, <1>6, <2>2, <3>1, <3>2
  <2>. QED
    BY <1>2, <2>1, <2>2
<1>11. CurReset'
  BY <1>3 DEF MirrorInv, CurReset, loop
<1>12. SubsCover'
  <2> SUFFICES ASSUME NEW f \in Served(Main), f \notin troubled, NEW j \in 1..Len(SubList)
               PROVE  f \in Served(SubList[j])' \/ \E m \in calls' : m.file = f /\ m.i <= j
    BY <1>3, <1>4, <1>6, HostTypes DEF SubsCover
  <2>1. f \in Served(SubList[j]) \/ \E m \in calls : m.file = f /\ m.i <= j
    BY <1>6 DEF MirrorInv, SubsCover
  <2>. QED
    BY <1>2, <1>4, <1>6, <2>1
<1>13. SubsForget'
  <2> SUFFICES ASSUME NEW f \in Files, f \notin troubled, f \notin Served(Main),
                      f \notin Called, f \notin todo, f # cur,
                      NEW j \in 1..Len(SubList)
               PROVE  f \notin Served(SubList[j])'
    BY <1>3, <1>4, <1>5, <1>6, HostTypes DEF SubsForget, loop
  <2>. QED
    BY <1>0, <1>4, <1>6 DEF MirrorInv, SubsForget
<1>. QED
  BY <1>8, <1>9, <1>10, <1>11, <1>12, <1>13 DEF MirrorInv

\* A handler writes the main cache's copy: the sub caches up to this one have
\* the file, and the invocation goes on to the next.
LEMMA MirrorStore ==
  ASSUME TypeOK, TypeOK', PlaceInv, MirrorInv, NEW k \in calls, McStore(k)
  PROVE  MirrorInv'
<1>0. /\ k \in Call /\ k.file \in Called /\ k.file \in Files /\ k.ph = "store"
      /\ k.i \in 1..Len(SubList)
  <2>1. k \in Call /\ k.file \in Called /\ k.ph = "store" /\ k.i <= Len(SubList)
    BY DEF TypeOK, Called, McStore
  <2>. QED
    BY <2>1, CallType
<1>2. PICK l : /\ calls' = (calls \ {k}) \cup {l} /\ l.file = k.file /\ l.i = k.i + 1
               /\ l.ph = "add"
  <2> DEFINE l == [k EXCEPT !.ph = "add", !.i = @ + 1]
  <2>1. l.file = k.file /\ l.i = k.i + 1 /\ l.ph = "add"
    BY <1>0 DEF Call
  <2>2. calls' = (calls \ {k}) \cup {l}
    BY DEF McStore, Become
  <2> HIDE DEF l
  <2>. QED
    BY <2>1, <2>2
<1>3. /\ UNCHANGED <<afp, loop, troubled>>
      /\ \A h \in Host \ {Main} : dst'[h] = dst[h]
      /\ dst'[Main] = dst[Main] \cup {k.file}
  BY HostTypes DEF McStore, TypeOK
<1>4. /\ \A g \in Group : Served(g)' = Served(g)
      /\ \A s \in Sub : Served(s)' = Served(s)
      /\ Served(Main)' = Served(Main) \cup {k.file}
  <2>1. \A h \in Group \cup Sub : h \in Host \ {Main}
    BY HostTypes
  <2>. QED
    BY <1>3, <2>1 DEF Served
<1>5. Called' = Called
  BY <1>0, <1>2 DEF Called
<1>6. /\ DOMAIN SubList = 1..Len(SubList) /\ Len(SubList) \in Nat
      /\ \A j \in 1..Len(SubList) : SubList[j] \in Sub
  BY HostTypes, FingerMoveAssumption
<1>8. DelServed'
  <2>1. pc = "del" => Visited \in Group /\ Visited' = Visited
    BY <1>3, VisitedType DEF TypeOK, Visited, loop
  <2>. QED
    BY <1>3, <1>4, <2>1 DEF MirrorInv, DelServed, loop
<1>9. DelForgot'
  <2> SUFFICES ASSUME pc = "del", cur \notin troubled, NEW j \in 1..(i - 1)
               PROVE  cur \notin Served(SubList[j])'
    BY <1>3 DEF DelForgot, loop
  <2>1. i \in 0..(Len(SubList) + 1)
    BY DEF TypeOK
  <2>2. j \in 1..Len(SubList)
    BY <1>6, <2>1
  <2>. QED
    BY <1>4, <1>6, <2>2 DEF MirrorInv, DelForgot
<1>10. HandlerCovers'
  <2> SUFFICES ASSUME NEW m \in calls', NEW j \in 1..Len(SubList),
                      j < m.i \/ (j = m.i /\ m.ph = "store"), m.file \notin troubled
               PROVE  m.file \in Served(SubList[j])
    BY <1>3, <1>4, <1>6 DEF HandlerCovers
  <2>1. CASE m \in calls
    BY <2>1 DEF MirrorInv, HandlerCovers
  <2>2. CASE m = l
    <3>1. j < k.i \/ j = k.i
      BY <1>0, <1>2, <1>6, <2>2
    <3>. QED
      BY <1>0, <1>2, <2>2, <3>1 DEF MirrorInv, HandlerCovers
  <2>. QED
    BY <1>2, <2>1, <2>2
<1>11. CurReset'
  BY <1>3 DEF MirrorInv, CurReset, loop
<1>12. SubsCover'
  <2> SUFFICES ASSUME NEW f \in Served(Main) \cup {k.file}, f \notin troubled,
                      NEW j \in 1..Len(SubList)
               PROVE  f \in Served(SubList[j]) \/ \E m \in calls' : m.file = f /\ m.i <= j
    BY <1>3, <1>4, <1>6 DEF SubsCover
  <2>1. CASE f = k.file
    <3>1. CASE j <= k.i
      <4>1. j < k.i \/ j = k.i
        BY <1>0, <1>6, <3>1
      <4>. QED
        BY <1>0, <2>1, <4>1 DEF MirrorInv, HandlerCovers
    <3>2. CASE j > k.i
      <4>1. l.i <= j /\ l \in calls'
        BY <1>0, <1>2, <1>6, <3>2
      <4>. QED
        BY <1>2, <2>1, <4>1
    <3>. QED
      BY <1>0, <1>6, <3>1, <3>2
  <2>2. CASE f # k.file
    <3>1. f \in Served(SubList[j]) \/ \E m \in calls : m.file = f /\ m.i <= j
      BY <1>6, <2>2 DEF MirrorInv, SubsCover
    <3>. QED
      BY <1>2, <2>2, <3>1
  <2>. QED
    BY <2>1, <2>2
<1>13. SubsForget'
  <2> SUFFICES ASSUME NEW f \in Files, f \notin troubled, f \notin Served(Main),
                      f \notin Called, f \notin todo, f # cur,
                      NEW j \in 1..Len(SubList)
               PROVE  f \notin Served(SubList[j])
    BY <1>3, <1>4, <1>5, <1>6 DEF SubsForget, loop
  <2>. QED
    BY <1>6 DEF MirrorInv, SubsForget
<1>. QED
  BY <1>8, <1>9, <1>10, <1>11, <1>12, <1>13 DEF MirrorInv

\* An invocation that ends has been past every sub cache or is marked.
LEMMA MirrorHandle ==
  ASSUME TypeOK, TypeOK', LossInv, PlaceInv, MirrorInv, SubList # <<>>,
         NEW k \in calls, Handle(k) \/ CallBreaks(k), troubled \subseteq troubled'
  PROVE  MirrorInv'
<1>0. k \in Call /\ k.file \in Files
  BY CallType DEF TypeOK
<1>n. Len(SubList) > 0 /\ Len(SubList) \in Nat /\ Sub # {}
  BY FingerMoveAssumption
<1>1. CASE McAdd(k)
  BY <1>1, MirrorAdd
<1>2. CASE McStore(k)
  BY <1>2, MirrorStore
<1>3. CASE McAddFails(k) \/ McStoreFails(k)
  <2>1. /\ UNCHANGED <<afp, loop>> /\ k.file \in troubled' /\ calls' = calls \ {k}
        /\ \/ dst' = dst
           \/ \E s \in Sub : dst' = [dst EXCEPT ![s] = @ \cup {k.file}]
    <3>1. k.i <= Len(SubList) => SubList[k.i] \in Sub
      BY <1>0, CallType, HostTypes
    <3>. QED
      BY <1>3, <3>1 DEF McAddFails, McStoreFails, End, Trouble, dirs
  <2>2. \E s \in Sub : \A h \in Host : /\ h # s => dst'[h] = dst[h]
                                       /\ dst'[h] \in {dst[h], dst[h] \cup {k.file}}
    <3>1. CASE dst' = dst
      BY <1>n, <3>1
    <3>2. ASSUME NEW s \in Sub, dst' = [dst EXCEPT ![s] = @ \cup {k.file}]
          PROVE  \A h \in Host : /\ h # s => dst'[h] = dst[h]
                                 /\ dst'[h] \in {dst[h], dst[h] \cup {k.file}}
      BY <3>2 DEF TypeOK
    <3>. QED
      BY <1>n, <2>1, <3>1, <3>2
  <2>3. \A f \in Files \ troubled' : \A h \in Host : f \in Served(h)' <=> f \in Served(h)
    BY <2>1, <2>2 DEF Served
  <2>4. \A h \in Holder : Served(h)' = Served(h)
    BY <2>1, <2>2, HostTypes DEF Served, Host
  <2>. QED
    BY <2>1, <2>3, <2>4, HostTypes, MirrorFrame DEF loop
<1>4. CASE McReturn(k)
  <2>1. /\ UNCHANGED <<dirs, loop>> /\ calls' = calls \ {k} /\ k.i > Len(SubList)
    BY <1>4 DEF McReturn, End
  <2>2. k.file \in Served(Main) \cup troubled
    <3>1. k.i \in Nat
      BY <1>0, <1>n DEF Call
    <3>2. k.i > 1
      BY <1>n, <2>1, <3>1
    <3>. QED
      BY <3>2 DEF LossInv
  <2>. QED
    BY <2>1, <2>2, MirrorFrame DEF loop, dirs, Served
<1>5. CASE CallBreaks(k)
  <2>1. PICK l : /\ calls' = (calls \ {k}) \cup {l}
                 /\ l.file = k.file /\ l.i = k.i /\ l.ph = k.ph
    <3> DEFINE l == [k EXCEPT !.heard = FALSE]
    <3>1. l.file = k.file /\ l.i = k.i /\ l.ph = k.ph
      BY <1>0 DEF Call
    <3>2. calls' = (calls \ {k}) \cup {l}
      BY <1>5 DEF CallBreaks, Become
    <3> HIDE DEF l
    <3>. QED
      BY <3>1, <3>2
  <2>2. UNCHANGED <<dirs, loop>> /\ k.file \in troubled'
    BY <1>5 DEF CallBreaks, Trouble
  <2>. QED
    BY <2>1, <2>2, MirrorFrame DEF loop, dirs, Served
<1>. QED
  BY <1>1, <1>2, <1>3, <1>4, <1>5 DEF Handle

LEMMA MirrorRestart ==
  ASSUME TypeOK, TypeOK', MirrorInv, MainRestart \/ \E g \in Group : GroupRestart(g),
         troubled \subseteq troubled'
  PROVE  MirrorInv'
<1>1. CASE MainRestart
  <2>1. /\ UNCHANGED dirs /\ pc' = "sleep" /\ cur' = NoFile /\ calls' = {}
        /\ todo \cup ({cur} \ {NoFile}) \cup Called \subseteq troubled'
    BY <1>1 DEF MainRestart, Trouble
  <2>2. \A h : Served(h)' = Served(h)
    BY <2>1 DEF Served, dirs
  <2>3. DelServed' /\ DelForgot' /\ HandlerCovers' /\ CurReset'
    BY <2>1 DEF DelServed, DelForgot, HandlerCovers, CurReset
  <2>4. SubsCover'
    BY <2>1, <2>2 DEF MirrorInv, SubsCover, Called
  <2>5. SubsForget'
    <3>1. NoFile \notin Files
      BY FingerMoveAssumption
    <3>. QED
      BY <2>1, <2>2, <3>1 DEF MirrorInv, SubsForget
  <2>. QED
    BY <2>3, <2>4, <2>5 DEF MirrorInv
<1>2. ASSUME NEW g \in Group, GroupRestart(g)
      PROVE  MirrorInv'
  <2> DEFINE mine == {c \in Client : c[1] = g}
             cut(k) == [k EXCEPT !.heard = @ /\ k.client \notin mine]
  <2>1. \A k \in calls : cut(k).file = k.file /\ cut(k).i = k.i /\ cut(k).ph = k.ph
    BY DEF TypeOK, Call
  <2>2. calls' = {cut(k) : k \in calls} /\ UNCHANGED <<dirs, loop>>
    BY <1>2 DEF GroupRestart
  <2> HIDE DEF cut
  <2>. QED
    BY <2>1, <2>2, MirrorFrame DEF loop, dirs, Served
<1>. QED
  BY <1>1, <1>2

\* MirrorInv is inductive, beside the invariants above.
LEMMA MirrorNext ==
  ASSUME TypeOK, TypeOK', LossInv, PlaceInv, MirrorInv, SubList # <<>>, [Next]_vars
  PROVE  MirrorInv'
<1>1. troubled \subseteq troubled'
  BY TroubleGrows
<1>2. CASE Prep \/ PrepStale \/ PrepFails
  <2>1. UNCHANGED <<dirs, todo, calls, troubled, cur, i>> /\ pc = "sleep" /\ pc' # "del"
    BY <1>2 DEF Prep, PrepStale, PrepFails, List, loop
  <2>. QED
    BY <2>1, MirrorLoop DEF dirs, Served
<1>3. CASE Visit
  BY <1>1, <1>3, MirrorVisit
<1>4. CASE \E c \in Client : ClientStep(c)
  BY <1>1, <1>4, MirrorClient
<1>5. CASE \E k \in calls : Handle(k) \/ CallBreaks(k)
  BY <1>1, <1>5, MirrorHandle
<1>6. ASSUME NEW h \in Host, Ingest(h)
      PROVE  MirrorInv'
  <2>1. UNCHANGED <<loop, calls, troubled>>
    BY <1>6 DEF Ingest
  <2>2. \A g \in Host : Served(g)' = Served(g)
    BY <1>6 DEF Ingest, Served, TypeOK
  <2>. QED
    BY <2>1, <2>2, HostTypes, MirrorFrame DEF loop
<1>7. CASE MainRestart \/ \E g \in Group : GroupRestart(g)
  BY <1>1, <1>7, MirrorRestart
<1>8. CASE UNCHANGED vars
  BY <1>8, MirrorFrame DEF vars, dirs, loop, Served
<1>. QED
  BY <1>2, <1>3, <1>4, <1>5, <1>6, <1>7, <1>8 DEF Next

\* The sub caches start as copies of the main cache.
LEMMA MirrorInit == Init => MirrorInv
<1> SUFFICES ASSUME Init PROVE MirrorInv
  OBVIOUS
<1>1. PICK home \in [Files -> Holder] :
        afp = [h \in Host |-> {f \in Files : home[f] = IF h \in Sub THEN Main ELSE h}]
  BY DEF Init
<1>2. \A h \in Host : dst[h] = {}
  BY DEF Init
<1>3. \A s \in Sub : Served(s) = Served(Main)
  BY <1>1, <1>2, HostTypes DEF Served
<1>4. DOMAIN SubList = 1..Len(SubList) /\ \A j \in 1..Len(SubList) : SubList[j] \in Sub
  BY HostTypes, FingerMoveAssumption
<1>. QED
  BY <1>3, <1>4 DEF Init, MirrorInv, DelServed, DelForgot, HandlerCovers, CurReset,
     SubsCover, SubsForget

\* Both mirrors, whether there are sub caches or not.
LEMMA Mirrored == Spec => [](SubsCover /\ SubsForget)
<1>1. CASE SubList # <<>>
  <2>1. Init => TypeOK /\ LossInv /\ PlaceInv /\ MirrorInv
    BY TypeInit, LossInit, PlaceInit, MirrorInit
  <2>2. TypeOK /\ LossInv /\ PlaceInv /\ MirrorInv /\ [Next]_vars
        => (TypeOK /\ LossInv /\ PlaceInv /\ MirrorInv)'
    BY <1>1, TypeNext, LossNext, PlaceNext, MirrorNext
  <2>3. MirrorInv => SubsCover /\ SubsForget
    BY DEF MirrorInv
  <2>. QED
    BY <2>1, <2>2, <2>3, PTL DEF Spec
<1>2. CASE SubList = <<>>
  <2>1. SubsCover /\ SubsForget
    BY <1>2 DEF SubsCover, SubsForget
  <2>. QED
    BY <2>1, PTL
<1>. QED
  BY <1>1, <1>2

\* What the main cache serves, every sub cache has or is about to be given by
\* the handler that adds the file, through failures, crashes and restarts.
THEOREM SubsFollow == Spec => []SubsCover
BY Mirrored, PTL

\* What the main cache has given away, no sub cache keeps, whatever other
\* exchanges the deletions run beside.
THEOREM SubsLetGo == Spec => []SubsForget
BY Mirrored, PTL

-----------------------------------------------------------------------------
(* A fair swap *)

\* movCntFile takes as many files as its window has lines at most.
LEMMA WindowBound ==
  ASSUME NEW dir, NEW list, NEW n \in Nat, DOMAIN list = 1..n,
         NEW pos \in Nat, NEW cnt \in Nat
  PROVE  /\ IsFiniteSet(movCntFile(dir, list, pos, cnt))
         /\ Cardinality(movCntFile(dir, list, pos, cnt)) <= cnt
         /\ Cardinality(movCntFile(dir, list, pos, cnt)) \in Nat
<1> DEFINE W == Window(list, pos, cnt)
           lines == [l \in W |-> list[l]]
           image == {list[l] : l \in W}
<1>1. IsFiniteSet((pos + 1)..(pos + cnt)) /\ Cardinality((pos + 1)..(pos + cnt)) = cnt
  BY FS_Interval
<1>2. W \subseteq (pos + 1)..(pos + cnt)
  BY DEF Window
<1>3. IsFiniteSet(W) /\ Cardinality(W) <= cnt /\ Cardinality(W) \in Nat
  BY <1>1, <1>2, FS_Subset, FS_CardinalityType
<1>4. lines \in Surjection(W, image)
  BY DEF Surjection
<1>5. IsFiniteSet(image) /\ Cardinality(image) <= Cardinality(W) /\ Cardinality(image) \in Nat
  <2> HIDE DEF W, lines, image
  <2>. QED
    BY <1>3, <1>4, FS_Surjection, FS_CardinalityType
<1>6. movCntFile(dir, list, pos, cnt) \subseteq image
  BY DEF movCntFile
<1>. QED
  <2> HIDE DEF W, lines, image
  <2>. QED
    BY <1>3, <1>5, <1>6, FS_Subset, FS_CardinalityType

\* botAfpsFile.tmp is a list of lines.
BotList == \E n \in Nat : DOMAIN bot = 1..n

LEMMA ColdListType ==
  ASSUME NEW dir \in SUBSET Files, NEW hits \in [Song -> 0..MaxHits],
         NEW b \in ColdLists(dir, hits, CacheLimit)
  PROVE  \E n \in Nat : DOMAIN b.list = 1..n
<1>1. PICK u \in SetToSeqs(Idle(dir, hits)), q \in Ranked(Ids(dir), hits, 1) :
        b = ColdList(u, q, CacheLimit)
  BY DEF ColdLists
<1>2. PICK n \in Nat : DOMAIN q = 1..n
  BY RankedType
<1>3. PICK k \in Nat : DOMAIN u = 1..k
  <2>1. IsFiniteSet(Idle(dir, hits))
    BY FingerMoveAssumption, FS_Subset DEF Idle
  <2>. QED
    BY <2>1, FS_CardinalityType DEF SetToSeqs
<1> DEFINE l == Least(CacheLimit, Len(u))
           m == Least(CacheLimit - l, Len(q))
           head == SubSeq(u, 1, l)
           tail == [j \in 1..m |-> Bare(q[j].id)]
<1>4. Len(q) = n /\ Len(u) = k
  BY <1>2, <1>3
<1>5. l \in Nat /\ m \in Nat
  BY <1>4, FingerMoveAssumption DEF Least
<1>6. b.list = head \o tail
  BY <1>1 DEF ColdList
<1> HIDE DEF l, m
<1>7. DOMAIN head = 1..l
  BY <1>5
<1>8. Len(head) = l /\ Len(tail) = m
  BY <1>5, <1>7
<1>9. DOMAIN (head \o tail) = 1..(l + m)
  BY <1>5, <1>8
<1>10. l + m \in Nat /\ DOMAIN b.list = 1..(l + m)
  <2> HIDE DEF head, tail
  <2>. QED
    BY <1>5, <1>6, <1>9
<1>. QED
  BY <1>10

\* While the loop sends, no more unmarked files are in ORG_DIR than the group
\* reported.
LEMMA FairNext ==
  ASSUME TypeOK, TypeOK', BotList, FairSwap, [Next]_vars
  PROVE  BotList' /\ FairSwap'
<1>0. /\ IsFiniteSet(org[Main]) /\ Main \in Holder /\ result \in Nat /\ result' \in Nat
      /\ troubled \subseteq troubled'
  <2>1. org[Main] \subseteq Files /\ Main \in Holder /\ result \in Nat /\ result' \in Nat
    BY HostTypes DEF TypeOK
  <2>. QED
    BY <2>1, TroubleGrows, FingerMoveAssumption, FS_Subset
<1>1. ASSUME UNCHANGED <<bot, result>>, org'[Main] = org[Main],
             pc' \in {"move", "del"} => pc \in {"move", "del"}
      PROVE  BotList' /\ FairSwap'
  <2>1. BotList'
    BY <1>1 DEF BotList
  <2>2. ASSUME pc' \in {"move", "del"}
        PROVE  Cardinality(org'[Main] \ troubled') <= result'
    <3> DEFINE old == org[Main] \ troubled
               new == org'[Main] \ troubled'
    <3>1. new \in SUBSET old /\ IsFiniteSet(old)
      BY <1>0, <1>1, FS_Subset
    <3>2. Cardinality(old) <= result
      BY <1>1, <2>2 DEF FairSwap
    <3>3. Cardinality(new) <= Cardinality(old) /\ IsFiniteSet(new)
      <4> HIDE DEF old, new
      <4>. QED
        BY <3>1, FS_Subset
    <3>4. Cardinality(new) \in Nat /\ Cardinality(old) \in Nat
      BY <3>1, <3>3, FS_CardinalityType
    <3>. QED
      BY <1>0, <1>1, <3>2, <3>3, <3>4
  <2>. QED
    BY <2>1, <2>2 DEF FairSwap
<1>2. ASSUME NEW dir \in SUBSET Files, List(dir)
      PROVE  BotList' /\ FairSwap'
  <2>1. PICK hits \in [Song -> 0..MaxHits] :
          \E b \in ColdLists(dir, hits, CacheLimit) : bot' = b.list
    BY <1>2 DEF List
  <2>2. BotList'
    BY <2>1, ColdListType DEF BotList
  <2>. QED
    BY <1>2, <2>2 DEF List, FairSwap
<1>3. CASE Prep
  <2>1. afp[Main] \in SUBSET Files
    BY HostTypes DEF TypeOK
  <2>. QED
    BY <1>2, <1>3, <2>1 DEF Prep
<1>4. CASE PrepStale
  BY <1>2, <1>4 DEF PrepStale
<1>5. CASE PrepFails
  BY <1>1, <1>5 DEF PrepFails, dirs, loop
<1>6. CASE PreconfOk \/ PreconfStale \/ PreconfLost \/ PreconfMoveFails
  BY <1>6 DEF PreconfOk, PreconfStale, PreconfLost, PreconfMoveFails, BotList, FairSwap, listing
<1>7. CASE MovCnt
  <2> DEFINE down == movCntFile(afp[Main], bot, lineCount, result)
  <2>1. org' = [org EXCEPT ![Main] = down] /\ UNCHANGED <<bot, result>>
    BY <1>7 DEF MovCnt, Take, listing
  <2>2. /\ IsFiniteSet(down) /\ Cardinality(down) <= result /\ Cardinality(down) \in Nat
    BY WindowBound DEF BotList, TypeOK
  <2> HIDE DEF down
  <2>3. org'[Main] = down
    BY <1>0, <2>1 DEF TypeOK
  <2>4. /\ Cardinality(down \ troubled') <= Cardinality(down)
        /\ Cardinality(down \ troubled') \in Nat
    BY <2>2, FS_Subset, FS_CardinalityType
  <2>5. Cardinality(down \ troubled') <= result'
    BY <1>0, <2>1, <2>2, <2>4
  <2>. QED
    BY <2>1, <2>3, <2>5 DEF BotList, FairSwap
<1>8. CASE MovCntFails
  <2>1. UNCHANGED <<bot, result>>
    BY <1>8 DEF MovCntFails, listing
  <2>2. org'[Main] \ troubled' = {}
    BY <1>0, <1>8 DEF MovCntFails, TypeOK, Trouble
  <2>3. Cardinality(org'[Main] \ troubled') <= result'
    BY <1>0, <2>2, FS_EmptySet
  <2>. QED
    BY <2>1, <2>3 DEF BotList, FairSwap
<1>9. CASE PreconfRefused \/ RoundEnd \/ MoveEnd
  BY <1>1, <1>9 DEF PreconfRefused, RoundEnd, MoveEnd, dirs, listing
<1>10. CASE OpenOrgFails \/ (\E f \in Files : PutOk(f) \/ PutFails(f) \/ ReadFails(f))
            \/ DelEnd \/ DelOk \/ DelMissing \/ DelFails
  BY <1>1, <1>10 DEF OpenOrgFails, PutOk, PutFails, Put, ReadFails, DelEnd, DelOk,
     DelMissing, DelFails, DelAfps, dirs, listing
<1>11. CASE \E c \in Client : ClientStep(c)
  BY <1>1, <1>11 DEF ClientStep, ClientOpen, ClientOpenFails, ClientEnd, ClientSend,
     ClientSkip, ClientSendFails, Read, dirs, listing, loop
<1>12. CASE \E k \in calls : Handle(k) \/ CallBreaks(k)
  BY <1>1, <1>12 DEF Handle, CallBreaks, McAdd, McAddFails, McStore, McStoreFails,
     McReturn, dirs, listing, loop
<1>13. CASE (\E h \in Host : Ingest(h)) \/ MainRestart \/ \E g \in Group : GroupRestart(g)
  BY <1>1, <1>13 DEF Ingest, MainRestart, GroupRestart, dirs, listing, loop
<1>14. CASE UNCHANGED vars
  BY <1>1, <1>14 DEF vars, dirs, listing, loop
<1>. QED
  BY <1>3, <1>4, <1>5, <1>6, <1>7, <1>8, <1>9, <1>10, <1>11, <1>12, <1>13, <1>14
  DEF Next, Visit

\* A group is given no more files than it reported, also when ORG_DIR still
\* holds what an earlier visit left there.
THEOREM SwapIsFair == Spec => []FairSwap
<1>1. Init => TypeOK /\ BotList /\ FairSwap
  <2>1. Init => BotList
    BY DEF Init, BotList
  <2>. QED
    BY <2>1, TypeInit DEF Init, FairSwap
<1>2. TypeOK /\ BotList /\ FairSwap /\ [Next]_vars => (TypeOK /\ BotList /\ FairSwap)'
  BY TypeNext, FairNext
<1>. QED
  BY <1>1, <1>2, PTL DEF Spec

-----------------------------------------------------------------------------
(* Without failures nothing is overtaken *)

\* A host stands in a list once.
DistinctLists ==
  /\ \A j, k \in DOMAIN GroupList : GroupList[j] = GroupList[k] => j = k
  /\ \A j, k \in DOMAIN SubList : SubList[j] = SubList[k] => j = k

Listed == ToSet(bot)
ToVisit == IF pc = "preconf" THEN turn + 1 ELSE turn + 2
InHand == todo \cup ({cur} \ {NoFile})

\* What is listed this round is not on its way up, and will not be: no group
\* that is still to be visited has it, or sends anything.
ListedApart ==
  /\ Listed \cap (Called \cup dst[Main]) = {}
  /\ \A c \in Client :
       /\ cst[c] \in {"new", "run"} => Listed \cap org[c[1]] = {}
       /\ cst[c] = "run" => Listed \cap cmust[c] = {}
  /\ \A j \in ToVisit..Len(GroupList) :
       /\ \A f \in Listed : f.dotted => f \notin Served(GroupList[j])
       /\ \A c \in Client : c[1] = GroupList[j] => cst[c] \in {"none", "done"}

\* And each sub cache uses it until the loop has it deleted there.
ListedMirrored ==
  /\ InHand \subseteq Listed /\ InHand \cap afp[Main] = {} /\ cur \notin todo
  /\ \A f \in Listed \cap (afp[Main] \cup InHand) : \A j \in DOMAIN SubList :
       (f = cur => j >= i) => f \in afp[SubList[j]] \ dst[SubList[j]]

RoundInv ==
  Timely /\ faults = 0 =>
    troubled = {} /\ (pc # "sleep" => ListedApart /\ ListedMirrored)

\* A name with an extension is listed for a file of the directory only.
LEMMA ListedNames ==
  ASSUME NEW dir \in SUBSET Files, NEW hits \in [Song -> 0..MaxHits],
         NEW b \in ColdLists(dir, hits, CacheLimit),
         NEW f \in ToSet(b.list), f.dotted
  PROVE  f \in dir
<1>1. PICK u \in SetToSeqs(Idle(dir, hits)), q \in Ranked(Ids(dir), hits, 1) :
        b = ColdList(u, q, CacheLimit)
  BY DEF ColdLists
<1>2. PICK n \in Nat : DOMAIN q = 1..n
  BY RankedType
<1>3. PICK k \in Nat : DOMAIN u = 1..k /\ \A j \in 1..k : u[j] \in dir
  <2>1. IsFiniteSet(Idle(dir, hits)) /\ Idle(dir, hits) \subseteq dir
    BY FingerMoveAssumption, FS_Subset DEF Idle
  <2>. QED
    BY <2>1, FS_CardinalityType DEF SetToSeqs
<1> DEFINE l == Least(CacheLimit, Len(u))
           m == Least(CacheLimit - l, Len(q))
           head == SubSeq(u, 1, l)
           tail == [j \in 1..m |-> Bare(q[j].id)]
<1>4. Len(q) = n /\ Len(u) = k
  BY <1>2, <1>3
<1>5. l \in Nat /\ m \in Nat /\ l <= k
  BY <1>4, FingerMoveAssumption DEF Least
<1>6. b.list = head \o tail
  BY <1>1 DEF ColdList
<1>7. \A j \in 1..m : ~tail[j].dotted
  BY DEF Bare
<1>8. DOMAIN tail = 1..m
  OBVIOUS
<1> HIDE DEF l, m
<1>9. DOMAIN head = 1..l /\ \A j \in 1..l : head[j] = u[j]
  BY <1>3, <1>5
<1>10. \A j \in 1..l : head[j] \in dir
  BY <1>3, <1>5, <1>9
<1> HIDE DEF head, tail
<1>11. Len(head) = l /\ Len(tail) = m
  BY <1>5, <1>8, <1>9
<1>12. \A j \in DOMAIN (head \o tail) :
         \/ j \in 1..l /\ (head \o tail)[j] = head[j]
         \/ j - l \in 1..m /\ (head \o tail)[j] = tail[j - l]
  BY <1>5, <1>11
<1>13. PICK j \in DOMAIN (head \o tail) : f = (head \o tail)[j]
  BY <1>6 DEF ToSet
<1>. QED
  BY <1>7, <1>10, <1>12, <1>13

\* topAfpFile writes names with the extension.
LEMMA TopDotted ==
  ASSUME NEW dir, NEW top \in Tops(dir), NEW f \in ToSet(top)
  PROVE  f.dotted
<1>1. PICK hits \in [Song -> 0..MaxHits] : top \in HotLists(dir, hits, thr, GroupLimit)
  BY DEF Tops
<1>2. PICK q : top = topAfpFile(q, thr, GroupLimit)
  BY <1>1 DEF HotLists
<1>. QED
  BY <1>2 DEF topAfpFile, ToSet, Dotted

\* The steps in which no call fails and no process dies.
CalmStep ==
  \/ Prep \/ PreconfOk \/ PreconfRefused \/ MovCnt \/ (\E f \in Files : PutOk(f))
  \/ DelOk \/ DelMissing \/ DelEnd \/ MoveEnd \/ RoundEnd
  \/ \E c \in Client : \/ ClientOpen(c) \/ ClientEnd(c)
                       \/ \E f \in Files : ClientSend(c, f) \/ ClientSkip(c, f)
  \/ \E k \in calls : McAdd(k) \/ McStore(k) \/ McReturn(k)
  \/ \E h \in Host : Ingest(h)
  \/ UNCHANGED vars

LEMMA CalmSteps ==
  ASSUME TypeOK, [Next]_vars, faults' = 0
  PROVE  faults = 0 /\ CalmStep
<1>1. faults \in Nat /\ ~Fault
  BY DEF TypeOK, Fault
<1>2. CalmStep
  BY <1>1 DEF Next, Visit, ClientStep, Handle, CalmStep, PrepStale, PrepFails,
     PreconfStale, PreconfLost, PreconfMoveFails, MovCntFails, OpenOrgFails, PutFails,
     ReadFails, DelFails, ClientOpenFails, ClientSendFails, McAddFails, McStoreFails,
     CallBreaks, MainRestart, GroupRestart
<1>3. CalmStep => UNCHANGED faults
  <2>1. \A k \in calls : McAdd(k) \/ McStore(k) \/ McReturn(k) => UNCHANGED faults
    BY DEF McAdd, McStore, McReturn
  <2>2. \A c \in Client, f \in Files :
          ClientOpen(c) \/ ClientEnd(c) \/ ClientSend(c, f) \/ ClientSkip(c, f)
            => UNCHANGED faults
    BY DEF ClientOpen, ClientEnd, ClientSend, ClientSkip, NoFault
  <2>3. \A c \in Client : ClientOpen(c) \/ ClientEnd(c) => UNCHANGED faults
    BY DEF ClientOpen, ClientEnd
  <2>4. Prep \/ PreconfOk \/ PreconfRefused \/ MovCnt \/ (\E f \in Files : PutOk(f))
          => UNCHANGED faults
    BY DEF Prep, PreconfOk, PreconfRefused, MovCnt, PutOk, NoFault
  <2>5. DelOk \/ DelMissing \/ DelEnd \/ MoveEnd \/ RoundEnd => UNCHANGED faults
    BY DEF DelOk, DelMissing, DelEnd, MoveEnd, RoundEnd, NoFault
  <2>6. \A h \in Host : Ingest(h) => UNCHANGED faults
    BY DEF Ingest
  <2>. QED
    BY <2>1, <2>2, <2>3, <2>4, <2>5, <2>6 DEF CalmStep, vars
<1>. QED
  BY <1>2, <1>3

\* The day starts with everything settled: the lists are fresh, and what is
\* listed is at the main cache and, by MirrorInv, in use at each sub cache.
LEMMA CalmPrep ==
  ASSUME TypeOK, LossInv, PlaceInv, MirrorInv, troubled = {}, Timely, Prep
  PROVE  troubled' = {} /\ ListedApart' /\ ListedMirrored'
<1>1. /\ UNCHANGED <<dirs, todo, cur, i, clients, calls, troubled>>
      /\ turn' = 0 /\ pc' = "preconf" /\ pc = "sleep" /\ Settled
  BY DEF Prep, List
<1>2. PICK hits \in [Song -> 0..MaxHits] : \E b \in ColdLists(afp[Main], hits, CacheLimit) : bot' = b.list
  BY DEF Prep, List
<1>3. /\ calls = {} /\ Called' = {} /\ todo = {} /\ cur = NoFile /\ InHand' = {}
      /\ \A h \in Host : dst[h] = {}
      /\ \A c \in Client : cst[c] \in {"none", "done"}
      /\ afp[Main] \subseteq Files
  BY <1>1, HostTypes DEF Settled, LossInv, MirrorInv, CurReset, InHand, Called, TypeOK
<1>4. \A f \in Listed' : f.dotted => f \in afp[Main]
  BY <1>2, <1>3, ListedNames DEF Listed
<1>5. ASSUME NEW f \in afp[Main], NEW j \in 1..Len(GroupList)
      PROVE  f \notin Served(GroupList[j])
  <2>1. GroupList[j] \in Group
    BY HostTypes
  <2>2. OnePlace(f) /\ f \in Served(Main)
    BY <1>3 DEF PlaceInv, Served
  <2>. QED
    BY <2>1, <2>2, HostTypes DEF OnePlace
<1>6. ListedApart'
  <2>1. ToVisit' = 1 /\ \A j \in 1..Len(GroupList) : Served(GroupList[j])' = Served(GroupList[j])
    BY <1>1 DEF ToVisit, Served, dirs
  <2>. QED
    BY <1>1, <1>3, <1>4, <1>5, <2>1, HostTypes DEF ListedApart, clients, dirs
<1>7. ASSUME NEW f \in afp[Main], NEW j \in DOMAIN SubList
      PROVE  f \in afp[SubList[j]] \ dst[SubList[j]]
  <2>1. SubList[j] \in Host
    BY HostTypes, FingerMoveAssumption
  <2>2. f \in Served(SubList[j])
    BY <1>3 DEF MirrorInv, SubsCover, Served
  <2>. QED
    BY <1>3, <2>1, <2>2 DEF Served
<1>. QED
  BY <1>1, <1>3, <1>6, <1>7 DEF ListedMirrored, dirs

\* The group takes what it has, which is not listed, and nothing of it is left
\* to be sent from before.
LEMMA CalmPreconf ==
  ASSUME TypeOK, LossInv, troubled = {}, ListedApart, ListedMirrored, DistinctLists, PreconfOk
  PROVE  troubled' = {} /\ ListedApart' /\ ListedMirrored'
<1>1. PICK top \in Tops(afp[Visited]) : Preconf(Visited, top)
  BY DEF PreconfOk
<1>2. /\ pc = "preconf" /\ pc' = "mov" /\ turn < Len(GroupList)
      /\ UNCHANGED <<turn, bot, todo, cur, i>>
  BY DEF PreconfOk, listing
<1> DEFINE g == Visited
           up == movAfpFile(afp[g], top)
<1>3. /\ afp' = [afp EXCEPT ![g] = @ \ up] /\ org' = [org EXCEPT ![g] = up]
      /\ UNCHANGED <<dst, cmust, cseen, calls>>
      /\ troubled' = troubled \cup UNION {org[g] \cap Sure(c) : c \in {g} \X (1..MaxClients)}
  BY <1>1 DEF Preconf, Take, Trouble
<1>4. g \in Group /\ turn + 1 \in 1..Len(GroupList) /\ turn \in Nat /\ Len(GroupList) \in Nat
      /\ g = GroupList[turn + 1]
  BY <1>2, VisitedType, HostTypes DEF TypeOK, Visited
<1>5. PICK n \in 1..MaxClients : /\ <<g, n>> \in Client /\ cst[<<g, n>>] = "none"
                                 /\ cst' = [cst EXCEPT ![<<g, n>>] = "new"]
  BY <1>1, <1>4, StartType DEF Preconf
<1>6. /\ up \subseteq afp[g] /\ \A f \in up : f.dotted
  BY <1>1, TopDotted DEF movAfpFile
<1> HIDE DEF g, up
<1>7. /\ ToVisit = turn + 1 /\ ToVisit' = turn + 2 /\ turn + 1 \in ToVisit..Len(GroupList)
      /\ \A j \in (ToVisit)'..Len(GroupList) : j \in ToVisit..Len(GroupList) /\ j # turn + 1
  BY <1>2, <1>4 DEF ToVisit
<1>8. /\ \A c \in Client : c[1] = g => cst[c] \in {"none", "done"}
      /\ \A f \in Listed : f.dotted => f \notin afp[g]
  BY <1>4, <1>7 DEF ListedApart, Served
<1>9. troubled' = {}
  <2>1. \A c \in {g} \X (1..MaxClients) : c \in Client /\ c[1] = g
    BY <1>4 DEF Client
  <2>2. \A c \in {g} \X (1..MaxClients) : Sure(c) = {}
    BY <1>8, <2>1 DEF Sure
  <2>. QED
    BY <1>3, <2>2
<1>10. Listed \cap up = {} /\ Listed' = Listed
  BY <1>2, <1>6, <1>8 DEF Listed
<1>11. /\ org'[g] = up /\ afp'[g] \subseteq afp[g]
       /\ \A h \in Group : h # g => org'[h] = org[h] /\ afp'[h] = afp[h]
       /\ \A h \in Host : h # g => afp'[h] = afp[h]
  BY <1>3, <1>4, HostTypes DEF TypeOK
<1>12. ListedApart'
  <2>1. Listed' \cap (Called' \cup dst'[Main]) = {}
    BY <1>3, <1>10 DEF ListedApart, Called
  <2>2. ASSUME NEW c \in Client
        PROVE  /\ cst'[c] \in {"new", "run"} => Listed' \cap org'[c[1]] = {}
               /\ cst'[c] = "run" => Listed' \cap cmust'[c] = {}
    <3>1. CASE c[1] = g
      <4>1. cst'[c] # "run"
        BY <1>5, <1>8, <3>1 DEF TypeOK
      <4>. QED
        BY <1>10, <1>11, <3>1, <4>1
    <3>2. CASE c[1] # g
      <4>1. cst'[c] = cst[c] /\ c[1] \in Group /\ cmust'[c] = cmust[c]
        BY <1>3, <1>5, <3>2, HostTypes DEF TypeOK
      <4>. QED
        BY <1>10, <1>11, <3>2, <4>1 DEF ListedApart
    <3>. QED
      BY <3>1, <3>2
  <2>3. ASSUME NEW j \in ToVisit'..Len(GroupList)
        PROVE  /\ \A f \in Listed' : f.dotted => f \notin Served(GroupList[j])'
               /\ \A c \in Client : c[1] = GroupList[j] => cst'[c] \in {"none", "done"}
    <3>1. /\ j \in ToVisit..Len(GroupList) /\ j # turn + 1 /\ j \in DOMAIN GroupList
          /\ turn + 1 \in DOMAIN GroupList
      BY <1>4, <1>7, FingerMoveAssumption
    <3>2. GroupList[j] # g /\ GroupList[j] \in Group
      BY <1>4, <3>1, FingerMoveAssumption DEF DistinctLists
    <3>3. Served(GroupList[j])' = Served(GroupList[j])
      BY <1>3, <1>11, <3>2 DEF Served
    <3>4. \A c \in Client : c[1] = GroupList[j] => cst'[c] = cst[c]
      BY <1>5, <3>2 DEF TypeOK
    <3>. QED
      BY <1>10, <3>1, <3>3, <3>4 DEF ListedApart
  <2>. QED
    BY <2>1, <2>2, <2>3 DEF ListedApart
<1>13. ListedMirrored'
  <2>1. afp'[Main] = afp[Main] /\ \A j \in DOMAIN SubList : afp'[SubList[j]] = afp[SubList[j]]
    BY <1>4, <1>11, HostTypes, FingerMoveAssumption
  <2>2. InHand' = InHand
    BY <1>2 DEF InHand
  <2>. QED
    BY <1>2, <1>3, <1>10, <2>1, <2>2 DEF ListedMirrored
<1>. QED
  BY <1>9, <1>12, <1>13

\* What goes down is listed, so that nobody else is busy with it.
LEMMA CalmMovCnt ==
  ASSUME TypeOK, LossInv, MirrorInv, troubled = {}, ListedApart, ListedMirrored, MovCnt
  PROVE  troubled' = {} /\ ListedApart' /\ ListedMirrored'
<1> DEFINE down == movCntFile(afp[Main], bot, lineCount, result)
<1>1. /\ afp' = [afp EXCEPT ![Main] = @ \ down] /\ org' = [org EXCEPT ![Main] = down]
      /\ UNCHANGED <<dst, clients, calls, bot, turn, cur, i>>
      /\ todo' = org'[Main] /\ pc = "mov" /\ pc' = "move"
      /\ troubled' = troubled \cup
           (down \cap (Called \cup dst[Main] \cup UNION {May(c) : c \in Client}))
  BY DEF MovCnt, Take, Trouble, listing
<1>2. down \subseteq afp[Main] /\ down \subseteq Listed
  BY DEF movCntFile, Window, Listed, ToSet
<1> HIDE DEF down
<1>3. /\ afp'[Main] = afp[Main] \ down /\ todo' = down /\ todo = {} /\ cur = NoFile
      /\ \A h \in Host : h # Main => afp'[h] = afp[h]
      /\ \A g \in Group : org'[g] = org[g]
      /\ Listed' = Listed /\ Called' = Called /\ ToVisit' = ToVisit
  BY <1>1, HostTypes DEF TypeOK, LossInv, MirrorInv, CurReset, Listed, Called, ToVisit
<1>4. \A c \in Client : Listed \cap May(c) = {}
  BY DEF ListedApart, May
<1>5. troubled' = {}
  <2>1. down \cap (UNION {May(c) : c \in Client}) = {}
    BY <1>2, <1>4
  <2>2. down \cap (Called \cup dst[Main]) = {}
    BY <1>2 DEF ListedApart
  <2>. QED
    BY <1>1, <2>1, <2>2
<1>6. ListedApart'
  <2>1. \A c \in Client : org'[c[1]] = org[c[1]]
    BY <1>3, HostTypes
  <2>2. \A j \in ToVisit..Len(GroupList) : Served(GroupList[j])' = Served(GroupList[j])
    <3>1. \A j \in ToVisit..Len(GroupList) : j \in 1..Len(GroupList)
      BY HostTypes DEF ToVisit, TypeOK
    <3>. QED
      BY <1>1, <1>3, <3>1, HostTypes DEF Served
  <2>. QED
    BY <1>1, <1>3, <2>1, <2>2 DEF ListedApart, clients
<1>7. ListedMirrored'
  <2>1. \A j \in DOMAIN SubList : afp'[SubList[j]] = afp[SubList[j]]
    BY <1>3, HostTypes, FingerMoveAssumption
  <2>2. InHand' = down /\ InHand = {} /\ NoFile \notin afp[Main]
    BY <1>1, <1>3, HostTypes, FingerMoveAssumption DEF InHand, TypeOK
  <2>. QED
    BY <1>1, <1>2, <1>3, <2>1, <2>2 DEF ListedMirrored
<1>. QED
  BY <1>5, <1>6, <1>7

\* The group that is given a file is not to be visited again.
LEMMA CalmPut ==
  ASSUME TypeOK, MirrorInv, troubled = {}, ListedApart, ListedMirrored, DistinctLists,
         NEW f \in Files, PutOk(f)
  PROVE  troubled' = {} /\ ListedApart' /\ ListedMirrored'
<1>1. /\ UNCHANGED <<afp, org, clients, calls, bot, turn, troubled>>
      /\ todo' = todo \ {f} /\ f \in todo /\ cur' = f /\ i' = 1
      /\ pc = "move" /\ pc' = "del" /\ cur = NoFile /\ f # NoFile
      /\ dst' = [dst EXCEPT ![Visited] = @ \cup {f}]
      /\ Visited \in Group /\ turn < Len(GroupList)
  BY VisitedType, FingerMoveAssumption
     DEF PutOk, Put, TypeOK, listing, MirrorInv, CurReset
<1>2. /\ \A h \in Host : h # Visited => dst'[h] = dst[h] /\ Served(h)' = Served(h)
      /\ Listed' = Listed /\ Called' = Called /\ ToVisit' = ToVisit /\ ToVisit = turn + 2
  BY <1>1 DEF TypeOK, Served, Listed, Called, ToVisit
<1>3. ListedApart'
  <2>1. ASSUME NEW j \in ToVisit..Len(GroupList)
        PROVE  Served(GroupList[j])' = Served(GroupList[j])
    <3>1. /\ j \in DOMAIN GroupList /\ turn + 1 \in DOMAIN GroupList /\ j # turn + 1
          /\ GroupList[j] \in Host
      BY <1>1, <1>2, HostTypes, FingerMoveAssumption DEF TypeOK
    <3>2. GroupList[j] # Visited
      BY <3>1 DEF DistinctLists, Visited
    <3>. QED
      BY <1>2, <3>1, <3>2
  <2>2. dst'[Main] = dst[Main]
    BY <1>1, <1>2, HostTypes
  <2>. QED
    BY <1>1, <1>2, <2>1, <2>2 DEF ListedApart, clients
<1>4. ListedMirrored'
  <2>1. InHand' = InHand
    BY <1>1 DEF InHand
  <2>2. \A j \in DOMAIN SubList : dst'[SubList[j]] = dst[SubList[j]]
    BY <1>1, <1>2, HostTypes, FingerMoveAssumption
  <2>3. f \notin todo' /\ cur \notin Listed \cap (afp[Main] \cup InHand)
    BY <1>1, HostTypes, FingerMoveAssumption DEF InHand, TypeOK
  <2>. QED
    BY <1>1, <1>2, <2>1, <2>2, <2>3 DEF ListedMirrored
<1>. QED
  BY <1>1, <1>3, <1>4

\* Each sub cache has the file in AFP_DIR, and nowhere else, when Delafps
\* looks for it.
LEMMA CalmDel ==
  ASSUME TypeOK, troubled = {}, ListedApart, ListedMirrored, DistinctLists,
         DelOk \/ DelMissing
  PROVE  troubled' = {} /\ ListedApart' /\ ListedMirrored'
<1>1. /\ UNCHANGED <<dst, org, clients, calls, bot, turn, todo, cur>>
      /\ pc = "del" /\ pc' = "del" /\ i' = i + 1 /\ i \in 1..Len(SubList)
      /\ i \in DOMAIN SubList /\ DOMAIN SubList = 1..Len(SubList)
      /\ SubList[i] \in Sub /\ cur \in Files /\ cur # NoFile
  BY HostTypes, FingerMoveAssumption DEF DelOk, DelMissing, DelAfps, TypeOK, listing
<1>2. cur \in InHand /\ cur \in Listed
  BY <1>1 DEF InHand, ListedMirrored
<1>3. cur \in afp[SubList[i]] /\ cur \notin dst[SubList[i]]
  <2>1. i >= i
    BY <1>1
  <2>. QED
    BY <1>1, <1>2, <2>1 DEF ListedMirrored
<1>s. PICK sub \in Sub : sub = SubList[i]
  BY <1>1
<1>4. afp' = [afp EXCEPT ![sub] = @ \ {cur}] /\ troubled' = {}
  BY <1>3, <1>s DEF DelOk, DelMissing, Trouble
<1>5. /\ afp'[sub] = afp[sub] \ {cur} /\ \A h \in Host : h # sub => afp'[h] = afp[h]
      /\ Listed' = Listed /\ Called' = Called /\ ToVisit' = ToVisit /\ InHand' = InHand
  BY <1>1, <1>4, HostTypes DEF TypeOK, Listed, Called, ToVisit, InHand
<1>6. ListedApart'
  <2>1. ASSUME NEW j \in ToVisit..Len(GroupList)
        PROVE  Served(GroupList[j])' = Served(GroupList[j])
    <3>1. j \in 1..Len(GroupList)
      BY HostTypes DEF ToVisit, TypeOK
    <3>2. GroupList[j] \in Host /\ GroupList[j] # sub
      BY <3>1, HostTypes
    <3>. QED
      BY <1>1, <1>5, <3>2 DEF Served
  <2>. QED
    BY <1>1, <1>5, <2>1 DEF ListedApart, clients
<1>7. ListedMirrored'
  <2>1. afp'[Main] = afp[Main]
    BY <1>5, HostTypes
  <2>2. ASSUME NEW f \in Listed \cap (afp[Main] \cup InHand), NEW j \in DOMAIN SubList,
               f = cur => j >= i + 1
        PROVE  f \in afp'[SubList[j]] \ dst[SubList[j]]
    <3>1. f = cur => j >= i /\ j # i
      BY <1>1, <2>2
    <3>2. f \in afp[SubList[j]] \ dst[SubList[j]]
      BY <3>1 DEF ListedMirrored
    <3>3. f = cur => SubList[j] # sub
      BY <1>1, <1>s, <3>1 DEF DistinctLists
    <3>4. SubList[j] \in Host
      BY <1>1, HostTypes
    <3>. QED
      BY <1>5, <3>2, <3>3, <3>4
  <2>. QED
    BY <1>1, <1>5, <2>1, <2>2 DEF ListedMirrored
<1>. QED
  BY <1>4, <1>6, <1>7

\* The loop goes on to the next file or the next group.
LEMMA CalmTurn ==
  ASSUME TypeOK, MirrorInv, troubled = {}, ListedApart, ListedMirrored,
         DelEnd \/ MoveEnd \/ PreconfRefused
  PROVE  troubled' = {} /\ ListedApart' /\ ListedMirrored'
<1>1. /\ UNCHANGED <<dirs, clients, calls, bot, todo, troubled>>
      /\ cur' \in {cur, NoFile}
      /\ cur' = cur => i' = i \/ cur = NoFile
      /\ turn' \in {turn, turn + 1} /\ turn \in Nat
  BY DEF DelEnd, MoveEnd, PreconfRefused, listing, TypeOK
<1>2. ToVisit \in Nat /\ ToVisit' \in Nat /\ ToVisit' >= ToVisit
  BY DEF DelEnd, MoveEnd, PreconfRefused, ToVisit, TypeOK
<1>3. /\ InHand' \subseteq InHand /\ Listed' = Listed /\ Called' = Called
      /\ \A h : Served(h)' = Served(h)
  BY <1>1 DEF InHand, Listed, Called, Served, dirs
<1>4. \A j \in ToVisit'..Len(GroupList) : j \in ToVisit..Len(GroupList)
  BY <1>2, HostTypes
<1>5. ListedApart'
  BY <1>1, <1>3, <1>4 DEF ListedApart, clients, dirs
<1>6. NoFile \notin todo /\ NoFile \notin afp[Main]
  BY HostTypes, FingerMoveAssumption DEF TypeOK
<1>7. ListedMirrored'
  <2>1. \A f \in Listed \cap (afp[Main] \cup InHand') : f # NoFile /\ (f = cur => cur' = cur)
    BY <1>1, <1>6 DEF InHand, ListedMirrored
  <2>2. ASSUME NEW f \in Listed \cap (afp[Main] \cup InHand'), NEW j \in DOMAIN SubList,
               f = cur' => j >= i'
        PROVE  f \in afp[SubList[j]] \ dst[SubList[j]]
    <3>1. f = cur => j >= i
      BY <1>1, <2>1, <2>2
    <3>. QED
      BY <1>3, <3>1 DEF ListedMirrored
  <2>3. cur' \notin todo'
    BY <1>1, <1>6 DEF ListedMirrored
  <2>. QED
    BY <1>1, <1>3, <2>2, <2>3 DEF ListedMirrored, dirs
<1>. QED
  BY <1>1, <1>5, <1>7

\* A client sends what its group has in ORG_DIR, which is not listed.
LEMMA CalmClient ==
  ASSUME TypeOK, ListedApart, ListedMirrored, NEW c \in Client,
         \/ ClientOpen(c) \/ ClientEnd(c)
         \/ \E f \in Files : ClientSend(c, f) \/ ClientSkip(c, f)
  PROVE  ListedApart' /\ ListedMirrored'
<1>1. /\ UNCHANGED <<afp, dst, org, bot, pc, turn, todo, cur, i>>
      /\ Called' = Called \/ \E f \in org[c[1]] : cst[c] = "run" /\ Called' = Called \cup {f}
  <2>1. CASE ClientOpen(c) \/ ClientEnd(c)
    BY <2>1 DEF ClientOpen, ClientEnd, Called, dirs, listing, loop
  <2>2. ASSUME NEW f \in Files, ClientSkip(c, f)
        PROVE  UNCHANGED <<afp, dst, org, bot, pc, turn, todo, cur, i>> /\ Called' = Called
    BY <2>2 DEF ClientSkip, Read, Called, dirs, listing, loop
  <2>3. ASSUME NEW f \in Files, ClientSend(c, f)
        PROVE  /\ UNCHANGED <<afp, dst, org, bot, pc, turn, todo, cur, i>>
               /\ f \in org[c[1]] /\ cst[c] = "run" /\ Called' = Called \cup {f}
    <3> DEFINE k == [client |-> c, file |-> f, i |-> 1, ph |-> "add", heard |-> TRUE]
    <3>1. calls' = calls \cup {k} /\ k.file = f
      BY <2>3 DEF ClientSend
    <3>2. UNCHANGED <<dirs, listing, loop>> /\ f \in org[c[1]] /\ cst[c] = "run"
      BY <2>3 DEF ClientSend, Read
    <3> HIDE DEF k
    <3>3. Called' = Called \cup {f}
      BY <3>1 DEF Called
    <3>. QED
      BY <3>2, <3>3 DEF dirs, listing, loop
  <2>. QED
    BY <2>1, <2>2, <2>3
<1>2. /\ Listed' = Listed /\ ToVisit' = ToVisit /\ InHand' = InHand
      /\ \A h : Served(h)' = Served(h)
  BY <1>1 DEF Listed, ToVisit, InHand, Served
<1>3. /\ \A d \in Client : d # c => cst'[d] = cst[d] /\ cmust'[d] = cmust[d]
      /\ cst[c] \in {"new", "run"}
      /\ cmust'[c] = cmust[c] \/ cmust'[c] = org[c[1]]
      /\ cst'[c] = "run" => cmust'[c] = org[c[1]] \/ (cst[c] = "run" /\ cmust'[c] = cmust[c])
  <2>1. CASE ClientOpen(c)
    BY <2>1 DEF ClientOpen, TypeOK
  <2>2. CASE ClientEnd(c)
    BY <2>2 DEF ClientEnd, TypeOK
  <2>3. ASSUME NEW f \in Files, ClientSend(c, f) \/ ClientSkip(c, f)
        PROVE  UNCHANGED <<cst, cmust>> /\ cst[c] = "run"
    BY <2>3 DEF ClientSend, ClientSkip, Read
  <2>. QED
    BY <2>1, <2>2, <2>3
<1>4. Listed \cap org[c[1]] = {}
  BY <1>3 DEF ListedApart
<1>5. \A j \in ToVisit..Len(GroupList) : c[1] # GroupList[j]
  BY <1>3 DEF ListedApart
<1>6. ListedApart'
  <2>1. Listed \cap (Called' \cup dst[Main]) = {}
    BY <1>1, <1>4 DEF ListedApart
  <2>2. ASSUME NEW d \in Client
        PROVE  /\ cst'[d] \in {"new", "run"} => Listed \cap org[d[1]] = {}
               /\ cst'[d] = "run" => Listed \cap cmust'[d] = {}
               /\ \A j \in ToVisit..Len(GroupList) : d[1] = GroupList[j] => cst'[d] \in {"none", "done"}
    <3>1. CASE d = c
      BY <1>3, <1>4, <1>5, <3>1 DEF ListedApart
    <3>2. CASE d # c
      BY <1>3, <3>2 DEF ListedApart
    <3>. QED
      BY <3>1, <3>2
  <2>. QED
    BY <1>1, <1>2, <2>1, <2>2 DEF ListedApart
<1>7. ListedMirrored'
  BY <1>1, <1>2 DEF ListedMirrored
<1>. QED
  BY <1>6, <1>7

\* What a handler writes is on its way up, so it is not listed.
LEMMA CalmHandle ==
  ASSUME TypeOK, ListedApart, ListedMirrored, NEW k \in calls,
         McAdd(k) \/ McStore(k) \/ McReturn(k)
  PROVE  ListedApart' /\ ListedMirrored'
<1>1. /\ UNCHANGED <<afp, org, bot, pc, turn, todo, cur, i, cst, cmust>>
      /\ k \in Call /\ k.file \in Called
  BY DEF McAdd, McStore, McReturn, TypeOK, Called, dirs, listing, loop, clients
<1>2. /\ Called' \subseteq Called
      /\ \A h \in Host : dst'[h] \subseteq dst[h] \cup {k.file}
      /\ \A h \in Group : dst'[h] = dst[h]
  <2>1. CASE McAdd(k)
    <3>1. SubList[k.i] \in Sub
      BY <1>1, <2>1, HostTypes DEF McAdd, Call
    <3>2. dst' = [dst EXCEPT ![SubList[k.i]] = @ \cup {k.file}]
      BY <2>1 DEF McAdd
    <3>3. [k EXCEPT !.ph = "store"].file = k.file
      BY <1>1 DEF Call
    <3>4. calls' = (calls \ {k}) \cup {[k EXCEPT !.ph = "store"]}
      BY <2>1 DEF McAdd, Become
    <3>5. Called' \subseteq Called
      BY <1>1, <3>3, <3>4 DEF Called
    <3>. QED
      BY <3>1, <3>2, <3>5, HostTypes DEF TypeOK
  <2>2. CASE McStore(k)
    <3>2. dst' = [dst EXCEPT ![Main] = @ \cup {k.file}]
      BY <2>2 DEF McStore
    <3>3. [k EXCEPT !.ph = "add", !.i = @ + 1].file = k.file
      BY <1>1 DEF Call
    <3>4. calls' = (calls \ {k}) \cup {[k EXCEPT !.ph = "add", !.i = @ + 1]}
      BY <2>2 DEF McStore, Become
    <3>5. Called' \subseteq Called
      BY <1>1, <3>3, <3>4 DEF Called
    <3>. QED
      BY <3>2, <3>5, HostTypes DEF TypeOK
  <2>3. CASE McReturn(k)
    BY <2>3, HostTypes DEF McReturn, End, Called, dirs
  <2>. QED
    BY <2>1, <2>2, <2>3
<1>3. k.file \notin Listed
  BY <1>1 DEF ListedApart
<1>4. /\ Listed' = Listed /\ ToVisit' = ToVisit /\ InHand' = InHand
      /\ \A h \in Group : Served(h)' = Served(h)
  BY <1>1, <1>2 DEF Listed, ToVisit, InHand, Served
<1>5. \A j \in ToVisit..Len(GroupList) : GroupList[j] \in Group
  BY HostTypes DEF ToVisit, TypeOK
<1>6. ListedApart'
  <2>1. Listed \cap (Called' \cup dst'[Main]) = {}
    BY <1>2, <1>3, HostTypes DEF ListedApart
  <2>. QED
    BY <1>1, <1>4, <1>5, <2>1 DEF ListedApart
<1>7. ListedMirrored'
  <2>1. \A j \in DOMAIN SubList : SubList[j] \in Host
    BY HostTypes, FingerMoveAssumption
  <2>. QED
    BY <1>1, <1>2, <1>3, <1>4, <2>1 DEF ListedMirrored
<1>. QED
  BY <1>6, <1>7

\* Nothing in the main cache's DST_DIR is listed; a sub cache goes on using
\* what it uses.
LEMMA CalmIngest ==
  ASSUME TypeOK, ListedApart, ListedMirrored, NEW h \in Host, Ingest(h)
  PROVE  ListedApart' /\ ListedMirrored'
<1>1. /\ UNCHANGED <<org, bot, pc, turn, todo, cur, i, cst, cmust, calls>>
      /\ afp' = [afp EXCEPT ![h] = @ \cup dst[h]] /\ dst' = [dst EXCEPT ![h] = {}]
  BY DEF Ingest, listing, loop, clients
<1>2. \A x \in Host : /\ Served(x)' = Served(x) /\ dst'[x] \subseteq dst[x]
                      /\ afp[x] \subseteq afp'[x] /\ afp'[x] \subseteq afp[x] \cup dst[x]
  BY <1>1 DEF TypeOK, Served
<1>3. Listed' = Listed /\ ToVisit' = ToVisit /\ InHand' = InHand /\ Called' = Called
  BY <1>1 DEF Listed, ToVisit, InHand, Called
<1>4. ListedApart'
  <2>1. \A j \in ToVisit..Len(GroupList) : GroupList[j] \in Host
    BY HostTypes DEF ToVisit, TypeOK
  <2>2. Listed \cap (Called \cup dst'[Main]) = {}
    BY <1>2, HostTypes DEF ListedApart
  <2>. QED
    BY <1>1, <1>2, <1>3, <2>1, <2>2 DEF ListedApart
<1>5. ListedMirrored'
  <2>1. \A j \in DOMAIN SubList : SubList[j] \in Host
    BY HostTypes, FingerMoveAssumption
  <2>2. Listed \cap dst[Main] = {}
    BY DEF ListedApart
  <2>3. InHand \cap afp'[Main] = {} /\ Listed \cap afp'[Main] \subseteq afp[Main]
    BY <1>2, <2>2, HostTypes DEF ListedMirrored
  <2>. QED
    BY <1>1, <1>2, <1>3, <2>1, <2>3 DEF ListedMirrored
<1>. QED
  BY <1>4, <1>5

\* A client, a handler or the search engine overtakes nothing by itself.
LEMMA CalmOthers ==
  ASSUME \/ \E c \in Client : \/ ClientOpen(c) \/ ClientEnd(c)
                              \/ \E f \in Files : ClientSend(c, f) \/ ClientSkip(c, f)
         \/ \E k \in calls : McAdd(k) \/ McStore(k) \/ McReturn(k)
         \/ \E h \in Host : Ingest(h)
         \/ UNCHANGED vars
  PROVE  UNCHANGED <<troubled, pc>>
<1>1. \A c \in Client, f \in Files :
        ClientOpen(c) \/ ClientEnd(c) \/ ClientSend(c, f) \/ ClientSkip(c, f)
          => UNCHANGED <<troubled, pc>>
  BY DEF ClientOpen, ClientEnd, ClientSend, ClientSkip, Read, loop
<1>2. \A c \in Client : ClientOpen(c) \/ ClientEnd(c) => UNCHANGED <<troubled, pc>>
  BY DEF ClientOpen, ClientEnd, loop
<1>3. \A k \in calls : McAdd(k) \/ McStore(k) \/ McReturn(k) => UNCHANGED <<troubled, pc>>
  BY DEF McAdd, McStore, McReturn, loop
<1>4. \A h \in Host : Ingest(h) => UNCHANGED <<troubled, pc>>
  BY DEF Ingest, loop
<1>5. UNCHANGED vars => UNCHANGED <<troubled, pc>>
  BY DEF vars, loop
<1>. QED
  BY <1>1, <1>2, <1>3, <1>4, <1>5

LEMMA RoundInit == Init => RoundInv
BY DEF Init, RoundInv

LEMMA RoundNext ==
  ASSUME TypeOK, TypeOK', LossInv, PlaceInv, MirrorInv, RoundInv, DistinctLists, [Next]_vars
  PROVE  RoundInv'
<1> SUFFICES ASSUME Timely, faults' = 0
             PROVE  troubled' = {} /\ (pc' # "sleep" => ListedApart' /\ ListedMirrored')
  BY DEF RoundInv
<1>1. faults = 0 /\ CalmStep
  BY CalmSteps
<1>2. troubled = {} /\ (pc # "sleep" => ListedApart /\ ListedMirrored)
  BY <1>1 DEF RoundInv
<1>3. CASE Prep
  BY <1>2, <1>3, CalmPrep
<1>4. CASE PreconfOk
  BY <1>2, <1>4, CalmPreconf DEF PreconfOk
<1>5. CASE MovCnt
  BY <1>2, <1>5, CalmMovCnt DEF MovCnt
<1>6. CASE \E f \in Files : PutOk(f)
  BY <1>2, <1>6, CalmPut DEF PutOk, Put
<1>7. CASE DelOk \/ DelMissing
  BY <1>2, <1>7, CalmDel DEF DelOk, DelMissing, DelAfps
<1>8. CASE DelEnd \/ MoveEnd \/ PreconfRefused
  BY <1>2, <1>8, CalmTurn DEF DelEnd, MoveEnd, PreconfRefused
<1>9. CASE RoundEnd
  BY <1>2, <1>9 DEF RoundEnd
<1>10. ASSUME NEW c \in Client,
              \/ ClientOpen(c) \/ ClientEnd(c)
              \/ \E f \in Files : ClientSend(c, f) \/ ClientSkip(c, f)
       PROVE  troubled' = {} /\ (pc' # "sleep" => ListedApart' /\ ListedMirrored')
  BY <1>2, <1>10, CalmOthers, CalmClient
<1>11. ASSUME NEW k \in calls, McAdd(k) \/ McStore(k) \/ McReturn(k)
       PROVE  troubled' = {} /\ (pc' # "sleep" => ListedApart' /\ ListedMirrored')
  BY <1>2, <1>11, CalmOthers, CalmHandle
<1>12. ASSUME NEW h \in Host, Ingest(h)
       PROVE  troubled' = {} /\ (pc' # "sleep" => ListedApart' /\ ListedMirrored')
  BY <1>2, <1>12, CalmOthers, CalmIngest
<1>13. CASE UNCHANGED vars
  <2>1. (ListedApart => ListedApart') /\ (ListedMirrored => ListedMirrored')
    BY <1>13 DEF vars, dirs, listing, loop, clients, ListedApart, ListedMirrored, Listed,
       ToVisit, InHand, Called, Served
  <2>. QED
    BY <1>2, <1>13, <2>1, CalmOthers
<1>. QED
  BY <1>1, <1>3, <1>4, <1>5, <1>6, <1>7, <1>8, <1>9, <1>10, <1>11, <1>12, <1>13 DEF CalmStep

\* With no failure, and every exchange settled before the main cache lists its
\* cold files again, no step of McService::runLoop, GCServer::Preconf or
\* Delafps overtakes a file or finds it missing, whatever the order in which
\* the clients, the handlers and the search engines run: every guarantee that
\* leaves out the troubled files is one about all files.
THEOREM NothingOvertaken ==
  ASSUME SubList # <<>>, DistinctLists
  PROVE  Spec => []NoTrouble
<1> DEFINE Inv == TypeOK /\ LossInv /\ PlaceInv /\ MirrorInv /\ RoundInv
<1>1. Init => Inv
  BY TypeInit, LossInit, PlaceInit, MirrorInit, RoundInit
<1>2. Inv /\ [Next]_vars => Inv'
  BY TypeNext, LossNext, PlaceNext, MirrorNext, RoundNext
<1>3. Inv => NoTrouble
  BY DEF RoundInv, NoTrouble
<1>. QED
  BY <1>1, <1>2, <1>3, PTL DEF Spec
=============================================================================
