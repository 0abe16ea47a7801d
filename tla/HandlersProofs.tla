---------------------------- MODULE HandlersProofs ----------------------------
(***************************************************************************)
(* Proofs about Handlers: what the handlers and clients of one group do to *)
(* its files together, for any number of them, any files, limit and        *)
(* failures.                                                               *)
(***************************************************************************)
EXTENDS Handlers, FiniteSetTheorems, TLAPS

HandlerStates == {"idle", "write", "empty", "emptying", "rename", "end", "dead"}
ClientStates == {"none", "new", "run", "done"}

\* The types that the arguments below need.
HandlersType ==
  /\ afp \subseteq Files /\ org \subseteq Files
  /\ pc \in [Handler -> HandlerStates] /\ cst \in [Handler -> ClientStates]
  /\ held \in [Handler -> SUBSET Files]
  /\ must \in [Thread -> SUBSET Files] /\ seen \in [Thread -> SUBSET Files]
  /\ alone \in BOOLEAN

\* A client is started once, at the end of its handler, has read nothing
\* before it opens ORG_DIR, and holds a file only while it runs.
ClientsInOrder ==
  \A h \in Handler :
    /\ pc[h] # "end" => cst[h] = "none"
    /\ cst[h] \in {"none", "new"} => seen[C(h)] = {}
    /\ held[h] # {} => cst[h] = "run"

\* A file is not in both directories.
Apart == afp \cap org = {}

\* As long as no Preconf began beside another, one is at work at most.
OneAtWork == alone => \A h, k \in Working : h = k

HandlersInv == /\ HandlersType /\ ClientsInOrder /\ Apart
               /\ NothingStranded /\ OneAtWork /\ GoneOnlyByOverlap

\* The clients' threads are not handlers, and one per handler.
LEMMA ClientThreads ==
  /\ \A h \in Handler : h \in Thread /\ C(h) \in Thread
  /\ \A h, k \in Handler : C(h) # k /\ (C(h) = C(k) => h = k)
BY HandlersAssumption DEF C, Client, Thread

-----------------------------------------------------------------------------
(* One lemma per step *)

LEMMA TopOpenKeeps ==
  ASSUME HandlersInv, NEW h \in Handler, TopOpen(h)
  PROVE  HandlersInv'
<1>1. /\ UNCHANGED <<afp, org, main, cst, held, must, seen, gone, failed>>
      /\ pc[h] = "idle" /\ \E s \in {"end", "write"} : pc' = [pc EXCEPT ![h] = s]
      /\ alone' = (alone /\ Working = {})
  BY DEF TopOpen, dirs, handlers, clients, scans, history, At, C
<1>2. HandlersType'
  BY <1>1, HandlersAssumption, ClientThreads DEF HandlersInv, HandlersType, HandlerStates, ClientStates
<1>3. ClientsInOrder'
  BY <1>1, ClientThreads DEF HandlersInv, HandlersType, ClientsInOrder, HandlerStates
<1>4. Apart'
  BY <1>1 DEF HandlersInv, Apart
<1>5. NothingStranded'
  BY <1>1, ClientThreads DEF HandlersInv, HandlersType, ClientsInOrder, NothingStranded, Pending
<1>6. OneAtWork'
  <2> SUFFICES ASSUME alone, Working = {}
               PROVE  Working' \subseteq {h}
    BY <1>1 DEF OneAtWork
  <2>1. \A k \in Handler : pc[k] \in {"idle", "end", "dead"} /\ cst[k] \notin {"new", "run"}
    BY DEF Working
  <2>. QED
    BY <1>1, <2>1 DEF Working, HandlersInv, HandlersType
<1>7. GoneOnlyByOverlap'
  BY <1>1 DEF HandlersInv, HandlersType, GoneOnlyByOverlap
<1>. QED
  BY <1>2, <1>3, <1>4, <1>5, <1>6, <1>7 DEF HandlersInv

LEMMA TopCloseKeeps ==
  ASSUME HandlersInv, NEW h \in Handler, TopClose(h)
  PROVE  HandlersInv'
<1>1. /\ UNCHANGED <<afp, org, main, cst, held, must, seen, gone, failed, alone>>
      /\ pc[h] = "write" /\ pc' = [pc EXCEPT ![h] = "empty"]
  BY DEF TopClose, dirs, handlers, clients, scans, history, At, C
<1>2. HandlersType'
  BY <1>1, HandlersAssumption, ClientThreads DEF HandlersInv, HandlersType, HandlerStates, ClientStates
<1>3. ClientsInOrder'
  BY <1>1, ClientThreads DEF HandlersInv, HandlersType, ClientsInOrder, HandlerStates
<1>4. Apart'
  BY <1>1 DEF HandlersInv, Apart
<1>5. NothingStranded'
  BY <1>1, ClientThreads DEF HandlersInv, HandlersType, ClientsInOrder, NothingStranded, Pending
<1>6. OneAtWork'
  BY <1>1 DEF HandlersInv, HandlersType, ClientsInOrder, OneAtWork, Working
<1>7. GoneOnlyByOverlap'
  BY <1>1 DEF HandlersInv, GoneOnlyByOverlap
<1>. QED
  BY <1>2, <1>3, <1>4, <1>5, <1>6, <1>7 DEF HandlersInv

LEMMA EmptyOpenKeeps ==
  ASSUME HandlersInv, NEW h \in Handler, EmptyOpen(h)
  PROVE  HandlersInv'
<1>1. /\ UNCHANGED <<afp, org, main, cst, held, seen, gone, failed, alone>>
      /\ pc[h] = "empty" /\ pc' = [pc EXCEPT ![h] = "emptying"]
      /\ must' = [must EXCEPT ![h] = org]
  BY DEF EmptyOpen, dirs, handlers, clients, scans, history, At, C
<1>2. HandlersType'
  BY <1>1, HandlersAssumption, ClientThreads DEF HandlersInv, HandlersType, HandlerStates, ClientStates
<1>3. ClientsInOrder'
  BY <1>1, ClientThreads DEF HandlersInv, HandlersType, ClientsInOrder, HandlerStates
<1>4. Apart'
  BY <1>1 DEF HandlersInv, Apart
<1>5. NothingStranded'
  BY <1>1, ClientThreads DEF HandlersInv, HandlersType, ClientsInOrder, NothingStranded, Pending
<1>6. OneAtWork'
  BY <1>1 DEF HandlersInv, HandlersType, ClientsInOrder, OneAtWork, Working
<1>7. GoneOnlyByOverlap'
  BY <1>1 DEF HandlersInv, GoneOnlyByOverlap
<1>. QED
  BY <1>2, <1>3, <1>4, <1>5, <1>6, <1>7 DEF HandlersInv

LEMMA EmptyOpenFailsKeeps ==
  ASSUME HandlersInv, NEW h \in Handler, EmptyOpenFails(h)
  PROVE  HandlersInv'
<1>1. /\ UNCHANGED <<afp, org, main, cst, held, must, seen, gone, failed, alone>>
      /\ pc[h] = "empty" /\ pc' = [pc EXCEPT ![h] = "rename"]
  BY DEF EmptyOpenFails, dirs, handlers, clients, scans, history, At, C
<1>2. HandlersType'
  BY <1>1, HandlersAssumption, ClientThreads DEF HandlersInv, HandlersType, HandlerStates, ClientStates
<1>3. ClientsInOrder'
  BY <1>1, ClientThreads DEF HandlersInv, HandlersType, ClientsInOrder, HandlerStates
<1>4. Apart'
  BY <1>1 DEF HandlersInv, Apart
<1>5. NothingStranded'
  BY <1>1, ClientThreads DEF HandlersInv, HandlersType, ClientsInOrder, NothingStranded, Pending
<1>6. OneAtWork'
  BY <1>1 DEF HandlersInv, HandlersType, ClientsInOrder, OneAtWork, Working
<1>7. GoneOnlyByOverlap'
  BY <1>1 DEF HandlersInv, GoneOnlyByOverlap
<1>. QED
  BY <1>2, <1>3, <1>4, <1>5, <1>6, <1>7 DEF HandlersInv

\* What is removed was nobody's to send, if no other Preconf is at work: then
\* it has arrived or failed.
LEMMA EmptyKeeps ==
  ASSUME HandlersInv, NEW h \in Handler, NEW f \in Files, Empty(h, f)
  PROVE  HandlersInv'
<1>1. /\ UNCHANGED <<afp, main, pc, cst, held, must, failed, alone>>
      /\ pc[h] = "emptying"
      /\ seen' = [seen EXCEPT ![h] = @ \cup {f}]
      /\ org' = org \ {f}
      /\ gone' = gone \cup ((org \cap {f}) \ main)
  BY DEF Empty, dirs, handlers, clients, scans, history, At, C
<1>2. HandlersType'
  BY <1>1, HandlersAssumption, ClientThreads DEF HandlersInv, HandlersType, HandlerStates, ClientStates
<1>3. ClientsInOrder'
  BY <1>1, ClientThreads DEF HandlersInv, HandlersType, ClientsInOrder, HandlerStates
<1>4. Apart'
  BY <1>1 DEF HandlersInv, Apart
<1>5. NothingStranded'
  BY <1>1, ClientThreads DEF HandlersInv, HandlersType, ClientsInOrder, NothingStranded, Pending
<1>6. OneAtWork'
  BY <1>1 DEF HandlersInv, HandlersType, ClientsInOrder, OneAtWork, Working
<1>7. GoneOnlyByOverlap'
  <2> SUFFICES ASSUME alone, f \in org, f \notin main, f \notin failed
               PROVE  FALSE
    BY <1>1 DEF HandlersInv, GoneOnlyByOverlap
  <2>1. f \notin gone /\ f \notin afp
    BY DEF HandlersInv, GoneOnlyByOverlap, Apart
  <2>2. PICK k \in Handler :
          \/ f \in held[k]
          \/ f \in org /\ pc[k] = "rename"
          \/ f \in org /\ cst[k] = "new"
          \/ f \in org /\ cst[k] = "run" /\ f \in must[C(k)] \ seen[C(k)]
    BY <2>1 DEF HandlersInv, NothingStranded, Pending
  <2>3. pc[k] = "rename" \/ cst[k] \in {"new", "run"}
    BY <2>2 DEF HandlersInv, ClientsInOrder
  <2>4. h \in Working /\ k \in Working
    BY <1>1, <2>3 DEF Working
  <2>5. h = k
    BY <2>4 DEF HandlersInv, OneAtWork
  <2>. QED
    BY <1>1, <2>3, <2>5 DEF HandlersInv, ClientsInOrder
<1>. QED
  BY <1>2, <1>3, <1>4, <1>5, <1>6, <1>7 DEF HandlersInv

LEMMA ReadTopKeeps ==
  ASSUME HandlersInv, NEW h \in Handler, ReadTop(h)
  PROVE  HandlersInv'
<1>1. /\ UNCHANGED <<afp, org, main, cst, held, must, seen, gone, failed, alone>>
      /\ pc[h] = "emptying" /\ pc' = [pc EXCEPT ![h] = "rename"]
  BY DEF ReadTop, dirs, handlers, clients, scans, history, At, C
<1>2. HandlersType'
  BY <1>1, HandlersAssumption, ClientThreads DEF HandlersInv, HandlersType, HandlerStates, ClientStates
<1>3. ClientsInOrder'
  BY <1>1, ClientThreads DEF HandlersInv, HandlersType, ClientsInOrder, HandlerStates
<1>4. Apart'
  BY <1>1 DEF HandlersInv, Apart
<1>5. NothingStranded'
  BY <1>1, ClientThreads DEF HandlersInv, HandlersType, ClientsInOrder, NothingStranded, Pending
<1>6. OneAtWork'
  BY <1>1 DEF HandlersInv, HandlersType, ClientsInOrder, OneAtWork, Working
<1>7. GoneOnlyByOverlap'
  BY <1>1 DEF HandlersInv, GoneOnlyByOverlap
<1>. QED
  BY <1>2, <1>3, <1>4, <1>5, <1>6, <1>7 DEF HandlersInv

LEMMA ReadTopFailsKeeps ==
  ASSUME HandlersInv, NEW h \in Handler, ReadTopFails(h)
  PROVE  HandlersInv'
<1>1. /\ UNCHANGED <<afp, org, main, cst, held, must, seen, gone, failed, alone>>
      /\ pc[h] = "emptying" /\ pc' = [pc EXCEPT ![h] = "rename"]
  BY DEF ReadTopFails, dirs, handlers, clients, scans, history, At, C
<1>2. HandlersType'
  BY <1>1, HandlersAssumption, ClientThreads DEF HandlersInv, HandlersType, HandlerStates, ClientStates
<1>3. ClientsInOrder'
  BY <1>1, ClientThreads DEF HandlersInv, HandlersType, ClientsInOrder, HandlerStates
<1>4. Apart'
  BY <1>1 DEF HandlersInv, Apart
<1>5. NothingStranded'
  BY <1>1, ClientThreads DEF HandlersInv, HandlersType, ClientsInOrder, NothingStranded, Pending
<1>6. OneAtWork'
  BY <1>1 DEF HandlersInv, HandlersType, ClientsInOrder, OneAtWork, Working
<1>7. GoneOnlyByOverlap'
  BY <1>1 DEF HandlersInv, GoneOnlyByOverlap
<1>. QED
  BY <1>2, <1>3, <1>4, <1>5, <1>6, <1>7 DEF HandlersInv

\* What is renamed is still before the client of the handler.
LEMMA RenameKeeps ==
  ASSUME HandlersInv, NEW h \in Handler, Rename(h)
  PROVE  HandlersInv'
<1>1. /\ UNCHANGED <<main, pc, cst, held, must, seen, gone, failed, alone>>
      /\ pc[h] = "rename"
      /\ \E now \in SUBSET afp : afp' = afp \ now /\ org' = org \cup now
  BY DEF Rename, dirs, handlers, clients, scans, history, At, C
<1>2. HandlersType'
  BY <1>1, HandlersAssumption, ClientThreads DEF HandlersInv, HandlersType, HandlerStates, ClientStates
<1>3. ClientsInOrder'
  BY <1>1, ClientThreads DEF HandlersInv, HandlersType, ClientsInOrder, HandlerStates
<1>4. Apart'
  BY <1>1 DEF HandlersInv, Apart
<1>5. NothingStranded'
  BY <1>1, ClientThreads DEF HandlersInv, HandlersType, ClientsInOrder, NothingStranded, Pending
<1>6. OneAtWork'
  BY <1>1 DEF HandlersInv, HandlersType, ClientsInOrder, OneAtWork, Working
<1>7. GoneOnlyByOverlap'
  BY <1>1 DEF HandlersInv, GoneOnlyByOverlap
<1>. QED
  BY <1>2, <1>3, <1>4, <1>5, <1>6, <1>7 DEF HandlersInv

\* The client of the handler takes over what it was to send.
LEMMA StartKeeps ==
  ASSUME HandlersInv, NEW h \in Handler, Start(h)
  PROVE  HandlersInv'
<1>1. /\ UNCHANGED <<afp, org, main, held, must, seen, gone, failed, alone>>
      /\ pc[h] = "rename" /\ pc' = [pc EXCEPT ![h] = "end"]
      /\ cst' = [cst EXCEPT ![h] = "new"]
  BY DEF Start, dirs, handlers, clients, scans, history, At, C
<1>2. HandlersType'
  BY <1>1, HandlersAssumption, ClientThreads DEF HandlersInv, HandlersType, HandlerStates, ClientStates
<1>3. ClientsInOrder'
  BY <1>1, ClientThreads DEF HandlersInv, HandlersType, ClientsInOrder, HandlerStates
<1>4. Apart'
  BY <1>1 DEF HandlersInv, Apart
<1>5. NothingStranded'
  BY <1>1, ClientThreads DEF HandlersInv, HandlersType, ClientsInOrder, NothingStranded, Pending
<1>6. OneAtWork'
  BY <1>1 DEF HandlersInv, HandlersType, ClientsInOrder, OneAtWork, Working
<1>7. GoneOnlyByOverlap'
  BY <1>1 DEF HandlersInv, GoneOnlyByOverlap
<1>. QED
  BY <1>2, <1>3, <1>4, <1>5, <1>6, <1>7 DEF HandlersInv

\* Every file of ORG_DIR is read by a client that opens it.
LEMMA ClientOpenKeeps ==
  ASSUME HandlersInv, NEW h \in Handler, ClientOpen(h)
  PROVE  HandlersInv'
<1>1. /\ UNCHANGED <<afp, org, main, pc, held, seen, gone, failed, alone>>
      /\ cst[h] = "new" /\ cst' = [cst EXCEPT ![h] = "run"]
      /\ must' = [must EXCEPT ![C(h)] = org]
  BY DEF ClientOpen, dirs, handlers, clients, scans, history, At, C
<1>2. HandlersType'
  BY <1>1, HandlersAssumption, ClientThreads DEF HandlersInv, HandlersType, HandlerStates, ClientStates
<1>3. ClientsInOrder'
  BY <1>1, ClientThreads DEF HandlersInv, HandlersType, ClientsInOrder, HandlerStates
<1>4. Apart'
  BY <1>1 DEF HandlersInv, Apart
<1>5. NothingStranded'
  BY <1>1, ClientThreads DEF HandlersInv, HandlersType, ClientsInOrder, NothingStranded, Pending
<1>6. OneAtWork'
  BY <1>1 DEF HandlersInv, HandlersType, ClientsInOrder, OneAtWork, Working
<1>7. GoneOnlyByOverlap'
  BY <1>1 DEF HandlersInv, GoneOnlyByOverlap
<1>. QED
  BY <1>2, <1>3, <1>4, <1>5, <1>6, <1>7 DEF HandlersInv

\* What a client that cannot open ORG_DIR was to send is in failed.
LEMMA ClientOpenFailsKeeps ==
  ASSUME HandlersInv, NEW h \in Handler, ClientOpenFails(h)
  PROVE  HandlersInv'
<1>1. /\ UNCHANGED <<afp, org, main, pc, held, must, seen, gone, alone>>
      /\ cst[h] = "new" /\ cst' = [cst EXCEPT ![h] = "done"]
      /\ failed' = failed \cup (org \ main)
  BY DEF ClientOpenFails, dirs, handlers, clients, scans, history, At, C
<1>2. HandlersType'
  BY <1>1, HandlersAssumption, ClientThreads DEF HandlersInv, HandlersType, HandlerStates, ClientStates
<1>3. ClientsInOrder'
  BY <1>1, ClientThreads DEF HandlersInv, HandlersType, ClientsInOrder, HandlerStates
<1>4. Apart'
  BY <1>1 DEF HandlersInv, Apart
<1>5. NothingStranded'
  BY <1>1, ClientThreads DEF HandlersInv, HandlersType, ClientsInOrder, NothingStranded, Pending
<1>6. OneAtWork'
  BY <1>1 DEF HandlersInv, HandlersType, ClientsInOrder, OneAtWork, Working
<1>7. GoneOnlyByOverlap'
  BY <1>1 DEF HandlersInv, GoneOnlyByOverlap
<1>. QED
  BY <1>2, <1>3, <1>4, <1>5, <1>6, <1>7 DEF HandlersInv

LEMMA ClientReadKeeps ==
  ASSUME HandlersInv, NEW h \in Handler, NEW f \in Files, ClientRead(h, f)
  PROVE  HandlersInv'
<1>1. /\ UNCHANGED <<afp, org, main, pc, cst, must, gone, failed, alone>>
      /\ cst[h] = "run" /\ held[h] = {}
      /\ seen' = [seen EXCEPT ![C(h)] = @ \cup {f}]
      /\ held' = [held EXCEPT ![h] = {f} \cap org]
  BY DEF ClientRead, dirs, handlers, clients, scans, history, At, C
<1>2. HandlersType'
  BY <1>1, HandlersAssumption, ClientThreads DEF HandlersInv, HandlersType, HandlerStates, ClientStates
<1>3. ClientsInOrder'
  BY <1>1, ClientThreads DEF HandlersInv, HandlersType, ClientsInOrder, HandlerStates
<1>4. Apart'
  BY <1>1 DEF HandlersInv, Apart
<1>5. NothingStranded'
  BY <1>1, ClientThreads DEF HandlersInv, HandlersType, ClientsInOrder, NothingStranded, Pending
<1>6. OneAtWork'
  BY <1>1 DEF HandlersInv, HandlersType, ClientsInOrder, OneAtWork, Working
<1>7. GoneOnlyByOverlap'
  BY <1>1 DEF HandlersInv, GoneOnlyByOverlap
<1>. QED
  BY <1>2, <1>3, <1>4, <1>5, <1>6, <1>7 DEF HandlersInv

LEMMA ClientSendKeeps ==
  ASSUME HandlersInv, NEW h \in Handler, ClientSend(h)
  PROVE  HandlersInv'
<1>1. /\ UNCHANGED <<afp, org, pc, cst, must, seen, gone, failed, alone>>
      /\ held[h] # {}
      /\ main' = main \cup held[h] /\ held' = [held EXCEPT ![h] = {}]
  BY DEF ClientSend, dirs, handlers, clients, scans, history, At, C
<1>2. HandlersType'
  BY <1>1, HandlersAssumption, ClientThreads DEF HandlersInv, HandlersType, HandlerStates, ClientStates
<1>3. ClientsInOrder'
  BY <1>1, ClientThreads DEF HandlersInv, HandlersType, ClientsInOrder, HandlerStates
<1>4. Apart'
  BY <1>1 DEF HandlersInv, Apart
<1>5. NothingStranded'
  BY <1>1, ClientThreads DEF HandlersInv, HandlersType, ClientsInOrder, NothingStranded, Pending
<1>6. OneAtWork'
  BY <1>1 DEF HandlersInv, HandlersType, ClientsInOrder, OneAtWork, Working
<1>7. GoneOnlyByOverlap'
  BY <1>1 DEF HandlersInv, GoneOnlyByOverlap
<1>. QED
  BY <1>2, <1>3, <1>4, <1>5, <1>6, <1>7 DEF HandlersInv

LEMMA ClientSendFailsKeeps ==
  ASSUME HandlersInv, NEW h \in Handler, ClientSendFails(h)
  PROVE  HandlersInv'
<1>1. /\ UNCHANGED <<afp, org, main, pc, cst, must, seen, gone, alone>>
      /\ held[h] # {}
      /\ failed' = failed \cup held[h] /\ held' = [held EXCEPT ![h] = {}]
  BY DEF ClientSendFails, dirs, handlers, clients, scans, history, At, C
<1>2. HandlersType'
  BY <1>1, HandlersAssumption, ClientThreads DEF HandlersInv, HandlersType, HandlerStates, ClientStates
<1>3. ClientsInOrder'
  BY <1>1, ClientThreads DEF HandlersInv, HandlersType, ClientsInOrder, HandlerStates
<1>4. Apart'
  BY <1>1 DEF HandlersInv, Apart
<1>5. NothingStranded'
  BY <1>1, ClientThreads DEF HandlersInv, HandlersType, ClientsInOrder, NothingStranded, Pending
<1>6. OneAtWork'
  BY <1>1 DEF HandlersInv, HandlersType, ClientsInOrder, OneAtWork, Working
<1>7. GoneOnlyByOverlap'
  BY <1>1 DEF HandlersInv, GoneOnlyByOverlap
<1>. QED
  BY <1>2, <1>3, <1>4, <1>5, <1>6, <1>7 DEF HandlersInv

\* A client that ends has read every file it has to.
LEMMA ClientEndKeeps ==
  ASSUME HandlersInv, NEW h \in Handler, ClientEnd(h)
  PROVE  HandlersInv'
<1>1. /\ UNCHANGED <<afp, org, main, pc, held, must, seen, gone, failed, alone>>
      /\ cst[h] = "run" /\ cst' = [cst EXCEPT ![h] = "done"]
      /\ held[h] = {} /\ must[C(h)] \subseteq seen[C(h)]
  BY DEF ClientEnd, dirs, handlers, clients, scans, history, At, C, Ends
<1>2. HandlersType'
  BY <1>1, HandlersAssumption, ClientThreads DEF HandlersInv, HandlersType, HandlerStates, ClientStates
<1>3. ClientsInOrder'
  BY <1>1, ClientThreads DEF HandlersInv, HandlersType, ClientsInOrder, HandlerStates
<1>4. Apart'
  BY <1>1 DEF HandlersInv, Apart
<1>5. NothingStranded'
  BY <1>1, ClientThreads DEF HandlersInv, HandlersType, ClientsInOrder, NothingStranded, Pending
<1>6. OneAtWork'
  BY <1>1 DEF HandlersInv, HandlersType, ClientsInOrder, OneAtWork, Working
<1>7. GoneOnlyByOverlap'
  BY <1>1 DEF HandlersInv, GoneOnlyByOverlap
<1>. QED
  BY <1>2, <1>3, <1>4, <1>5, <1>6, <1>7 DEF HandlersInv

\* What nobody is going to send any more is in failed.
LEMMA RestartKeeps ==
  ASSUME HandlersInv, Restart
  PROVE  HandlersInv'
<1>1. /\ UNCHANGED <<afp, org, main, must, seen, gone, alone>>
      /\ failed' = failed \cup ((org \cup UNION {held[h] : h \in Handler}) \ main)
      /\ pc' = [h \in Handler |-> IF pc[h] \in {"idle", "end"} THEN pc[h] ELSE "dead"]
      /\ cst' = [h \in Handler |-> IF cst[h] = "none" THEN "none" ELSE "done"]
      /\ held' = [h \in Handler |-> {}]
  BY DEF Restart, dirs, handlers, clients, scans, history, At, C
<1>2. HandlersType'
  BY <1>1, HandlersAssumption, ClientThreads DEF HandlersInv, HandlersType, HandlerStates, ClientStates
<1>3. ClientsInOrder'
  BY <1>1, ClientThreads DEF HandlersInv, HandlersType, ClientsInOrder, HandlerStates
<1>4. Apart'
  BY <1>1 DEF HandlersInv, Apart
<1>5. NothingStranded'
  BY <1>1, ClientThreads DEF HandlersInv, HandlersType, ClientsInOrder, NothingStranded, Pending
<1>6. OneAtWork'
  BY <1>1 DEF HandlersInv, HandlersType, ClientsInOrder, OneAtWork, Working
<1>7. GoneOnlyByOverlap'
  BY <1>1 DEF HandlersInv, GoneOnlyByOverlap
<1>. QED
  BY <1>2, <1>3, <1>4, <1>5, <1>6, <1>7 DEF HandlersInv

LEMMA HandlersInit == Init => HandlersInv
<1> SUFFICES ASSUME Init
             PROVE  HandlersInv
  OBVIOUS
<1>1. /\ HandlersType /\ ClientsInOrder /\ Apart /\ GoneOnlyByOverlap
  BY ClientThreads DEF Init, HandlersType, ClientsInOrder, Apart, GoneOnlyByOverlap, HandlerStates, ClientStates
<1>2. NothingStranded /\ Working = {}
  BY DEF Init, NothingStranded, Working
<1>. QED
  BY <1>1, <1>2 DEF HandlersInv, OneAtWork

LEMMA HandlersNext == HandlersInv /\ [Next]_vars => HandlersInv'
<1> SUFFICES ASSUME HandlersInv, [Next]_vars
             PROVE  HandlersInv'
  OBVIOUS
<1>1. ASSUME NEW h \in Handler, HandlerStep(h)
      PROVE  HandlersInv'
  BY <1>1, TopOpenKeeps, TopCloseKeeps, EmptyOpenKeeps, EmptyOpenFailsKeeps, EmptyKeeps,
     ReadTopKeeps, ReadTopFailsKeeps, RenameKeeps, StartKeeps DEF HandlerStep
<1>2. ASSUME NEW h \in Handler, ClientStep(h)
      PROVE  HandlersInv'
  BY <1>2, ClientOpenKeeps, ClientOpenFailsKeeps, ClientSendKeeps, ClientSendFailsKeeps,
     ClientEndKeeps, ClientReadKeeps DEF ClientStep
<1>3. CASE Restart
  BY <1>3, RestartKeeps
<1>4. CASE UNCHANGED vars
  BY <1>4 DEF vars, dirs, handlers, clients, scans, history, HandlersInv, HandlersType,
     ClientsInOrder, Apart, NothingStranded, Pending, OneAtWork, Working, GoneOnlyByOverlap
<1>. QED
  BY <1>1, <1>2, <1>3, <1>4 DEF Next

-----------------------------------------------------------------------------
\* However many Preconf handlers and clients overlap, in whatever order they
\* open, empty, rename and send, a file with no error is in AFP_DIR, at the
\* main cache or about to be sent, or another handler has removed it.
THEOREM NoneStranded == Spec => []NothingStranded
<1>1. HandlersInv => NothingStranded
  BY DEF HandlersInv
<1>. QED
  BY <1>1, HandlersInit, HandlersNext, PTL DEF Spec

\* movAfpFile removes a file that was not sent only if a Preconf began while
\* another one or its client was at work, or after an error.
THEOREM OneByOneIsSafe == Spec => []GoneOnlyByOverlap
<1>1. HandlersInv => GoneOnlyByOverlap
  BY DEF HandlersInv
<1>. QED
  BY <1>1, HandlersInit, HandlersNext, PTL DEF Spec

-----------------------------------------------------------------------------
(* What the group takes, it reports *)

\* The lists that are in topAfpsFile.tmp, or were: those that are reported,
\* and those of handlers that died before.  The names in them.
Made == {h \in Handler : pc[h] \notin {"idle", "write"}}
Said == UNION {ToSet(own[h]) : h \in Made}

\* Whatever topAfpsFile.tmp holds, and whoever reads it, its names are those
\* of such lists, once a handler has truncated it.
SaidInv ==
  /\ pc \in [Handler -> HandlerStates] /\ own \in [Handler -> Seq(Files)]
  /\ top \in Seq(Files) /\ lines \in [Handler -> Seq(Files)]
  /\ \A h \in Handler : pc[h] # "idle" => ToSet(top) \subseteq Said
  /\ \A h \in Handler : ToSet(lines[h]) \subseteq Said
  /\ Files \ afp \subseteq Said

\* What is said stays so.
LEMMA SaidGrows ==
  ASSUME \A h \in Handler : h \in Made => h \in Made' /\ own'[h] = own[h]
  PROVE  Said \subseteq Said'
BY DEF Said, Made

LEMMA ListsType ==
  ASSUME NEW l \in Lists
  PROVE  l \in Seq(Files)
<1>1. PICK T \in SUBSET Files : l \in SetToSeqs(T)
  BY DEF Lists
<1>2. Cardinality(T) \in Nat
  BY <1>1, HandlersAssumption, FS_Subset, FS_CardinalityType
<1>3. l \in [1..Cardinality(T) -> Files]
  BY <1>1 DEF SetToSeqs
<1>. QED
  BY <1>2, <1>3

\* The steps that leave the lists and AFP_DIR as they are.
LEMMA SaidFrame ==
  ASSUME SaidInv, UNCHANGED <<afp, top, own, lines>>,
         pc' \in [Handler -> HandlerStates],
         \A h \in Handler : /\ pc'[h] = "idle" <=> pc[h] = "idle"
                            /\ pc'[h] = "write" => pc[h] = "write"
  PROVE  SaidInv'
<1>1. Said \subseteq Said'
  BY SaidGrows DEF Made
<1>. QED
  BY <1>1 DEF SaidInv

LEMMA TopOpenSays ==
  ASSUME SaidInv, NEW h \in Handler, TopOpen(h)
  PROVE  SaidInv'
<1>1. PICK l \in Lists : /\ own' = [own EXCEPT ![h] = l]
                         /\ pc[h] = "idle" /\ pc' = [pc EXCEPT ![h] = IF l = <<>> THEN "end" ELSE "write"]
  BY DEF TopOpen, At
<1>2. top' = <<>> /\ UNCHANGED <<afp, lines>>
  BY DEF TopOpen, Opened, dirs
<1>3. l \in Seq(Files)
  BY ListsType
<1>4. Said \subseteq Said'
  BY <1>1, SaidGrows DEF SaidInv, Made
<1>5. pc' \in [Handler -> HandlerStates] /\ own' \in [Handler -> Seq(Files)]
  BY <1>1, <1>3 DEF SaidInv, HandlerStates
<1>6. top' \in Seq(Files) /\ ToSet(top') = {}
  BY <1>2 DEF ToSet
<1>. QED
  BY <1>2, <1>4, <1>5, <1>6 DEF SaidInv

\* What is written over the end of another list are names of both.
LEMMA WrittenNames ==
  ASSUME NEW old \in Seq(Files), NEW text \in Seq(Files)
  PROVE  /\ Written(old, text) \in Seq(Files)
         /\ ToSet(Written(old, text)) \subseteq ToSet(old) \cup ToSet(text)
<1> DEFINE end == SubSeq(old, Len(text) + 1, Len(old))
<1>1. end \in Seq(Files) /\ \A i \in DOMAIN end : end[i] \in ToSet(old)
  BY DEF ToSet
<1> HIDE DEF end
<1>2. \A i \in DOMAIN (text \o end) : (text \o end)[i] \in ToSet(old) \cup ToSet(text)
  BY <1>1 DEF ToSet
<1>. QED
  BY <1>1, <1>2 DEF Written, ToSet, end

LEMMA TopCloseSays ==
  ASSUME SaidInv, NEW h \in Handler, TopClose(h)
  PROVE  SaidInv'
<1>1. /\ pc[h] = "write" /\ pc' = [pc EXCEPT ![h] = "empty"]
      /\ top' = Written(top, own[h]) /\ UNCHANGED <<afp, own, lines>>
  BY DEF TopClose, At, dirs
<1>2. Said \subseteq Said'
  BY <1>1, SaidGrows DEF SaidInv, Made
<1>3. ToSet(own[h]) \subseteq Said'
  <2>1. h \in Made' /\ own'[h] = own[h]
    BY <1>1 DEF SaidInv, Made
  <2>. QED
    BY <2>1 DEF Said
<1>4. ToSet(top) \subseteq Said
  BY <1>1 DEF SaidInv
<1>5. top' \in Seq(Files) /\ ToSet(top') \subseteq ToSet(top) \cup ToSet(own[h])
  BY <1>1, WrittenNames DEF SaidInv
<1>6. pc' \in [Handler -> HandlerStates]
  BY <1>1 DEF SaidInv, HandlerStates
<1>. QED
  BY <1>1, <1>2, <1>3, <1>4, <1>5, <1>6 DEF SaidInv

LEMMA ReadTopSays ==
  ASSUME SaidInv, NEW h \in Handler, ReadTop(h)
  PROVE  SaidInv'
<1>1. /\ pc[h] = "emptying" /\ pc' = [pc EXCEPT ![h] = "rename"]
      /\ lines' = [lines EXCEPT ![h] = top] /\ UNCHANGED <<afp, own, top>>
  BY DEF ReadTop, At, dirs
<1>2. Said \subseteq Said'
  BY <1>1, SaidGrows DEF SaidInv, Made
<1>3. ToSet(top) \subseteq Said
  BY <1>1 DEF SaidInv
<1>4. pc' \in [Handler -> HandlerStates] /\ lines' \in [Handler -> Seq(Files)]
  BY <1>1 DEF SaidInv, HandlerStates
<1>5. \A k \in Handler : ToSet(lines'[k]) \subseteq Said
  BY <1>1, <1>3 DEF SaidInv
<1>6. \A k \in Handler : pc'[k] # "idle" => pc[k] # "idle"
  BY <1>1 DEF SaidInv
<1>. QED
  BY <1>1, <1>2, <1>4, <1>5, <1>6 DEF SaidInv

LEMMA RenameSays ==
  ASSUME SaidInv, NEW h \in Handler, Rename(h)
  PROVE  SaidInv'
<1>1. /\ lines[h] # <<>> /\ lines' = [lines EXCEPT ![h] = Tail(lines[h])]
      /\ afp \ afp' \subseteq {Head(lines[h])} /\ UNCHANGED <<pc, own, top>>
  BY DEF Rename, SaidInv
<1>2. Said' = Said
  BY <1>1 DEF Said, Made
<1>3. lines[h] \in Seq(Files) /\ ToSet(lines[h]) \subseteq Said
  BY DEF SaidInv
<1>4. Head(lines[h]) \in Said /\ ToSet(Tail(lines[h])) \subseteq Said /\ Tail(lines[h]) \in Seq(Files)
  BY <1>1, <1>3 DEF ToSet
<1>. QED
  BY <1>1, <1>2, <1>4 DEF SaidInv

LEMMA RestartSays ==
  ASSUME SaidInv, Restart
  PROVE  SaidInv'
<1>1. /\ pc' = [h \in Handler |-> IF pc[h] \in {"idle", "end"} THEN pc[h] ELSE "dead"]
      /\ own' = [h \in Handler |-> IF pc[h] = "write" THEN <<>> ELSE own[h]]
      /\ lines' = [h \in Handler |-> <<>>] /\ UNCHANGED <<afp, top>>
  BY DEF Restart, dirs
<1>2. Said \subseteq Said'
  BY <1>1, SaidGrows DEF SaidInv, Made
<1>3. pc' \in [Handler -> HandlerStates] /\ own' \in [Handler -> Seq(Files)]
  BY <1>1 DEF SaidInv, HandlerStates
<1>4. \A k \in Handler : lines'[k] \in Seq(Files) /\ ToSet(lines'[k]) = {}
  BY <1>1 DEF ToSet
<1>5. lines' \in [Handler -> Seq(Files)]
  BY <1>1
<1>. QED
  BY <1>1, <1>2, <1>3, <1>4, <1>5 DEF SaidInv

LEMMA SaidInit == Init => SaidInv
<1> SUFFICES ASSUME Init
             PROVE  SaidInv
  OBVIOUS
<1>1. top \in Seq(Files)
  BY ListsType DEF Init
<1>2. ToSet(<<>>) = {}
  BY DEF ToSet
<1>. QED
  BY <1>1, <1>2 DEF Init, SaidInv, HandlerStates

LEMMA SaidNext == SaidInv /\ [Next]_vars => SaidInv'
<1> SUFFICES ASSUME SaidInv, [Next]_vars
             PROVE  SaidInv'
  OBVIOUS
<1>1. ASSUME NEW h \in Handler, EmptyOpen(h) \/ EmptyOpenFails(h)
      PROVE  SaidInv'
  BY <1>1, SaidFrame DEF EmptyOpen, EmptyOpenFails, At, SaidInv, HandlerStates, dirs
<1>2. ASSUME NEW h \in Handler, ReadTopFails(h) \/ Start(h)
      PROVE  SaidInv'
  BY <1>2, SaidFrame DEF ReadTopFails, Start, At, SaidInv, HandlerStates, dirs
<1>3. ASSUME NEW h \in Handler, NEW f \in Files, Empty(h, f)
      PROVE  SaidInv'
  BY <1>3, SaidFrame DEF Empty, SaidInv, handlers
<1>4. ASSUME NEW h \in Handler, ClientStep(h)
      PROVE  SaidInv'
  BY <1>4, SaidFrame DEF ClientStep, ClientOpen, ClientOpenFails, ClientSend, ClientSendFails, ClientEnd,
     ClientRead, SaidInv, handlers, dirs
<1>5. CASE UNCHANGED vars
  BY <1>5, SaidFrame DEF vars, SaidInv, handlers, dirs
<1>. QED
  BY <1>1, <1>2, <1>3, <1>4, <1>5, TopOpenSays, TopCloseSays, ReadTopSays, RenameSays,
     RestartSays DEF Next, HandlerStep

\* As many names are said as lines reported, at most, beside those of handlers
\* that died.
LEMMA SaidCounts ==
  ASSUME SaidInv, NEW S, S \subseteq Said \ Unreported
  PROVE  Cardinality(S) <= Cardinality(Reported)
<1> DEFINE line(f) == CHOOSE r \in Reported : own[r[1]][r[2]] = f
           where == [f \in S |-> line(f)]
<1>1. IsFiniteSet(Reported)
  <2>1. \A h \in Listed : IsFiniteSet({h} \X DOMAIN own[h])
    <3> SUFFICES ASSUME NEW h \in Listed
                 PROVE  IsFiniteSet({h} \X DOMAIN own[h])
      OBVIOUS
    <3> DEFINE n == Len(own[h])
    <3>1. n \in Nat /\ DOMAIN own[h] = 1..n
      BY DEF SaidInv, Listed
    <3> HIDE DEF n
    <3>2. IsFiniteSet(1..n)
      BY <3>1, FS_Interval
    <3>. QED
      BY <3>1, <3>2, FS_Singleton, FS_Product
  <2>2. IsFiniteSet(Listed)
    BY HandlersAssumption, FS_Subset DEF Listed
  <2>3. IsFiniteSet({{h} \X DOMAIN own[h] : h \in Listed})
    <3> DEFINE T == {{h} \X DOMAIN own[h] : h \in Listed}
               part == [h \in Listed |-> {h} \X DOMAIN own[h]]
    <3>1. part \in Surjection(Listed, T)
      BY DEF Surjection
    <3> HIDE DEF part, T
    <3>2. IsFiniteSet(T)
      BY <2>2, <3>1, FS_Surjection
    <3>. QED
      BY <3>2 DEF T
  <2>4. \A P \in {{h} \X DOMAIN own[h] : h \in Listed} : IsFiniteSet(P)
    BY <2>1
  <2>. QED
    BY <2>3, <2>4, FS_UNION DEF Reported
<1>2. \A f \in S : \E r \in Reported : own[r[1]][r[2]] = f
  <2> SUFFICES ASSUME NEW f \in S
               PROVE  \E r \in Reported : own[r[1]][r[2]] = f
    OBVIOUS
  <2>1. PICK h \in Listed : f \in ToSet(own[h])
    BY DEF Said, Made, Listed, Unreported
  <2>2. PICK j \in DOMAIN own[h] : own[h][j] = f
    BY <2>1 DEF ToSet
  <2>3. <<h, j>> \in Reported
    BY <2>2 DEF Reported
  <2>4. own[<<h, j>>[1]][<<h, j>>[2]] = f
    BY <2>2
  <2>. QED
    BY <2>3, <2>4
<1>3. \A f \in S : where[f] \in Reported /\ own[where[f][1]][where[f][2]] = f
  BY <1>2
<1>4. where \in Injection(S, Reported)
  <2>1. where \in [S -> Reported]
    BY <1>3
  <2> HIDE DEF where
  <2>. QED
    BY <1>3, <2>1 DEF Injection, IsInjective
<1> HIDE DEF where
<1>. QED
  BY <1>1, <1>4, FS_Injection

\* Whatever movAfpFile reads from the file that the handlers share, the group
\* gives up no more files than the handlers report to the main cache together,
\* beside those in the list of a handler that died before its reply.
THEOREM TakenIsReported == Spec => []ReportsCover
<1>1. SaidInv => ReportsCover
  <2> SUFFICES ASSUME SaidInv
               PROVE  ReportsCover
    OBVIOUS
  <2>1. (Files \ afp) \ Unreported \subseteq Said \ Unreported
    BY DEF SaidInv
  <2>. QED
    BY <2>1, SaidCounts DEF ReportsCover
<1>. QED
  BY <1>1, SaidInit, SaidNext, PTL DEF Spec
=============================================================================
