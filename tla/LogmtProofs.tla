---------------------------- MODULE LogmtProofs ----------------------------
(***************************************************************************)
(* Proofs about Logmt: what gets into a log file, for any threads, lines,  *)
(* limit, clock and failures.                                              *)
(***************************************************************************)
EXTENDS Logmt, SequenceTheorems, TLAPS

Lines == Node \cup {NULL}
File == Seq(Lines)

\* A line in the hand of a thread is a node.
QueueType ==
  /\ q \in Seq(Node)
  /\ hand \in [Producer \cup {Logger} -> Lines]

\* mtlogthr begins a file when its count is 0, and a line that it counts makes
\* the file no longer than the count says; server.log that it has not begun
\* itself is within the limit.
CountFits ==
  /\ count \in 0..(MAX_LOG_CUNT - 1)
  /\ live # NULL => live \in File /\ Len(live) <= MAX_LOG_CUNT
  /\ pc \in {"rename", "open"} => count = 0
  /\ pc = "write" \/ (pc = "get" /\ count # 0) => live \in File /\ Len(live) <= count
  /\ pc \in {"get", "rename", "open", "write"}

\* So is every rotated file.
OldFit ==
  /\ DOMAIN old = Seconds
  /\ \A s \in Seconds : old[s] \in File /\ Len(old[s]) <= MAX_LOG_CUNT

FitInv == QueueType /\ CountFits /\ OldFit

LEMMA QueueKept == FitInv /\ [Next]_vars => QueueType'
<1> SUFFICES ASSUME QueueType, [Next]_vars
             PROVE  QueueType'
  BY DEF FitInv
<1>1. Logger \notin Producer /\ NULL \notin Node
  BY LogmtAssumption
<1>2. CASE UNCHANGED queue
  BY <1>2 DEF QueueType, queue
<1>3. ASSUME NEW p \in Producer, NEW n \in Node, Queue!New(p, n)
      PROVE  QueueType'
  BY <1>3 DEF QueueType, Queue!New, Lines
<1>4. ASSUME NEW p \in Producer, Queue!Put(p)
      PROVE  QueueType'
  <2>1. hand[p] \in Node /\ q' = Append(q, hand[p]) /\ hand' = [hand EXCEPT ![p] = NULL]
    BY <1>4 DEF QueueType, Queue!Put, Lines
  <2>. QED
    BY <2>1 DEF QueueType, Lines
<1>5. CASE Queue!Get(Logger)
  <2>1. /\ q # <<>> /\ q' = Tail(q) /\ hand' = [hand EXCEPT ![Logger] = Head(q)]
    BY <1>5 DEF Queue!Get
  <2>2. Head(q) \in Node /\ Tail(q) \in Seq(Node)
    BY <2>1, HeadTailProperties DEF QueueType
  <2>. QED
    BY <2>1, <2>2 DEF QueueType, Lines
<1>6. CASE Queue!Delete(Logger)
  BY <1>6 DEF QueueType, Queue!Delete, Lines
<1>7. CASE Restart
  <2>1. q' = <<>> /\ hand' = [t \in DOMAIN hand |-> NULL]
    BY <1>7 DEF Restart
  <2>2. <<>> \in Seq(Node)
    OBVIOUS
  <2>. QED
    BY <2>1, <2>2 DEF QueueType, Lines
<1>. QED
  BY <1>2, <1>3, <1>4, <1>5, <1>6, <1>7
     DEF Next, New, Put, LogThread, Get, Rename, RenameFails, Open, Write, WriteFails,
         Tick, vars, queue

\* A line counted: the count is still below the limit, and the file as long.
LEMMA CountedFits ==
  ASSUME FitInv, pc = "write", NEW n \in Nat, n <= count
  PROVE  /\ Counted \in 0..(MAX_LOG_CUNT - 1) /\ n + 1 <= MAX_LOG_CUNT
         /\ Counted # 0 => n + 1 <= Counted
BY LogmtAssumption DEF FitInv, CountFits, Counted

LEMMA FitNext == FitInv /\ [Next]_vars => FitInv'
<1> SUFFICES ASSUME FitInv, [Next]_vars
             PROVE  CountFits' /\ OldFit'
  BY QueueKept DEF FitInv
<1>1. MAX_LOG_CUNT \in Nat \ {0}
  BY LogmtAssumption
<1>2. CASE UNCHANGED <<pc, count, live, old>>
  BY <1>2 DEF FitInv, CountFits, OldFit
<1>3. CASE Get
  <2>1. /\ pc = "get" /\ pc' = (IF count = 0 THEN "rename" ELSE "write")
        /\ UNCHANGED <<count, live, old>>
    BY <1>3 DEF Get, Step, files
  <2>. QED
    BY <2>1 DEF FitInv, CountFits, OldFit
<1>4. CASE Rename
  <2>1. pc = "rename" /\ pc' = "open" /\ count' = count
    BY <1>4 DEF Rename, Step
  <2>2. CASE live = NULL
    <3>1. UNCHANGED <<live, old>>
      BY <1>4, <2>2 DEF Rename, files
    <3>. QED
      BY <2>1, <3>1 DEF FitInv, CountFits, OldFit
  <2>3. CASE live # NULL
    <3>1. old' = [old EXCEPT ![now] = live] /\ live' = NULL
      BY <1>4, <2>3 DEF Rename, Name
    <3>2. live \in File /\ Len(live) <= MAX_LOG_CUNT
      BY <2>3 DEF FitInv, CountFits
    <3>3. OldFit'
      BY <3>1, <3>2 DEF FitInv, OldFit
    <3>. QED
      BY <2>1, <3>1, <3>3 DEF FitInv, CountFits
  <2>. QED
    BY <2>2, <2>3
<1>5. CASE RenameFails
  <2>1. pc = "rename" /\ pc' = "open" /\ UNCHANGED <<count, live, old>>
    BY <1>5 DEF RenameFails, Step, files
  <2>. QED
    BY <2>1 DEF FitInv, CountFits, OldFit
<1>6. CASE Open
  <2>1. pc = "open" /\ pc' = "write" /\ live' = <<>> /\ UNCHANGED <<count, old>>
    BY <1>6 DEF Open, Step
  <2>2. <<>> \in File /\ Len(<<>>) = 0
    BY DEF File
  <2>. QED
    BY <1>1, <2>1, <2>2 DEF FitInv, CountFits, OldFit
<1>7. CASE Write
  <2>1. /\ pc = "write" /\ pc' = "get" /\ live' = Append(live, hand[Logger])
        /\ count' = Counted /\ old' = old
    BY <1>7 DEF Write, Step
  <2>2. live \in File /\ Len(live) <= count /\ Len(live) \in Nat /\ hand[Logger] \in Lines
    BY <2>1 DEF FitInv, CountFits, QueueType, File
  <2>3. live' \in File /\ Len(live') = Len(live) + 1
    BY <2>1, <2>2, AppendProperties DEF File
  <2>. QED
    BY <2>1, <2>2, <2>3, CountedFits DEF FitInv, CountFits, OldFit
<1>8. CASE WriteFails
  <2>1. /\ pc = "write" /\ pc' = "get" /\ count' = Counted /\ UNCHANGED <<live, old>>
    BY <1>8 DEF WriteFails, Step, files
  <2>2. live \in File /\ Len(live) <= count /\ Len(live) \in Nat
    BY <2>1 DEF FitInv, CountFits, File
  <2>3. /\ Counted \in 0..(MAX_LOG_CUNT - 1) /\ Len(live) <= MAX_LOG_CUNT
        /\ Counted # 0 => Len(live) <= Counted
    <3>1. /\ Counted \in 0..(MAX_LOG_CUNT - 1) /\ Len(live) + 1 <= MAX_LOG_CUNT
          /\ Counted # 0 => Len(live) + 1 <= Counted
      BY <2>1, <2>2, CountedFits
    <3>. QED
      BY <1>1, <2>2, <3>1
  <2>. QED
    BY <2>1, <2>2, <2>3 DEF FitInv, CountFits, OldFit
<1>9. CASE Restart
  <2>1. pc' = "get" /\ count' = 0 /\ UNCHANGED <<live, old>>
    BY <1>9 DEF Restart, files
  <2>. QED
    BY <1>1, <2>1 DEF FitInv, CountFits, OldFit
<1>. QED
  BY <1>2, <1>3, <1>4, <1>5, <1>6, <1>7, <1>8, <1>9
     DEF Next, New, Put, LogThread, Tick, vars, files

LEMMA FitInit == Init => FitInv
<1> SUFFICES ASSUME Init
             PROVE  FitInv
  OBVIOUS
<1>1. <<>> \in Seq(Node) /\ <<>> \in Seq(Lines) /\ Len(<<>>) = 0
  OBVIOUS
<1>2. /\ q = <<>> /\ hand = [t \in Producer \cup {Logger} |-> NULL]
  BY DEF Init, Queue!Init, Queue!Thread
<1>3. QueueType
  BY <1>1, <1>2 DEF QueueType, Lines
<1>4. MAX_LOG_CUNT \in Nat \ {0}
  BY LogmtAssumption
<1>5. CountFits
  BY <1>4 DEF Init, CountFits
<1>6. OldFit
  BY <1>1, <1>4 DEF Init, OldFit, File
<1>. QED
  BY <1>3, <1>5, <1>6 DEF FitInv

\* No log file is longer than MAX_LOG_CUNT lines: not after failed renames and
\* writes, and not when the process dies in the middle of a file.
THEOREM NoFileTooLong == Spec => []FilesFit
<1>1. FitInv => FilesFit
  <2> SUFFICES ASSUME FitInv, NEW f \in {live} \cup {old[s] : s \in Seconds}
               PROVE  Len(Content(f)) <= MAX_LOG_CUNT
    BY DEF FilesFit
  <2>1. f # NULL => f \in File /\ Len(f) <= MAX_LOG_CUNT
    <3>1. CASE f = live
      BY <3>1 DEF FitInv, CountFits
    <3>2. CASE f \in {old[s] : s \in Seconds}
      BY <3>2 DEF FitInv, OldFit
    <3>. QED
      BY <3>1, <3>2
  <2>2. Len(<<>>) = 0 /\ 0 <= MAX_LOG_CUNT
    BY LogmtAssumption
  <2>. QED
    BY <2>1, <2>2 DEF Content
<1>. QED
  BY <1>1, FitInit, FitNext, PTL DEF Spec

-----------------------------------------------------------------------------
(* The lines are kept in order *)

\* What the places hold, before a step and after it.
LEMMA Holds ==
  /\ \A k \in Seconds : At(k) = old[k] /\ At(k)' = old'[k]
  /\ At(LastSecond + 1) = Content(live) /\ At(LastSecond + 1)' = Content(live')
  /\ At(LastSecond + 2) = (IF hand[Logger] = NULL THEN <<>> ELSE <<hand[Logger]>>)
  /\ At(LastSecond + 2)' = (IF hand'[Logger] = NULL THEN <<>> ELSE <<hand'[Logger]>>)
  /\ At(LastSecond + 3) = q /\ At(LastSecond + 3)' = q'
  /\ Places = Seconds \cup {LastSecond + 1, LastSecond + 2, LastSecond + 3}
<1>1. LastSecond \in Nat
  BY LogmtAssumption
<1>. QED
  BY <1>1 DEF At, Seconds, Places

LEMMA SpotsAre ==
  /\ \A a : a \in Spots <=> \E k \in Places : \E i \in DOMAIN At(k) : a = <<k, i>>
  /\ \A a : a \in Spots' <=> \E k \in Places : \E i \in DOMAIN At(k)' : a = <<k, i>>
BY DEF Spots

\* Every line that is left has come, by m, from a spot of its own, and in the
\* same order.
LEMMA OrderMoves ==
  ASSUME KeptInOrder, put' = put, lost \subseteq lost', NEW m,
         \A a \in Spots' : Line(a)' \notin lost' => m[a] \in Spots /\ Line(m[a]) = Line(a)',
         \A a, b \in Spots' :
           Line(a)' \notin lost' /\ Line(b)' \notin lost' /\ Earlier(a, b) => Earlier(m[a], m[b]),
         \A b \in Spots : Line(b) \notin lost' => \E a \in Spots' : Line(a)' = Line(b)
  PROVE  KeptInOrder'
<1> DEFINE Kept == {a \in Spots : Line(a) \notin lost}
           Left == {a \in Spots' : Line(a)' \notin lost'}
<1>1. /\ {Line(a) : a \in Kept} = ToSet(put) \ lost
      /\ \A a, b \in Kept : Earlier(a, b) =>
           \A i, j \in DOMAIN put : put[i] = Line(a) /\ put[j] = Line(b) => i < j
  BY DEF KeptInOrder
<1>2. \A a \in Left : m[a] \in Kept /\ Line(m[a]) = Line(a)'
  OBVIOUS
<1>3. \A b \in Kept : Line(b) \notin lost' => \E a \in Left : Line(a)' = Line(b)
  OBVIOUS
<1>4. {Line(a)' : a \in Left} = ToSet(put) \ lost'
  <2>1. \A a \in Left : Line(a)' \in ToSet(put) \ lost'
    BY <1>1, <1>2
  <2>2. \A n \in ToSet(put) \ lost' : \E a \in Left : Line(a)' = n
    BY <1>1, <1>3
  <2> HIDE DEF Left
  <2>. QED
    BY <2>1, <2>2
<1>5. \A a, b \in Left : Earlier(a, b) =>
        \A i, j \in DOMAIN put : put[i] = Line(a)' /\ put[j] = Line(b)' => i < j
  <2>1. \A a, b \in Left : Earlier(a, b) => Earlier(m[a], m[b])
    OBVIOUS
  <2> HIDE DEF Left, Kept
  <2>. QED
    BY <1>1, <1>2, <2>1
<1>. QED
  BY <1>4, <1>5 DEF KeptInOrder

\* Lines stay where they are, or are lost with their file.
LEMMA OrderStays ==
  ASSUME KeptInOrder, put' = put, lost \subseteq lost',
         \A k \in Places : At(k)' = At(k) \/ (At(k)' = <<>> /\ ToSet(At(k)) \subseteq lost')
  PROVE  KeptInOrder'
<1> DEFINE m == [a \in Spots' |-> a]
<1>1. \A a \in Spots' : a \in Spots /\ Line(a) = Line(a)'
  <2> SUFFICES ASSUME NEW k \in Places, NEW i \in DOMAIN At(k)'
               PROVE  <<k, i>> \in Spots /\ Line(<<k, i>>) = Line(<<k, i>>)'
    BY SpotsAre
  <2>1. At(k)' # <<>>
    OBVIOUS
  <2>2. At(k)' = At(k)
    BY <2>1
  <2>. QED
    BY <2>2, SpotsAre DEF Line
<1>2. \A b \in Spots : Line(b) \notin lost' => b \in Spots' /\ Line(b)' = Line(b)
  <2> SUFFICES ASSUME NEW k \in Places, NEW i \in DOMAIN At(k), Line(<<k, i>>) \notin lost'
               PROVE  <<k, i>> \in Spots' /\ Line(<<k, i>>)' = Line(<<k, i>>)
    BY SpotsAre
  <2>1. At(k)[i] \in ToSet(At(k)) /\ Line(<<k, i>>) = At(k)[i]
    BY DEF ToSet, Line
  <2>2. At(k)' = At(k)
    BY <2>1
  <2>. QED
    BY <2>2, SpotsAre DEF Line
<1>3. \A a \in Spots' : m[a] = a
  OBVIOUS
<1> HIDE DEF m
<1>. QED
  BY <1>1, <1>2, <1>3, OrderMoves

-----------------------------------------------------------------------------
(* The steps of the producers, of the log thread and of its failures *)

\* A line in hand has not been put, and is one producer's.
HandFresh ==
  /\ put \in Seq(Node)
  /\ \A p \in Producer : hand[p] # NULL => hand[p] \notin ToSet(put)
  /\ \A p, r \in Producer : hand[p] # NULL /\ hand[p] = hand[r] => p = r

\* The log thread has a line from get() to delete, and a file to write it to;
\* what it is going to truncate is lost.
LogThreadOK ==
  /\ pc = "get" <=> hand[Logger] = NULL
  /\ live # NULL => live \in Seq(Node)
  /\ pc = "write" \/ (pc = "get" /\ count # 0) => live # NULL
  /\ pc = "open" => live = NULL \/ ToSet(live) \subseteq lost

\* No file is named after a second to come, and one after this second only
\* when a rotation was in it.
NamesPast ==
  /\ now \in Seconds
  /\ \A s \in Seconds : old[s] \in Seq(Node)
  /\ \A s \in Seconds : s > now \/ (s = now /\ rotated # now) => old[s] = <<>>

OrderInv == FitInv /\ HandFresh /\ LogThreadOK /\ NamesPast /\ KeptInOrder

LEMMA NewOrders ==
  ASSUME OrderInv, NEW p \in Producer, NEW n \in Node, New(p, n)
  PROVE  (HandFresh /\ LogThreadOK /\ NamesPast /\ KeptInOrder)'
<1>1. /\ hand[p] = NULL /\ hand' = [hand EXCEPT ![p] = n] /\ n \notin ToSet(put)
      /\ \A r \in Producer : hand[r] # n
      /\ UNCHANGED <<q, pc, count, live, old, now, put, rotated, lost>>
  BY DEF New, Queue!New, Queue!Used, Queue!Thread, files, history
<1>2. hand'[Logger] = hand[Logger] /\ \A r \in Producer : hand'[r] = IF r = p THEN n ELSE hand[r]
  BY <1>1, LogmtAssumption DEF OrderInv, FitInv, QueueType
<1>3. HandFresh'
  BY <1>1, <1>2 DEF OrderInv, HandFresh
<1>4. LogThreadOK' /\ NamesPast'
  BY <1>1, <1>2 DEF OrderInv, LogThreadOK, NamesPast
<1>5. \A k \in Places : At(k)' = At(k)
  BY <1>1, <1>2, Holds
<1>. QED
  BY <1>1, <1>3, <1>4, <1>5, OrderStays DEF OrderInv

\* What is put comes last, in the queue and in the order of the puts.
LEMMA PutOrders ==
  ASSUME OrderInv, NEW p \in Producer, Put(p)
  PROVE  (HandFresh /\ LogThreadOK /\ NamesPast /\ KeptInOrder)'
<1> DEFINE x == hand[p]
<1>0. PICK last : last = <<LastSecond + 3, Len(q) + 1>>
  OBVIOUS
<1>1. /\ x # NULL /\ hand' = [hand EXCEPT ![p] = NULL]
      /\ q' = Append(q, x) /\ put' = Append(put, x)
      /\ UNCHANGED <<pc, count, live, old, now, rotated, lost>>
  BY DEF Put, Queue!Put, files
<1>2. hand'[Logger] = hand[Logger] /\ \A r \in Producer : hand'[r] = IF r = p THEN NULL ELSE hand[r]
  BY <1>1, LogmtAssumption DEF OrderInv, FitInv, QueueType
<1>3. /\ x \in Node /\ q \in Seq(Node) /\ put \in Seq(Node) /\ x \notin ToSet(put)
      /\ Len(put) \in Nat /\ Len(q) \in Nat /\ LastSecond \in Nat
  BY <1>1, LogmtAssumption DEF OrderInv, FitInv, QueueType, HandFresh, Lines
<1> HIDE DEF x
<1>4. /\ DOMAIN put' = DOMAIN put \cup {Len(put) + 1} /\ DOMAIN put = 1..Len(put)
      /\ put'[Len(put) + 1] = x /\ \A i \in DOMAIN put : put'[i] = put[i] /\ i < Len(put) + 1
      /\ put' \in Seq(Node) /\ ToSet(put') = ToSet(put) \cup {x}
  <2>1. /\ DOMAIN put' = DOMAIN put \cup {Len(put) + 1} /\ DOMAIN put = 1..Len(put)
        /\ put'[Len(put) + 1] = x /\ \A i \in DOMAIN put : put'[i] = put[i] /\ i < Len(put) + 1
        /\ put' \in Seq(Node)
    BY <1>1, <1>3
  <2>. QED
    BY <2>1 DEF ToSet
<1>5. /\ DOMAIN q' = DOMAIN q \cup {Len(q) + 1} /\ DOMAIN q = 1..Len(q)
      /\ q'[Len(q) + 1] = x /\ \A i \in DOMAIN q : q'[i] = q[i] /\ i < Len(q) + 1
  BY <1>1, <1>3
<1>6. HandFresh'
  BY <1>1, <1>2, <1>4 DEF OrderInv, HandFresh, x
<1>7. LogThreadOK' /\ NamesPast'
  BY <1>1, <1>2 DEF OrderInv, LogThreadOK, NamesPast
<1>8. \A k \in Places \ {LastSecond + 3} : At(k)' = At(k) /\ k < LastSecond + 3
  BY <1>1, <1>2, <1>3, Holds DEF Seconds
<1>9. \A a \in Spots : /\ a \in Spots' /\ Line(a)' = Line(a) /\ Earlier(a, last) /\ ~Earlier(last, a)
  <2> SUFFICES ASSUME NEW k \in Places, NEW i \in DOMAIN At(k)
               PROVE  /\ <<k, i>> \in Spots' /\ Line(<<k, i>>)' = Line(<<k, i>>)
                      /\ Earlier(<<k, i>>, last) /\ ~Earlier(last, <<k, i>>)
    BY SpotsAre
  <2>1. CASE k # LastSecond + 3
    <3>1. k < LastSecond + 3 /\ At(k)' = At(k) /\ k \in Int
      BY <1>3, <1>8, <2>1 DEF Places
    <3>. QED
      BY <1>0, <1>3, <3>1, SpotsAre DEF Line, Earlier
  <2>2. CASE k = LastSecond + 3
    <3>1. At(k) = q /\ At(k)' = q'
      BY <2>2, Holds
    <3>2. i \in DOMAIN q' /\ q'[i] = q[i] /\ i < Len(q) + 1 /\ i \in Int
      BY <1>3, <1>5, <3>1
    <3>. QED
      BY <1>0, <1>3, <2>2, <3>1, <3>2, SpotsAre DEF Line, Earlier
  <2>. QED
    BY <2>1, <2>2
<1>10. last \in Spots' /\ Line(last)' = x /\ \A a \in Spots' : a = last \/ a \in Spots
  <2>1. LastSecond + 3 \in Places /\ At(LastSecond + 3) = q /\ At(LastSecond + 3)' = q'
    BY Holds
  <2>2. last \in Spots' /\ Line(last)' = x
    BY <1>0, <1>5, <2>1, SpotsAre DEF Line
  <2>3. ASSUME NEW k \in Places, NEW i \in DOMAIN At(k)'
        PROVE  <<k, i>> = last \/ <<k, i>> \in Spots
    BY <1>0, <1>5, <1>8, <2>1, SpotsAre
  <2>. QED
    BY <2>2, <2>3, SpotsAre
<1> DEFINE Kept == {a \in Spots : Line(a) \notin lost}
           Left == {a \in Spots' : Line(a)' \notin lost}
<1>11. /\ {Line(a) : a \in Kept} = ToSet(put) \ lost
       /\ \A a, b \in Kept : Earlier(a, b) =>
            \A i, j \in DOMAIN put : put[i] = Line(a) /\ put[j] = Line(b) => i < j
  BY DEF OrderInv, KeptInOrder
<1>12. \A a \in Left : a = last \/ (a \in Kept /\ Line(a)' = Line(a))
  BY <1>9, <1>10
<1>13. \A a \in Kept : a \in Left /\ Line(a)' = Line(a) /\ Line(a) \in ToSet(put) /\ Line(a) # x
                      /\ ~Earlier(last, a)
  BY <1>3, <1>9, <1>11
<1>14. x \notin lost => last \in Left
  BY <1>10
<1>15. last \in Left => x \notin lost
  BY <1>10
<1>16. ~Earlier(last, last)
  BY <1>0, <1>3 DEF Earlier
<1>17. Line(last)' = x
  BY <1>10
<1> HIDE DEF Kept, Left
<1>18. {Line(a)' : a \in Left} = ToSet(put') \ lost
  BY <1>4, <1>11, <1>12, <1>13, <1>14, <1>15, <1>17
<1>19. \A a, b \in Left : Earlier(a, b) =>
         \A i, j \in DOMAIN put' : put'[i] = Line(a)' /\ put'[j] = Line(b)' => i < j
  <2> SUFFICES ASSUME NEW a \in Left, NEW b \in Left, Earlier(a, b),
                      NEW i \in DOMAIN put', NEW j \in DOMAIN put',
                      put'[i] = Line(a)', put'[j] = Line(b)'
               PROVE  i < j
    OBVIOUS
  <2>1. a \in Kept /\ Line(a)' = Line(a)
    BY <1>12, <1>13, <1>16
  <2>2. i \in DOMAIN put /\ put[i] = Line(a)
    BY <1>4, <1>13, <2>1
  <2>3. CASE b = last
    <3>1. j = Len(put) + 1
      <4>1. j \in DOMAIN put => put[j] \in ToSet(put)
        BY DEF ToSet
      <4>. QED
        BY <1>3, <1>4, <1>17, <2>3, <4>1
    <3>. QED
      BY <1>4, <2>2, <3>1
  <2>4. CASE b # last
    <3>1. b \in Kept /\ Line(b)' = Line(b)
      BY <1>12, <2>4
    <3>2. j \in DOMAIN put /\ put[j] = Line(b)
      BY <1>4, <1>13, <3>1
    <3>. QED
      BY <1>11, <2>1, <2>2, <3>1, <3>2
  <2>. QED
    BY <2>3, <2>4
<1>20. KeptInOrder'
  <2>1. lost' = lost
    BY <1>1
  <2>. QED
    BY <1>18, <1>19, <2>1 DEF KeptInOrder, Left
<1>. QED
  BY <1>6, <1>7, <1>20

LEMMA GetOrders ==
  ASSUME OrderInv, Get
  PROVE  (HandFresh /\ LogThreadOK /\ NamesPast /\ KeptInOrder)'
<1> DEFINE L == LastSecond
           m == [a \in Spots' |-> IF a[1] = L + 2 THEN <<L + 3, 1>>
                                  ELSE IF a[1] = L + 3 THEN <<L + 3, a[2] + 1>> ELSE a]
<1>1. /\ hand[Logger] = NULL /\ q # <<>> /\ hand' = [hand EXCEPT ![Logger] = Head(q)]
      /\ q' = Tail(q) /\ pc' \in {"rename", "write"} /\ (pc' = "write" => count # 0) /\ pc = "get"
      /\ UNCHANGED <<count, live, old, now, put, rotated, lost>>
  BY DEF Get, Step, Queue!Get, files, history
<1>2. /\ q \in Seq(Node) /\ Len(q) \in Nat /\ Len(q) > 0 /\ L \in Nat /\ NULL \notin Node
      /\ Logger \notin Producer
  BY <1>1, LogmtAssumption DEF OrderInv, FitInv, QueueType
<1>3. /\ DOMAIN q = 1..Len(q) /\ DOMAIN q' = 1..(Len(q) - 1)
      /\ \A i \in DOMAIN q' : q'[i] = q[i + 1]
      /\ Head(q) = q[1] /\ q[1] \in Node
  BY <1>1, <1>2
<1>4. hand'[Logger] = q[1] /\ \A p \in Producer : hand'[p] = hand[p]
  BY <1>1, <1>2, <1>3 DEF OrderInv, FitInv, QueueType
<1>5. HandFresh' /\ NamesPast'
  BY <1>1, <1>4 DEF OrderInv, HandFresh, NamesPast
<1>6. LogThreadOK'
  <2>1. pc' = "write" => live # NULL
    BY <1>1 DEF OrderInv, LogThreadOK
  <2>. QED
    BY <1>1, <1>2, <1>3, <1>4, <2>1 DEF OrderInv, LogThreadOK
<1>7. /\ \A k \in Seconds \cup {L + 1} : At(k)' = At(k)
      /\ At(L + 2) = <<>> /\ At(L + 2)' = <<q[1]>> /\ At(L + 3) = q /\ At(L + 3)' = q'
      /\ Places = Seconds \cup {L + 1, L + 2, L + 3}
  BY <1>1, <1>2, <1>3, <1>4, Holds
<1>8. \A k \in Seconds \cup {L + 1} : k \in Int /\ k < L + 2
  BY <1>2 DEF Seconds
<1>9. \A a \in Spots' :
        /\ m[a] \in Spots /\ Line(m[a]) = Line(a)'
        /\ \/ a[1] \in Seconds \cup {L + 1} /\ m[a] = a
           \/ a = <<L + 2, 1>> /\ m[a] = <<L + 3, 1>>
           \/ a[1] = L + 3 /\ a[2] \in Nat \ {0} /\ m[a] = <<L + 3, a[2] + 1>>
  <2> SUFFICES ASSUME NEW k \in Places, NEW i \in DOMAIN At(k)', NEW a, a = <<k, i>>, a \in Spots'
               PROVE  /\ m[a] \in Spots /\ Line(m[a]) = Line(a)'
                      /\ \/ a[1] \in Seconds \cup {L + 1} /\ m[a] = a
                         \/ a = <<L + 2, 1>> /\ m[a] = <<L + 3, 1>>
                         \/ a[1] = L + 3 /\ a[2] \in Nat \ {0} /\ m[a] = <<L + 3, a[2] + 1>>
    BY SpotsAre
  <2>1. a[1] = k /\ a[2] = i /\ Line(a)' = At(k)'[i]
    BY DEF Line
  <2>2. CASE k \in Seconds \cup {L + 1}
    <3>1. m[a] = a /\ a \in Spots
      BY <1>2, <1>7, <1>8, <2>1, <2>2, SpotsAre
    <3>2. Line(a) = At(k)[i]
      BY <2>1 DEF Line
    <3>. QED
      BY <1>7, <2>1, <2>2, <3>1, <3>2
  <2>3. CASE k = L + 2
    <3>1. i = 1 /\ At(k)'[i] = q[1] /\ m[a] = <<L + 3, 1>>
      BY <1>7, <2>1, <2>3
    <3>2. <<L + 3, 1>> \in Spots /\ Line(<<L + 3, 1>>) = q[1]
      BY <1>2, <1>3, <1>7, SpotsAre DEF Line
    <3>. QED
      BY <2>1, <2>3, <3>1, <3>2
  <2>4. CASE k = L + 3
    <3>1. /\ i \in Nat \ {0} /\ i + 1 \in DOMAIN q /\ At(k)'[i] = q[i + 1]
          /\ m[a] = <<L + 3, i + 1>>
      BY <1>2, <1>3, <1>7, <2>1, <2>4
    <3>2. <<L + 3, i + 1>> \in Spots /\ Line(<<L + 3, i + 1>>) = q[i + 1]
      BY <1>7, <3>1, SpotsAre DEF Line
    <3>. QED
      BY <2>1, <2>4, <3>1, <3>2
  <2>. QED
    BY <1>7, <2>2, <2>3, <2>4
<1>10. \A b \in Spots : \E a \in Spots' : Line(a)' = Line(b)
  <2> SUFFICES ASSUME NEW k \in Places, NEW i \in DOMAIN At(k)
               PROVE  \E a \in Spots' : Line(a)' = At(k)[i]
    BY SpotsAre DEF Line
  <2>1. CASE k \in Seconds \cup {L + 1}
    <3>1. <<k, i>> \in Spots' /\ Line(<<k, i>>)' = At(k)[i]
      BY <1>7, <2>1, SpotsAre DEF Line
    <3>. QED
      BY <3>1
  <2>2. CASE k = L + 3 /\ i = 1
    <3>1. <<L + 2, 1>> \in Spots' /\ Line(<<L + 2, 1>>)' = q[1]
      BY <1>7, SpotsAre DEF Line
    <3>. QED
      BY <1>7, <2>2, <3>1
  <2>3. CASE k = L + 3 /\ i # 1
    <3>1. i - 1 \in DOMAIN q' /\ q'[i - 1] = q[i]
      BY <1>2, <1>3, <1>7, <2>3
    <3>2. <<L + 3, i - 1>> \in Spots' /\ Line(<<L + 3, i - 1>>)' = q[i]
      BY <1>7, <3>1, SpotsAre DEF Line
    <3>. QED
      BY <1>7, <2>3, <3>2
  <2>. QED
    BY <1>7, <2>1, <2>2, <2>3
<1>11. \A a, b \in Spots' : Earlier(a, b) => Earlier(m[a], m[b])
  <2> HIDE DEF m
  <2>. QED
    BY <1>2, <1>8, <1>9 DEF Earlier
<1>12. KeptInOrder /\ put' = put /\ lost' = lost
  BY <1>1 DEF OrderInv
<1> HIDE DEF m
<1>13. KeptInOrder'
  BY <1>9, <1>10, <1>11, <1>12, OrderMoves
<1>. QED
  BY <1>5, <1>6, <1>13

\* The line in hand becomes the last of server.log.
LEMMA WriteOrders ==
  ASSUME OrderInv, Write
  PROVE  (HandFresh /\ LogThreadOK /\ NamesPast /\ KeptInOrder)'
<1> DEFINE L == LastSecond  n == Len(live) + 1  x == hand[Logger]
           m == [a \in Spots' |-> IF a = <<L + 1, n>> THEN <<L + 2, 1>> ELSE a]
<1>1. /\ pc = "write" /\ pc' = "get" /\ x # NULL /\ live' = Append(live, x)
      /\ hand' = [hand EXCEPT ![Logger] = NULL]
      /\ UNCHANGED <<q, old, now, put, rotated, lost>>
  BY DEF Write, Step, Queue!Delete, history
<1>2. /\ live \in Seq(Node) /\ n \in Nat \ {0} /\ x \in Node /\ L \in Nat
      /\ NULL \notin Node \cup Seq(Node) /\ Logger \notin Producer
  BY <1>1, LogmtAssumption DEF OrderInv, LogThreadOK, FitInv, QueueType, Lines
<1> HIDE DEF x
<1>3. /\ DOMAIN live = 1..(n - 1) /\ DOMAIN live' = 1..n /\ live' \in Seq(Node)
      /\ live'[n] = x /\ \A i \in DOMAIN live : live'[i] = live[i]
  BY <1>1, <1>2
<1>4. hand'[Logger] = NULL /\ \A p \in Producer : hand'[p] = hand[p]
  BY <1>1, <1>2 DEF OrderInv, FitInv, QueueType
<1> HIDE DEF n
<1>5. HandFresh' /\ NamesPast'
  BY <1>1, <1>4 DEF OrderInv, HandFresh, NamesPast
<1>6. LogThreadOK'
  BY <1>1, <1>2, <1>3, <1>4 DEF LogThreadOK
<1>7. /\ \A k \in Seconds \cup {L + 3} : At(k)' = At(k)
      /\ At(L + 1) = live /\ At(L + 1)' = live' /\ At(L + 2) = <<x>> /\ At(L + 2)' = <<>>
      /\ Places = Seconds \cup {L + 1, L + 2, L + 3}
  <2>1. live # NULL /\ live' # NULL
    BY <1>2, <1>3
  <2>. QED
    BY <1>1, <1>4, <2>1, Holds DEF Content, x
<1>8. /\ \A k \in Seconds : k \in Int /\ k < L + 1
      /\ \A i \in DOMAIN live : i \in Nat /\ i < n /\ i # n
  BY <1>2, <1>3 DEF Seconds
<1>9. \A a \in Spots' :
        /\ m[a] \in Spots /\ Line(m[a]) = Line(a)'
        /\ \/ a[1] \in Seconds \cup {L + 3} /\ m[a] = a
           \/ a = <<L + 1, n>> /\ m[a] = <<L + 2, 1>>
           \/ a[1] = L + 1 /\ a[2] \in Nat /\ a[2] < n /\ m[a] = a
  <2> SUFFICES ASSUME NEW k \in Places, NEW i \in DOMAIN At(k)', NEW a, a = <<k, i>>, a \in Spots'
               PROVE  /\ m[a] \in Spots /\ Line(m[a]) = Line(a)'
                      /\ \/ a[1] \in Seconds \cup {L + 3} /\ m[a] = a
                         \/ a = <<L + 1, n>> /\ m[a] = <<L + 2, 1>>
                         \/ a[1] = L + 1 /\ a[2] \in Nat /\ a[2] < n /\ m[a] = a
    BY SpotsAre
  <2>1. a[1] = k /\ a[2] = i /\ Line(a)' = At(k)'[i] /\ Line(a) = At(k)[i]
    BY DEF Line
  <2>2. CASE k \in Seconds \cup {L + 3}
    <3>1. m[a] = a /\ a \in Spots
      BY <1>2, <1>7, <1>8, <2>1, <2>2, SpotsAre
    <3>. QED
      BY <1>7, <2>1, <2>2, <3>1
  <2>3. CASE k = L + 1 /\ i = n
    <3>1. At(k)'[i] = x /\ m[a] = <<L + 2, 1>>
      BY <1>3, <1>7, <2>1, <2>3
    <3>2. <<L + 2, 1>> \in Spots /\ Line(<<L + 2, 1>>) = x
      BY <1>7, SpotsAre DEF Line
    <3>. QED
      BY <2>1, <2>3, <3>1, <3>2
  <2>4. CASE k = L + 1 /\ i # n
    <3>1. i \in DOMAIN live /\ At(k)'[i] = live[i] /\ m[a] = a
      BY <1>2, <1>3, <1>7, <2>1, <2>4
    <3>2. a \in Spots /\ Line(a) = live[i]
      BY <1>7, <2>1, <2>4, <3>1, SpotsAre
    <3>. QED
      BY <1>8, <2>1, <2>4, <3>1, <3>2
  <2>. QED
    BY <1>7, <2>2, <2>3, <2>4
<1>10. \A b \in Spots : \E a \in Spots' : Line(a)' = Line(b)
  <2> SUFFICES ASSUME NEW k \in Places, NEW i \in DOMAIN At(k)
               PROVE  \E a \in Spots' : Line(a)' = At(k)[i]
    BY SpotsAre DEF Line
  <2>1. CASE k \in Seconds \cup {L + 3}
    <3>1. <<k, i>> \in Spots' /\ Line(<<k, i>>)' = At(k)[i]
      BY <1>7, <2>1, SpotsAre DEF Line
    <3>. QED
      BY <3>1
  <2>2. CASE k = L + 1
    <3>1. i \in DOMAIN live' /\ live'[i] = live[i]
      BY <1>2, <1>3, <1>7, <2>2
    <3>2. <<L + 1, i>> \in Spots' /\ Line(<<L + 1, i>>)' = live[i]
      BY <1>7, <3>1, SpotsAre DEF Line
    <3>. QED
      BY <1>7, <2>2, <3>2
  <2>3. CASE k = L + 2
    <3>1. PICK a : a = <<L + 1, n>>
      OBVIOUS
    <3>2. a \in Spots' /\ Line(a)' = x
      BY <1>2, <1>3, <1>7, <3>1, SpotsAre DEF Line
    <3>3. At(k)[i] = x
      BY <1>7, <2>3
    <3>. QED
      BY <3>2, <3>3
  <2>. QED
    BY <1>7, <2>1, <2>2, <2>3
<1>11. \A a, b \in Spots' : Earlier(a, b) => Earlier(m[a], m[b])
  <2> HIDE DEF m
  <2>. QED
    BY <1>2, <1>8, <1>9 DEF Earlier
<1>12. KeptInOrder /\ put' = put /\ lost' = lost
  BY <1>1 DEF OrderInv
<1> HIDE DEF m
<1>13. KeptInOrder'
  BY <1>9, <1>10, <1>11, <1>12, OrderMoves
<1>. QED
  BY <1>5, <1>6, <1>13

LEMMA RenameOrders ==
  ASSUME OrderInv, Rename
  PROVE  (HandFresh /\ LogThreadOK /\ NamesPast /\ KeptInOrder)'
<1>0. PICK t : t = now
  OBVIOUS
<1> DEFINE L == LastSecond
           m == [a \in Spots' |-> IF a[1] = t THEN <<L + 1, a[2]>> ELSE a]
<1>1. pc = "rename" /\ pc' = "open" /\ UNCHANGED <<q, hand, count, now, put>>
  BY DEF Rename, Step, queue
<1>2. CASE live = NULL
  <2>1. UNCHANGED <<live, old, rotated, lost>>
    BY <1>2 DEF Rename, files
  <2>2. HandFresh' /\ LogThreadOK' /\ NamesPast'
    BY <1>1, <1>2, <2>1 DEF OrderInv, HandFresh, LogThreadOK, NamesPast
  <2>3. \A k \in Places : At(k)' = At(k)
    BY <1>1, <2>1, Holds
  <2>. QED
    BY <1>1, <2>1, <2>2, <2>3, OrderStays DEF OrderInv
<1>3. CASE live # NULL
  <2>1. /\ old' = [old EXCEPT ![now] = live] /\ live' = NULL /\ rotated' = now
        /\ lost' = IF rotated = now THEN lost \cup ToSet(old[now]) ELSE lost
    BY <1>3 DEF Rename, Name
  <2>2. /\ live \in Seq(Node) /\ now \in Seconds /\ L \in Nat /\ DOMAIN old = Seconds
        /\ \A s \in Seconds : s > now \/ (s = now /\ rotated # now) => old[s] = <<>>
    BY <1>3, LogmtAssumption DEF OrderInv, LogThreadOK, NamesPast, FitInv, OldFit
  <2>3. /\ old'[now] = live /\ \A s \in Seconds : s # now => old'[s] = old[s]
        /\ ToSet(<<>>) = {} /\ lost \subseteq lost' /\ ToSet(old[now]) \subseteq lost'
    BY <2>1, <2>2 DEF ToSet
  <2>4. HandFresh' /\ LogThreadOK'
    BY <1>1, <2>1, LogmtAssumption DEF OrderInv, HandFresh, LogThreadOK
  <2>5. NamesPast'
    <3>1. \A s \in Seconds : old'[s] \in Seq(Node)
      BY <2>2, <2>3 DEF OrderInv, NamesPast
    <3>2. \A s \in Seconds : s > now => old'[s] = <<>> /\ s # now
      BY <2>2, <2>3 DEF Seconds
    <3>. QED
      BY <1>1, <2>1, <2>2, <3>1, <3>2 DEF NamesPast
  <2>6. /\ \A k \in (Seconds \ {t}) \cup {L + 2, L + 3} : At(k)' = At(k)
        /\ At(t) = old[t] /\ At(t)' = live
        /\ At(L + 1) = live /\ At(L + 1)' = <<>>
        /\ \A k \in Seconds : k > t => At(k)' = <<>>
        /\ Places = Seconds \cup {L + 1, L + 2, L + 3}
    BY <1>0, <1>1, <1>3, <2>1, <2>2, <2>3, Holds DEF Content, Seconds
  <2>7. t < L + 1 /\ t \in Int /\ \A k \in Seconds : k \in Int /\ k < L + 1
    BY <1>0, <2>2 DEF Seconds
  <2>8. \A a \in Spots' :
          /\ m[a] \in Spots /\ Line(m[a]) = Line(a)'
          /\ \/ a[1] = t /\ a[2] \in Nat /\ m[a] = <<L + 1, a[2]>>
             \/ a[1] \in Seconds /\ a[1] < t /\ m[a] = a
             \/ a[1] \in {L + 2, L + 3} /\ m[a] = a
    <3> SUFFICES ASSUME NEW k \in Places, NEW i \in DOMAIN At(k)', NEW a, a = <<k, i>>, a \in Spots'
                 PROVE  /\ m[a] \in Spots /\ Line(m[a]) = Line(a)'
                        /\ \/ a[1] = t /\ a[2] \in Nat /\ m[a] = <<L + 1, a[2]>>
                           \/ a[1] \in Seconds /\ a[1] < t /\ m[a] = a
                           \/ a[1] \in {L + 2, L + 3} /\ m[a] = a
      BY SpotsAre
    <3>1. a[1] = k /\ a[2] = i /\ Line(a)' = At(k)'[i] /\ Line(a) = At(k)[i]
      BY DEF Line
    <3>2. At(k)' # <<>>
      OBVIOUS
    <3>3. CASE k = t
      <4>1. i \in DOMAIN live /\ i \in Nat /\ m[a] = <<L + 1, i>>
        BY <2>2, <2>6, <3>1, <3>3
      <4>2. <<L + 1, i>> \in Spots /\ Line(<<L + 1, i>>) = live[i]
        BY <2>6, <4>1, SpotsAre DEF Line
      <4>. QED
        BY <2>6, <3>1, <3>3, <4>1, <4>2
    <3>4. CASE k # t
      <4>1. k \in Seconds \/ k \in {L + 2, L + 3}
        BY <2>6, <3>2
      <4>2. k \in Seconds => k < t
        BY <2>6, <2>7, <3>2, <3>4
      <4>3. At(k)' = At(k) /\ m[a] = a
        BY <2>6, <3>1, <3>4, <4>1
      <4>4. a \in Spots
        BY <4>3, SpotsAre
      <4>. QED
        BY <3>1, <4>1, <4>2, <4>3, <4>4
    <3>. QED
      BY <3>3, <3>4
  <2>9. \A b \in Spots : Line(b) \notin lost' => \E a \in Spots' : Line(a)' = Line(b)
    <3> SUFFICES ASSUME NEW k \in Places, NEW i \in DOMAIN At(k), At(k)[i] \notin lost'
                 PROVE  \E a \in Spots' : Line(a)' = At(k)[i]
      BY SpotsAre DEF Line
    <3>1. CASE k = t
      BY <1>0, <2>3, <2>6, <3>1 DEF ToSet
    <3>2. CASE k = L + 1
      <4>1. PICK a : a = <<t, i>>
        OBVIOUS
      <4>2. a \in Spots' /\ Line(a)' = live[i]
        BY <1>0, <2>2, <2>6, <3>2, <4>1, SpotsAre DEF Line
      <4>. QED
        BY <2>6, <3>2, <4>2
    <3>3. CASE k \notin {t, L + 1}
      <4>1. At(k)' = At(k)
        BY <2>6, <3>3
      <4>2. <<k, i>> \in Spots' /\ Line(<<k, i>>)' = At(k)[i]
        BY <4>1, SpotsAre DEF Line
      <4>. QED
        BY <4>2
    <3>. QED
      BY <3>1, <3>2, <3>3
  <2>10. \A a, b \in Spots' : Earlier(a, b) => Earlier(m[a], m[b])
    <3>1. /\ L \in Int /\ t \in Int /\ t < L + 1
          /\ \A k \in Seconds : k \in Int /\ k < L + 1
      BY <2>2, <2>7
    <3>2. \A a \in Spots' :
             \/ a[1] = t /\ m[a] = <<L + 1, a[2]>>
             \/ a[1] \in Seconds /\ a[1] < t /\ m[a] = a
             \/ a[1] \in {L + 2, L + 3} /\ m[a] = a
      BY <2>8
    <3> HIDE DEF m, L
    <3>. QED
      BY <3>1, <3>2 DEF Earlier
  <2>11. KeptInOrder /\ put' = put /\ lost \subseteq lost'
    BY <1>1, <2>3 DEF OrderInv
  <2> HIDE DEF m
  <2>12. KeptInOrder'
    BY <2>8, <2>9, <2>10, <2>11, OrderMoves
  <2>. QED
    BY <2>4, <2>5, <2>12
<1>. QED
  BY <1>2, <1>3

LEMMA RenameFailsOrders ==
  ASSUME OrderInv, RenameFails
  PROVE  (HandFresh /\ LogThreadOK /\ NamesPast /\ KeptInOrder)'
<1>1. /\ pc = "rename" /\ pc' = "open" /\ lost' = lost \cup ToSet(live)
      /\ UNCHANGED <<q, hand, count, live, old, now, put, rotated>>
  BY DEF RenameFails, Step, queue, files
<1>2. HandFresh' /\ LogThreadOK' /\ NamesPast'
  BY <1>1 DEF OrderInv, HandFresh, LogThreadOK, NamesPast
<1>3. \A k \in Places : At(k)' = At(k)
  BY <1>1, Holds
<1>. QED
  BY <1>1, <1>2, <1>3, OrderStays DEF OrderInv

\* What fopen() truncates was lost before, or renamed.
LEMMA OpenOrders ==
  ASSUME OrderInv, Open
  PROVE  (HandFresh /\ LogThreadOK /\ NamesPast /\ KeptInOrder)'
<1>1. /\ pc = "open" /\ pc' = "write" /\ live' = <<>>
      /\ UNCHANGED <<q, hand, count, old, now, put, rotated, lost>>
  BY DEF Open, Step, queue, history
<1>2. /\ <<>> \in Seq(Node) /\ <<>> # NULL /\ ToSet(<<>>) = {}
  <2>1. NULL \notin Seq(Node) /\ <<>> \in Seq(Node)
    BY LogmtAssumption
  <2>2. ToSet(<<>>) = {}
    BY DEF ToSet
  <2>. QED
    BY <2>1, <2>2
<1>3. HandFresh' /\ LogThreadOK' /\ NamesPast'
  BY <1>1, <1>2 DEF OrderInv, HandFresh, LogThreadOK, NamesPast
<1>4. ToSet(Content(live)) \subseteq lost /\ Content(live') = <<>>
  BY <1>1, <1>2 DEF OrderInv, LogThreadOK, Content
<1>5. \A k \in Places : At(k)' = At(k) \/ (At(k)' = <<>> /\ ToSet(At(k)) \subseteq lost')
  BY <1>1, <1>4, Holds
<1>. QED
  BY <1>1, <1>3, <1>5, OrderStays DEF OrderInv

LEMMA WriteFailsOrders ==
  ASSUME OrderInv, WriteFails
  PROVE  (HandFresh /\ LogThreadOK /\ NamesPast /\ KeptInOrder)'
<1>1. /\ pc = "write" /\ pc' = "get" /\ lost' = lost \cup {hand[Logger]}
      /\ hand' = [hand EXCEPT ![Logger] = NULL] /\ hand[Logger] # NULL
      /\ UNCHANGED <<q, live, old, now, put, rotated>>
  BY DEF WriteFails, Step, Queue!Delete, files
<1>2. hand'[Logger] = NULL /\ \A p \in Producer : hand'[p] = hand[p]
  BY <1>1, LogmtAssumption DEF OrderInv, FitInv, QueueType
<1>3. HandFresh' /\ LogThreadOK' /\ NamesPast'
  BY <1>1, <1>2 DEF OrderInv, HandFresh, LogThreadOK, NamesPast
<1>4. ToSet(<<hand[Logger]>>) \subseteq lost'
  BY <1>1 DEF ToSet
<1>5. \A k \in Places : At(k)' = At(k) \/ (At(k)' = <<>> /\ ToSet(At(k)) \subseteq lost')
  BY <1>1, <1>2, <1>4, Holds
<1>. QED
  BY <1>1, <1>3, <1>5, OrderStays DEF OrderInv

LEMMA RestartOrders ==
  ASSUME OrderInv, Restart
  PROVE  (HandFresh /\ LogThreadOK /\ NamesPast /\ KeptInOrder)'
<1>1. /\ pc' = "get" /\ count' = 0 /\ q' = <<>> /\ hand' = [t \in DOMAIN hand |-> NULL]
      /\ lost' = lost \cup ((ToSet(q) \cup {hand[t] : t \in DOMAIN hand}) \ {NULL})
      /\ UNCHANGED <<live, old, now, put, rotated>>
  BY DEF Restart, files
<1>2. /\ DOMAIN hand = Producer \cup {Logger} /\ q \in Seq(Node) /\ NULL \notin Node
  BY LogmtAssumption DEF OrderInv, FitInv, QueueType
<1>3. \A t \in Producer \cup {Logger} : hand'[t] = NULL /\ (hand[t] # NULL => hand[t] \in lost')
  BY <1>1, <1>2
<1>4. ToSet(q) \subseteq lost'
  BY <1>1, <1>2 DEF ToSet
<1>5. HandFresh' /\ LogThreadOK' /\ NamesPast'
  BY <1>1, <1>3 DEF OrderInv, HandFresh, LogThreadOK, NamesPast
<1>6. ToSet(At(LastSecond + 2)) \subseteq lost'
  BY <1>3, Holds DEF ToSet
<1>7. \A k \in Places : At(k)' = At(k) \/ (At(k)' = <<>> /\ ToSet(At(k)) \subseteq lost')
  BY <1>1, <1>3, <1>4, <1>6, Holds
<1>. QED
  BY <1>1, <1>5, <1>7, OrderStays DEF OrderInv

LEMMA TickOrders ==
  ASSUME OrderInv, Tick
  PROVE  (HandFresh /\ LogThreadOK /\ NamesPast /\ KeptInOrder)'
<1>1. /\ now < LastSecond /\ now' = now + 1
      /\ UNCHANGED <<q, hand, pc, count, live, old, put, rotated, lost>>
  BY DEF Tick, queue, files, history
<1>2. HandFresh' /\ LogThreadOK'
  BY <1>1 DEF OrderInv, HandFresh, LogThreadOK
<1>3. NamesPast'
  BY <1>1, LogmtAssumption DEF OrderInv, NamesPast, Seconds
<1>4. \A k \in Places : At(k)' = At(k)
  BY <1>1, Holds
<1>. QED
  BY <1>1, <1>2, <1>3, <1>4, OrderStays DEF OrderInv

LEMMA OrderInit == Init => OrderInv
<1> SUFFICES ASSUME Init
             PROVE  OrderInv
  OBVIOUS
<1>1. /\ q = <<>> /\ hand = [t \in Producer \cup {Logger} |-> NULL]
      /\ pc = "get" /\ count = 0 /\ live = NULL /\ now = 0 /\ put = <<>> /\ lost = {}
      /\ old = [s \in Seconds |-> <<>>]
  BY DEF Init, Queue!Init, Queue!Thread
<1>2. HandFresh /\ LogThreadOK /\ NamesPast
  BY <1>1, LogmtAssumption DEF HandFresh, LogThreadOK, NamesPast, Seconds
<1>3. \A k \in Places : At(k) = <<>>
  BY <1>1, Holds DEF Content
<1>4. Spots = {}
  BY <1>3, SpotsAre
<1>5. ToSet(put) = {}
  BY <1>1 DEF ToSet
<1>. QED
  BY <1>1, <1>2, <1>4, <1>5, FitInit DEF OrderInv, KeptInOrder

LEMMA OrderNext == OrderInv /\ [Next]_vars => OrderInv'
<1> SUFFICES ASSUME OrderInv, [Next]_vars
             PROVE  (HandFresh /\ LogThreadOK /\ NamesPast /\ KeptInOrder)'
  BY FitNext DEF OrderInv
<1>1. CASE UNCHANGED vars
  <2>1. UNCHANGED <<q, hand, pc, count, live, old, now, put, rotated, lost>>
    BY <1>1 DEF vars, queue, files, history
  <2>2. HandFresh' /\ LogThreadOK' /\ NamesPast'
    BY <2>1 DEF OrderInv, HandFresh, LogThreadOK, NamesPast
  <2>3. \A k \in Places : At(k)' = At(k)
    BY <2>1, Holds
  <2>. QED
    BY <2>1, <2>2, <2>3, OrderStays DEF OrderInv
<1>. QED
  BY <1>1, NewOrders, PutOrders, GetOrders, RenameOrders, RenameFailsOrders, OpenOrders,
     WriteOrders, WriteFailsOrders, RestartOrders, TickOrders DEF Next, LogThread

\* Read in the order of their names and then server.log, the log files hold the
\* lines in the order in which they were put, each once; a line that is neither
\* there nor on its way is one that a failed call, a death of the process or a
\* second rotation in one second accounts for.
THEOREM LinesKeepOrder == Spec => []KeptInOrder
<1>1. OrderInv => KeptInOrder
  BY DEF OrderInv
<1>. QED
  BY <1>1, OrderInit, OrderNext, PTL DEF Spec
=============================================================================
