---------------------------- MODULE PqueueProofs ----------------------------
(***************************************************************************)
(* Proofs about Pqueue, for any number of threads, nodes and events.       *)
(***************************************************************************)
EXTENDS Pqueue, TLAPS, FiniteSetTheorems, WellFoundedInduction, SequenceTheorems

-----------------------------------------------------------------------------
(* Counting threads *)

PutStates == {"idle", "put", "waitfull", "wokenfull"}
GetStates == {"get", "waitfree", "wokenfree", "have", "stopped"}
States == PutStates \cup GetStates

LEMMA ThreadsFinite == IsFiniteSet(Thread)
BY PqueueAssumption, FS_Union DEF Thread

CountAt(f, x) == Cardinality({t \in Thread : f[t] = x})

LEMMA CountType ==
  ASSUME NEW f, NEW x
  PROVE  /\ IsFiniteSet({t \in Thread : f[t] = x}) /\ CountAt(f, x) \in Nat
         /\ CountAt(f, x) = 0 <=> {t \in Thread : f[t] = x} = {}
<1> DEFINE S == {t \in Thread : f[t] = x}
<1>1. S \in SUBSET Thread
  OBVIOUS
<1> HIDE DEF S
<1>2. IsFiniteSet(S) /\ Cardinality(S) \in Nat /\ (Cardinality(S) = 0 <=> S = {})
  BY <1>1, ThreadsFinite, FS_Subset, FS_CardinalityType, FS_EmptySet
<1>. QED
  BY <1>2 DEF S, CountAt

\* One thread goes from its state to another.
LEMMA CountMove ==
  ASSUME NEW f \in [Thread -> States], NEW g \in [Thread -> States],
         NEW t \in Thread, NEW s \in States, s # f[t], g[t] = s,
         \A u \in Thread \ {t} : g[u] = f[u]
  PROVE  /\ CountAt(g, s) = CountAt(f, s) + 1
         /\ CountAt(g, f[t]) = CountAt(f, f[t]) - 1
         /\ \A x \in States \ {s, f[t]} : CountAt(g, x) = CountAt(f, x)
<1> DEFINE S(x) == {u \in Thread : f[u] = x}
           R(x) == {u \in Thread : g[u] = x}
<1>1. R(s) = S(s) \cup {t} /\ t \notin S(s)
  OBVIOUS
<1>2. R(f[t]) = S(f[t]) \ {t} /\ t \in S(f[t])
  OBVIOUS
<1>3. \A x \in States \ {s, f[t]} : R(x) = S(x)
  OBVIOUS
<1>4. \A x : /\ IsFiniteSet(S(x)) /\ CountAt(f, x) = Cardinality(S(x))
             /\ CountAt(g, x) = Cardinality(R(x))
  BY CountType DEF CountAt
<1> HIDE DEF S, R
<1>5. Cardinality(R(s)) = Cardinality(S(s)) + 1
  BY <1>1, <1>4, FS_AddElement
<1>6. Cardinality(R(f[t])) = Cardinality(S(f[t])) - 1
  BY <1>2, <1>4, FS_RemoveElement
<1>. QED
  BY <1>3, <1>4, <1>5, <1>6

-----------------------------------------------------------------------------
(* The steps of the threads *)

ThreadsOK ==
  /\ m_cursize \in Nat /\ m_maxsize \in Nat
  /\ m_fullwait \in Nat /\ m_freewait \in Nat /\ over \in 0..3
  /\ pc \in [Thread -> PutStates \cup GetStates]
  /\ \A p \in Producer : pc[p] \in PutStates
  /\ \A c \in Consumer : pc[c] \in GetStates
  /\ m_overflag = IF over \in {1, 2} THEN 1 ELSE 0
  /\ over = 2 => CountAt(pc, "waitfree") = 0

\* The blocked threads are those in the two waiting states.
LEMMA BlockedAt ==
  ThreadsOK => /\ Blocked(Consumer) = {t \in Thread : pc[t] = "waitfree"}
               /\ Blocked(Producer) = {t \in Thread : pc[t] = "waitfull"}
BY PqueueAssumption DEF ThreadsOK, Blocked, Waiting, Thread, PutStates, GetStates

\* A signal moves a thread of T that waits, if there is one.
LEMMA SignalMoves ==
  ASSUME ThreadsOK, NEW t \in Thread, NEW s \in States,
         NEW T \in {Producer, Consumer}, t \notin T, StepSignal(t, s, T),
         NEW w, w = IF T = Producer THEN "waitfull" ELSE "waitfree",
         NEW k, k = IF T = Producer THEN "wokenfull" ELSE "wokenfree"
  PROVE  \/ CountAt(pc, w) = 0 /\ pc' = [pc EXCEPT ![t] = s]
         \/ \E u \in T : /\ pc[u] = w /\ u \in Thread /\ u # t
                         /\ pc' = [[pc EXCEPT ![t] = s] EXCEPT ![u] = k]
<1>1. Blocked(T) = {u \in Thread : pc[u] = w}
  BY BlockedAt, PqueueAssumption
<1>2. CASE Blocked(T) = {}
  BY <1>1, <1>2, CountType DEF StepSignal, Step
<1>3. CASE Blocked(T) # {}
  <2>1. PICK u \in Blocked(T) : pc' = [pc EXCEPT ![t] = s, ![u] = Woken(u)]
    BY <1>3 DEF StepSignal
  <2>2. u \in T /\ u \in Thread /\ pc[u] = w /\ u # t
    BY <1>1, <2>1 DEF Blocked
  <2>3. Woken(u) = k
    BY <2>2, PqueueAssumption DEF Woken
  <2>. QED
    BY <2>1, <2>2, <2>3
<1>. QED
  BY <1>2, <1>3

\* What a step that goes to s without a signal does to the counts.
LEMMA StepCount ==
  ASSUME ThreadsOK, NEW t \in Thread, NEW s \in States, s # pc[t], Step(t, s)
  PROVE  /\ pc' \in [Thread -> States] /\ pc'[t] = s
         /\ \A u \in Thread : u # t => pc'[u] = pc[u]
         /\ \A x \in States : CountAt(pc', x) =
              CountAt(pc, x) + (IF x = s THEN 1 ELSE 0) - (IF x = pc[t] THEN 1 ELSE 0)
<1>0. pc \in [Thread -> States]
  BY DEF ThreadsOK, States
<1>1. pc' \in [Thread -> States] /\ pc'[t] = s /\ \A u \in Thread \ {t} : pc'[u] = pc[u]
  BY <1>0 DEF Step
<1>2. \A x \in States : CountAt(pc, x) \in Nat
  BY CountType
<1>3. /\ CountAt(pc', s) = CountAt(pc, s) + 1
      /\ CountAt(pc', pc[t]) = CountAt(pc, pc[t]) - 1
      /\ \A x \in States \ {s, pc[t]} : CountAt(pc', x) = CountAt(pc, x)
  BY <1>0, <1>1, CountMove
<1>4. \A x \in States : CountAt(pc', x) =
              CountAt(pc, x) + (IF x = s THEN 1 ELSE 0) - (IF x = pc[t] THEN 1 ELSE 0)
  BY <1>2, <1>3
<1>. QED
  BY <1>1, <1>4

\* What a step with a signal does to them.
LEMMA SignalCount ==
  ASSUME ThreadsOK, NEW t \in Thread, NEW s \in States, s # pc[t],
         NEW T \in {Producer, Consumer}, t \notin T, StepSignal(t, s, T),
         NEW w \in States, w = IF T = Producer THEN "waitfull" ELSE "waitfree",
         NEW k \in States, k = IF T = Producer THEN "wokenfull" ELSE "wokenfree"
  PROVE  /\ pc' \in [Thread -> States] /\ pc'[t] = s
         /\ \A u \in Thread : u # t /\ pc'[u] # pc[u] => u \in T /\ pc'[u] = k
         /\ \A x \in States : CountAt(pc', x) =
              CountAt(pc, x) + (IF x = s THEN 1 ELSE 0) - (IF x = pc[t] THEN 1 ELSE 0)
                + (IF CountAt(pc, w) = 0 THEN 0 ELSE
                     (IF x = k THEN 1 ELSE 0) - (IF x = w THEN 1 ELSE 0))
<1> DEFINE q == [pc EXCEPT ![t] = s]
<1>1. pc \in [Thread -> States] /\ q \in [Thread -> States]
  BY DEF ThreadsOK, States
<1>2. \A x \in States : CountAt(q, x) =
              CountAt(pc, x) + (IF x = s THEN 1 ELSE 0) - (IF x = pc[t] THEN 1 ELSE 0)
  <2>1. /\ CountAt(q, s) = CountAt(pc, s) + 1
        /\ CountAt(q, pc[t]) = CountAt(pc, pc[t]) - 1
        /\ \A x \in States \ {s, pc[t]} : CountAt(q, x) = CountAt(pc, x)
    <3>1. q \in [Thread -> States] /\ q[t] = s /\ \A u \in Thread \ {t} : q[u] = pc[u]
      BY <1>1
    <3> HIDE DEF q
    <3>. QED
      BY <1>1, <3>1, CountMove
  <2>2. \A x \in States : CountAt(pc, x) \in Nat
    BY CountType
  <2> HIDE DEF q
  <2>. QED
    BY <1>1, <2>1, <2>2
<1>3. \/ CountAt(pc, w) = 0 /\ pc' = q
      \/ \E u \in T : pc[u] = w /\ u \in Thread /\ u # t /\ pc' = [q EXCEPT ![u] = k]
  BY SignalMoves
<1>4. CASE CountAt(pc, w) = 0 /\ pc' = q
  <2>1. \A x \in States : CountAt(pc, x) \in Nat
    BY CountType
  <2>2. pc' \in [Thread -> States] /\ pc'[t] = s /\ \A u \in Thread : u # t => pc'[u] = pc[u]
    BY <1>1, <1>4
  <2> HIDE DEF q
  <2>3. \A x \in States : CountAt(pc', x) =
          CountAt(pc, x) + (IF x = s THEN 1 ELSE 0) - (IF x = pc[t] THEN 1 ELSE 0) + 0
    BY <1>1, <1>2, <1>4, <2>1
  <2>. QED
    BY <1>4, <2>2, <2>3
<1>5. CASE \E u \in T : pc[u] = w /\ u \in Thread /\ u # t /\ pc' = [q EXCEPT ![u] = k]
  <2>1. PICK u \in T : pc[u] = w /\ u \in Thread /\ u # t /\ pc' = [q EXCEPT ![u] = k]
    BY <1>5
  <2>2. q[u] = w /\ w # k
    BY <1>1, <2>1
  <2>3. CountAt(pc, w) \in Nat /\ CountAt(pc, w) # 0
    BY <2>1, CountType
  <2>4. /\ CountAt(pc', k) = CountAt(q, k) + 1
        /\ CountAt(pc', w) = CountAt(q, w) - 1
        /\ \A x \in States \ {k, w} : CountAt(pc', x) = CountAt(q, x)
    <3>1. u \in Thread /\ pc' \in [Thread -> States] /\ pc'[u] = k /\ \A v \in Thread \ {u} : pc'[v] = q[v]
      BY <1>1, <2>1
    <3> HIDE DEF q
    <3>. QED
      BY <1>1, <2>2, <3>1, CountMove
  <2>5. \A x \in States : CountAt(pc', x) =
              CountAt(pc, x) + (IF x = s THEN 1 ELSE 0) - (IF x = pc[t] THEN 1 ELSE 0)
                + ((IF x = k THEN 1 ELSE 0) - (IF x = w THEN 1 ELSE 0))
    <3>1. \A x \in States : CountAt(pc, x) \in Nat
      BY CountType
    <3> HIDE DEF q
    <3>. QED
      BY <1>2, <2>2, <2>4, <3>1
  <2>6. pc' \in [Thread -> States] /\ pc'[t] = s
          /\ \A v \in Thread : v # t /\ pc'[v] # pc[v] => v \in T /\ pc'[v] = k
    BY <1>1, <2>1
  <2>. QED
    BY <2>3, <2>5, <2>6
<1>. QED
  BY <1>3, <1>4, <1>5

-----------------------------------------------------------------------------
(* The counters and the wakeups *)

Counted ==
  /\ CountAt(pc, "waitfree") <= m_freewait
  /\ over < 3 => CountAt(pc, "waitfull") <= m_fullwait
  /\ over = 0 /\ CountAt(pc, "waitfree") > 0 => CountAt(pc, "wokenfree") >= m_cursize
  /\ over = 0 /\ CountAt(pc, "waitfull") > 0 /\ ~sized =>
       CountAt(pc, "wokenfull") >= m_maxsize - m_cursize

WaitInv == ThreadsOK /\ Counted

\* The counts are numbers, before a step and after it.
LEMMA CountNat ==
  /\ CountAt(pc, "waitfree") \in Nat /\ CountAt(pc, "waitfull") \in Nat
  /\ CountAt(pc, "wokenfree") \in Nat /\ CountAt(pc, "wokenfull") \in Nat
  /\ CountAt(pc', "waitfree") \in Nat /\ CountAt(pc', "waitfull") \in Nat
  /\ CountAt(pc', "wokenfree") \in Nat /\ CountAt(pc', "wokenfull") \in Nat
BY CountType

\* A thread that goes on within its own states leaves the types of pc right.
LEMMA SideKept ==
  ASSUME ThreadsOK, NEW t \in Thread, pc' \in [Thread -> States],
         t \in Producer => pc'[t] \in PutStates,
         t \in Consumer => pc'[t] \in GetStates,
         \A u \in Thread : u # t /\ pc'[u] # pc[u] =>
           \/ u \in Producer /\ pc'[u] = "wokenfull"
           \/ u \in Consumer /\ pc'[u] = "wokenfree"
  PROVE  /\ \A p \in Producer : pc'[p] \in PutStates
         /\ \A c \in Consumer : pc'[c] \in GetStates
BY PqueueAssumption DEF ThreadsOK, Thread, PutStates, GetStates

\* New, PutWait, GetWait, GetNull and Delete move one thread.
LEMMA NewCounts ==
  ASSUME WaitInv, NEW p \in Producer, NEW n \in Node, New(p, n)
  PROVE  WaitInv'
<1>1. p \in Thread /\ pc[p] = "idle" /\ Step(p, "put")
  BY DEF New, Thread
<1>2. /\ pc' \in [Thread -> States] /\ pc'[p] = "put"
      /\ \A u \in Thread : u # p => pc'[u] = pc[u]
      /\ CountAt(pc', "waitfree") = CountAt(pc, "waitfree")
      /\ CountAt(pc', "waitfull") = CountAt(pc, "waitfull")
      /\ CountAt(pc', "wokenfree") = CountAt(pc, "wokenfree")
      /\ CountAt(pc', "wokenfull") = CountAt(pc, "wokenfull")
  BY <1>1, StepCount, CountNat DEF WaitInv, States, PutStates, GetStates
<1>3. /\ \A q \in Producer : pc'[q] \in PutStates
      /\ \A c \in Consumer : pc'[c] \in GetStates
  BY <1>1, <1>2, SideKept, PqueueAssumption DEF WaitInv, PutStates, Thread
<1>4. UNCHANGED <<m_cursize, m_maxsize, m_overflag, m_fullwait, m_freewait, over, sized>>
  BY DEF New, log
<1>. QED
  BY <1>2, <1>3, <1>4 DEF WaitInv, ThreadsOK, Counted, States

LEMMA PutWaitCounts ==
  ASSUME WaitInv, NEW p \in Producer, PutWait(p)
  PROVE  WaitInv'
<1>1. p \in Thread /\ pc[p] \in {"put", "wokenfull"} /\ Step(p, "waitfull")
  BY DEF PutWait, Putting, Thread
<1>2. /\ pc' \in [Thread -> States] /\ pc'[p] = "waitfull"
      /\ \A u \in Thread : u # p => pc'[u] = pc[u]
      /\ CountAt(pc', "waitfree") = CountAt(pc, "waitfree")
      /\ CountAt(pc', "waitfull") = CountAt(pc, "waitfull") + 1
      /\ CountAt(pc', "wokenfree") = CountAt(pc, "wokenfree")
  BY <1>1, StepCount, CountNat DEF WaitInv, States, PutStates, GetStates
<1>3. /\ \A q \in Producer : pc'[q] \in PutStates
      /\ \A c \in Consumer : pc'[c] \in GetStates
  BY <1>1, <1>2, SideKept, PqueueAssumption DEF WaitInv, PutStates, Thread
<1>4. /\ m_fullwait' = m_fullwait + 1 /\ m_cursize >= m_maxsize
      /\ UNCHANGED <<m_cursize, m_maxsize, m_overflag, m_freewait, over, sized>>
  BY DEF PutWait, list, log
<1>. QED
  BY <1>2, <1>3, <1>4, CountNat DEF WaitInv, ThreadsOK, Counted, States

LEMMA GetWaitCounts ==
  ASSUME WaitInv, NEW c \in Consumer, GetWait(c)
  PROVE  WaitInv'
<1>1. c \in Thread /\ pc[c] \in {"get", "wokenfree"} /\ Step(c, "waitfree")
  BY DEF GetWait, Getting, Thread
<1>2. /\ pc' \in [Thread -> States] /\ pc'[c] = "waitfree"
      /\ \A u \in Thread : u # c => pc'[u] = pc[u]
      /\ CountAt(pc', "waitfree") = CountAt(pc, "waitfree") + 1
      /\ CountAt(pc', "waitfull") = CountAt(pc, "waitfull")
      /\ CountAt(pc', "wokenfull") = CountAt(pc, "wokenfull")
  BY <1>1, StepCount, CountNat DEF WaitInv, States, PutStates, GetStates
<1>3. /\ \A q \in Producer : pc'[q] \in PutStates
      /\ \A d \in Consumer : pc'[d] \in GetStates
  BY <1>1, <1>2, SideKept, PqueueAssumption DEF WaitInv, GetStates, Thread
<1>4. /\ m_freewait' = m_freewait + 1 /\ m_cursize = 0 /\ m_overflag = 0
      /\ UNCHANGED <<m_cursize, m_maxsize, m_overflag, m_fullwait, over, sized>>
  BY DEF GetWait, list, log
<1>. QED
  BY <1>2, <1>3, <1>4, CountNat DEF WaitInv, ThreadsOK, Counted, States

LEMMA GetNullCounts ==
  ASSUME WaitInv, NEW c \in Consumer, GetNull(c)
  PROVE  WaitInv'
<1>1. c \in Thread /\ pc[c] \in {"get", "wokenfree"} /\ Step(c, "stopped")
  BY DEF GetNull, Getting, Thread
<1>2. /\ pc' \in [Thread -> States] /\ pc'[c] = "stopped"
      /\ \A u \in Thread : u # c => pc'[u] = pc[u]
      /\ CountAt(pc', "waitfree") = CountAt(pc, "waitfree")
      /\ CountAt(pc', "waitfull") = CountAt(pc, "waitfull")
  BY <1>1, StepCount, CountNat DEF WaitInv, States, PutStates, GetStates
<1>3. /\ \A q \in Producer : pc'[q] \in PutStates
      /\ \A d \in Consumer : pc'[d] \in GetStates
  BY <1>1, <1>2, SideKept, PqueueAssumption DEF WaitInv, GetStates, Thread
<1>4. /\ m_overflag # 0
      /\ UNCHANGED <<m_cursize, m_maxsize, m_overflag, m_fullwait, m_freewait, over, sized>>
  BY DEF GetNull, list, log
<1>. QED
  BY <1>2, <1>3, <1>4 DEF WaitInv, ThreadsOK, Counted, States

LEMMA DeleteCounts ==
  ASSUME WaitInv, NEW c \in Consumer, Delete(c)
  PROVE  WaitInv'
<1>1. c \in Thread /\ pc[c] = "have" /\ Step(c, "get")
  BY DEF Delete, Thread
<1>2. /\ pc' \in [Thread -> States] /\ pc'[c] = "get"
      /\ \A u \in Thread : u # c => pc'[u] = pc[u]
      /\ CountAt(pc', "waitfree") = CountAt(pc, "waitfree")
      /\ CountAt(pc', "waitfull") = CountAt(pc, "waitfull")
      /\ CountAt(pc', "wokenfree") = CountAt(pc, "wokenfree")
      /\ CountAt(pc', "wokenfull") = CountAt(pc, "wokenfull")
  BY <1>1, StepCount, CountNat DEF WaitInv, States, PutStates, GetStates
<1>3. /\ \A q \in Producer : pc'[q] \in PutStates
      /\ \A d \in Consumer : pc'[d] \in GetStates
  BY <1>1, <1>2, SideKept, PqueueAssumption DEF WaitInv, GetStates, Thread
<1>4. UNCHANGED <<m_cursize, m_maxsize, m_overflag, m_fullwait, m_freewait, over, sized>>
  BY DEF Delete, list, log
<1>. QED
  BY <1>2, <1>3, <1>4 DEF WaitInv, ThreadsOK, Counted, States

\* Spurious takes a thread out of the waiting ones; the counter stays.
LEMMA SpuriousCounts ==
  ASSUME WaitInv, NEW t \in Thread, Spurious(t)
  PROVE  WaitInv'
<1>1. UNCHANGED <<m_cursize, m_maxsize, m_overflag, m_fullwait, m_freewait, over, sized>>
  BY DEF Spurious, list
<1>2. CASE t \in Producer
  <2>1. pc[t] = "waitfull" /\ Step(t, "wokenfull")
    BY <1>2 DEF Spurious, Waiting, Woken
  <2>2. /\ pc' \in [Thread -> States] /\ pc'[t] = "wokenfull"
        /\ \A u \in Thread : u # t => pc'[u] = pc[u]
        /\ CountAt(pc', "waitfree") = CountAt(pc, "waitfree")
        /\ CountAt(pc', "waitfull") = CountAt(pc, "waitfull") - 1
        /\ CountAt(pc', "wokenfree") = CountAt(pc, "wokenfree")
        /\ CountAt(pc', "wokenfull") = CountAt(pc, "wokenfull") + 1
    BY <2>1, StepCount, CountNat DEF WaitInv, States, PutStates, GetStates
  <2>3. /\ \A q \in Producer : pc'[q] \in PutStates
        /\ \A d \in Consumer : pc'[d] \in GetStates
    BY <1>2, <2>2, SideKept, PqueueAssumption DEF WaitInv, PutStates, Thread
  <2>. QED
    BY <1>1, <2>2, <2>3, CountNat DEF WaitInv, ThreadsOK, Counted, States
<1>3. CASE t \in Consumer
  <2>1. pc[t] = "waitfree" /\ Step(t, "wokenfree")
    BY <1>3, PqueueAssumption DEF Spurious, Waiting, Woken
  <2>2. /\ pc' \in [Thread -> States] /\ pc'[t] = "wokenfree"
        /\ \A u \in Thread : u # t => pc'[u] = pc[u]
        /\ CountAt(pc', "waitfree") = CountAt(pc, "waitfree") - 1
        /\ CountAt(pc', "waitfull") = CountAt(pc, "waitfull")
        /\ CountAt(pc', "wokenfree") = CountAt(pc, "wokenfree") + 1
        /\ CountAt(pc', "wokenfull") = CountAt(pc, "wokenfull")
    BY <2>1, StepCount, CountNat DEF WaitInv, States, PutStates, GetStates
  <2>3. /\ \A q \in Producer : pc'[q] \in PutStates
        /\ \A d \in Consumer : pc'[d] \in GetStates
    BY <1>3, <2>2, SideKept, PqueueAssumption DEF WaitInv, GetStates, Thread
  <2>. QED
    BY <1>1, <2>2, <2>3, CountNat DEF WaitInv, ThreadsOK, Counted, States
<1>. QED
  BY <1>2, <1>3 DEF Thread

\* PutAppend adds a node, and wakes a consumer if one waits: the counter is
\* not 0 then.
LEMMA PutAppendCounts ==
  ASSUME WaitInv, NEW p \in Producer, PutAppend(p)
  PROVE  WaitInv'
<1>1. p \in Thread /\ p \notin Consumer /\ pc[p] \in {"put", "wokenfull"}
  BY PqueueAssumption DEF PutAppend, Putting, Thread
<1>2. /\ m_cursize' = m_cursize + 1
      /\ UNCHANGED <<m_maxsize, m_overflag, m_fullwait, over, sized>>
  BY DEF PutAppend, Link, log
<1>3. CASE m_freewait > 0
  <2>1. m_freewait' = m_freewait - 1 /\ StepSignal(p, "idle", Consumer)
    BY <1>3 DEF PutAppend, SignalFree
  <2>2. /\ pc' \in [Thread -> States] /\ pc'[p] = "idle"
        /\ \A u \in Thread : u # p /\ pc'[u] # pc[u] => u \in Consumer /\ pc'[u] = "wokenfree"
        /\ \A x \in States : CountAt(pc', x) =
             CountAt(pc, x) + (IF x = "idle" THEN 1 ELSE 0) - (IF x = pc[p] THEN 1 ELSE 0)
               + (IF CountAt(pc, "waitfree") = 0 THEN 0 ELSE
                    (IF x = "wokenfree" THEN 1 ELSE 0) - (IF x = "waitfree" THEN 1 ELSE 0))
    <3>1. "idle" # pc[p] /\ {"idle", "waitfree", "wokenfree"} \subseteq States
      BY <1>1 DEF States, PutStates, GetStates
    <3>2. (Consumer = Producer) => FALSE
      BY <1>1
    <3>. QED
      BY <1>1, <2>1, <3>1, <3>2, SignalCount DEF WaitInv
  <2>3. /\ CountAt(pc', "waitfree") =
             IF CountAt(pc, "waitfree") = 0 THEN 0 ELSE CountAt(pc, "waitfree") - 1
        /\ CountAt(pc, "waitfree") > 0 =>
             CountAt(pc', "wokenfree") = CountAt(pc, "wokenfree") + 1
        /\ CountAt(pc', "waitfull") = CountAt(pc, "waitfull")
        /\ CountAt(pc', "wokenfull") >= CountAt(pc, "wokenfull") - 1
    BY <1>1, <2>2, CountNat DEF States, PutStates, GetStates
  <2>4. /\ \A q \in Producer : pc'[q] \in PutStates
        /\ \A d \in Consumer : pc'[d] \in GetStates
    BY <1>1, <2>2, SideKept DEF WaitInv, PutStates
  <2>. QED
    BY <1>2, <1>3, <2>1, <2>2, <2>3, <2>4, CountNat DEF WaitInv, ThreadsOK, Counted, States
<1>4. CASE ~(m_freewait > 0)
  <2>1. m_freewait' = m_freewait /\ Step(p, "idle")
    BY <1>4 DEF PutAppend, SignalFree
  <2>2. /\ pc' \in [Thread -> States] /\ pc'[p] = "idle"
        /\ \A u \in Thread : u # p => pc'[u] = pc[u]
        /\ CountAt(pc', "waitfree") = CountAt(pc, "waitfree")
        /\ CountAt(pc', "waitfull") = CountAt(pc, "waitfull")
        /\ CountAt(pc', "wokenfull") >= CountAt(pc, "wokenfull") - 1
    BY <1>1, <2>1, StepCount, CountNat DEF WaitInv, States, PutStates, GetStates
  <2>3. /\ \A q \in Producer : pc'[q] \in PutStates
        /\ \A d \in Consumer : pc'[d] \in GetStates
    BY <1>1, <2>2, SideKept DEF WaitInv, PutStates
  <2>4. CountAt(pc, "waitfree") = 0
    BY <1>4, CountNat DEF WaitInv, ThreadsOK, Counted
  <2>. QED
    BY <1>2, <2>1, <2>2, <2>3, <2>4, CountNat DEF WaitInv, ThreadsOK, Counted, States
<1>. QED
  BY <1>3, <1>4

\* GetTake makes a free place, and wakes a producer if one waits.
LEMMA GetTakeCounts ==
  ASSUME WaitInv, NEW c \in Consumer, GetTake(c)
  PROVE  WaitInv'
<1>1. c \in Thread /\ c \notin Producer /\ pc[c] \in {"get", "wokenfree"}
  BY PqueueAssumption DEF GetTake, Getting, Thread
<1>2. /\ m_cursize > 0 /\ m_overflag = 0 /\ m_cursize' = m_cursize - 1
      /\ UNCHANGED <<m_maxsize, m_overflag, m_freewait, over, sized>>
  BY DEF GetTake, Unlink, log
<1>3. CASE m_fullwait > 0
  <2>1. m_fullwait' = m_fullwait - 1 /\ StepSignal(c, "have", Producer)
    BY <1>3 DEF GetTake, SignalFull
  <2>2. /\ pc' \in [Thread -> States] /\ pc'[c] = "have"
        /\ \A u \in Thread : u # c /\ pc'[u] # pc[u] => u \in Producer /\ pc'[u] = "wokenfull"
        /\ \A x \in States : CountAt(pc', x) =
             CountAt(pc, x) + (IF x = "have" THEN 1 ELSE 0) - (IF x = pc[c] THEN 1 ELSE 0)
               + (IF CountAt(pc, "waitfull") = 0 THEN 0 ELSE
                    (IF x = "wokenfull" THEN 1 ELSE 0) - (IF x = "waitfull" THEN 1 ELSE 0))
    <3>1. "have" # pc[c] /\ {"have", "waitfull", "wokenfull"} \subseteq States
      BY <1>1 DEF States, PutStates, GetStates
    <3>. QED
      BY <1>1, <2>1, <3>1, SignalCount DEF WaitInv
  <2>3. /\ CountAt(pc', "waitfull") =
             IF CountAt(pc, "waitfull") = 0 THEN 0 ELSE CountAt(pc, "waitfull") - 1
        /\ CountAt(pc, "waitfull") > 0 =>
             CountAt(pc', "wokenfull") = CountAt(pc, "wokenfull") + 1
        /\ CountAt(pc', "waitfree") = CountAt(pc, "waitfree")
        /\ CountAt(pc', "wokenfree") >= CountAt(pc, "wokenfree") - 1
    BY <1>1, <2>2, CountNat DEF States, PutStates, GetStates
  <2>4. /\ \A q \in Producer : pc'[q] \in PutStates
        /\ \A d \in Consumer : pc'[d] \in GetStates
    BY <1>1, <2>2, SideKept DEF WaitInv, GetStates
  <2>. QED
    BY <1>2, <1>3, <2>1, <2>2, <2>3, <2>4, CountNat DEF WaitInv, ThreadsOK, Counted, States
<1>4. CASE ~(m_fullwait > 0)
  <2>1. m_fullwait' = m_fullwait /\ Step(c, "have")
    BY <1>4 DEF GetTake, SignalFull
  <2>2. /\ pc' \in [Thread -> States] /\ pc'[c] = "have"
        /\ \A u \in Thread : u # c => pc'[u] = pc[u]
        /\ CountAt(pc', "waitfree") = CountAt(pc, "waitfree")
        /\ CountAt(pc', "waitfull") = CountAt(pc, "waitfull")
        /\ CountAt(pc', "wokenfree") >= CountAt(pc, "wokenfree") - 1
    BY <1>1, <2>1, StepCount, CountNat DEF WaitInv, States, PutStates, GetStates
  <2>3. /\ \A q \in Producer : pc'[q] \in PutStates
        /\ \A d \in Consumer : pc'[d] \in GetStates
    BY <1>1, <2>2, SideKept DEF WaitInv, GetStates
  <2>4. over < 3 => CountAt(pc, "waitfull") = 0
    BY <1>4, CountNat DEF WaitInv, ThreadsOK, Counted
  <2>. QED
    BY <1>2, <2>1, <2>2, <2>3, <2>4, CountNat DEF WaitInv, ThreadsOK, Counted, States
<1>. QED
  BY <1>3, <1>4

LEMMA SetsizeCounts ==
  ASSUME WaitInv, NEW size \in Sizes, setsize(size)
  PROVE  WaitInv'
<1>1. /\ m_maxsize' \in Nat /\ sized' = TRUE
      /\ UNCHANGED <<m_cursize, m_overflag, m_fullwait, m_freewait, pc, over>>
  BY PqueueAssumption DEF setsize, WaitInv, ThreadsOK, list
<1>. QED
  BY <1>1 DEF WaitInv, ThreadsOK, Counted

\* The calls of logover: releaseFree() leaves no consumer waiting, and while
\* the flag is 1 none begins to wait, so resetqueue() finds none.
LEMMA LogoverCounts ==
  ASSUME WaitInv, logover
  PROVE  WaitInv'
<1>1. over' = over + 1 /\ over \in 0..3
  BY DEF logover, WaitInv, ThreadsOK
<1>2. CASE over = 0 /\ setflag(1)
  BY <1>1, <1>2 DEF setflag, list, WaitInv, ThreadsOK, Counted
<1>3. CASE over = 1 /\ releaseFree
  <2>1. /\ pc' \in [Thread -> States]
        /\ \A u \in Thread : pc'[u] = IF pc[u] = "waitfree" THEN "wokenfree" ELSE pc[u]
    BY <1>3, BlockedAt, PqueueAssumption
       DEF releaseFree, Woken, Blocked, Waiting, WaitInv, ThreadsOK, States, PutStates, GetStates
  <2>2. /\ \A q \in Producer : pc'[q] \in PutStates
        /\ \A d \in Consumer : pc'[d] \in GetStates
    BY <2>1, PqueueAssumption DEF WaitInv, ThreadsOK, Thread, PutStates, GetStates
  <2>3. {t \in Thread : pc'[t] = "waitfree"} = {}
    BY <2>1
  <2>4. {t \in Thread : pc'[t] = "waitfull"} = {t \in Thread : pc[t] = "waitfull"}
    BY <2>1
  <2>5. CountAt(pc', "waitfree") = 0 /\ CountAt(pc', "waitfull") = CountAt(pc, "waitfull")
    BY <2>3, <2>4, FS_EmptySet DEF CountAt
  <2>6. UNCHANGED <<m_cursize, m_maxsize, m_overflag, m_fullwait, m_freewait>>
    BY <1>3 DEF releaseFree, list
  <2>. QED
    BY <1>1, <1>3, <2>1, <2>2, <2>5, <2>6 DEF WaitInv, ThreadsOK, Counted, States
<1>4. CASE over = 2 /\ resetqueue
  <2>1. /\ m_cursize' = 0 /\ m_maxsize' = DefaultSize /\ m_overflag' = 0
        /\ m_freewait' = 0 /\ m_fullwait' = 0 /\ pc' = pc
    BY <1>4 DEF resetqueue
  <2>. QED
    BY <1>1, <1>4, <2>1, PqueueAssumption DEF WaitInv, ThreadsOK, Counted
<1>. QED
  BY <1>2, <1>3, <1>4 DEF logover, OverCall

LEMMA CountsInit == Init => WaitInv
<1> SUFFICES ASSUME Init
             PROVE  WaitInv
  OBVIOUS
<1>1. pc = [t \in Thread |-> IF t \in Producer THEN "idle" ELSE "get"]
  BY DEF Init
<1>2. {t \in Thread : pc[t] = "waitfree"} = {} /\ {t \in Thread : pc[t] = "waitfull"} = {}
  BY <1>1
<1>3. CountAt(pc, "waitfree") = 0 /\ CountAt(pc, "waitfull") = 0
  BY <1>2, FS_EmptySet DEF CountAt
<1>4. /\ pc \in [Thread -> States]
      /\ \A p \in Producer : pc[p] \in PutStates
      /\ \A c \in Consumer : pc[c] \in GetStates
  BY <1>1, PqueueAssumption DEF Thread, States, PutStates, GetStates
<1>. QED
  BY <1>3, <1>4, PqueueAssumption DEF Init, WaitInv, ThreadsOK, Counted, States

LEMMA CountsNext == WaitInv /\ [Next]_vars => WaitInv'
<1> SUFFICES ASSUME WaitInv, [Next]_vars
             PROVE  WaitInv'
  OBVIOUS
<1>1. ASSUME NEW p \in Producer, Produce(p)
      PROVE  WaitInv'
  BY <1>1, PutWaitCounts, PutAppendCounts DEF Produce
<1>2. ASSUME NEW p \in Producer, NEW n \in Node, New(p, n)
      PROVE  WaitInv'
  BY <1>2, NewCounts
<1>3. ASSUME NEW c \in Consumer, Consume(c)
      PROVE  WaitInv'
  BY <1>3, GetWaitCounts, GetNullCounts, GetTakeCounts, DeleteCounts DEF Consume
<1>4. ASSUME NEW t \in Thread, Spurious(t)
      PROVE  WaitInv'
  BY <1>4, SpuriousCounts
<1>5. ASSUME NEW size \in Sizes, setsize(size)
      PROVE  WaitInv'
  BY <1>5, SetsizeCounts
<1>6. CASE logover
  BY <1>6, LogoverCounts
<1>7. CASE UNCHANGED vars
  BY <1>7 DEF vars, list, log, WaitInv, ThreadsOK, Counted
<1>. QED
  BY <1>1, <1>2, <1>3, <1>4, <1>5, <1>6, <1>7 DEF Next

\* What the counts say in the terms of the runs' invariants.
LEMMA CountsMean == WaitInv => WaitersCounted /\ NoLostWakeup
<1> SUFFICES ASSUME WaitInv
             PROVE  WaitersCounted /\ NoLostWakeup
  OBVIOUS
<1>1. /\ Cardinality(Blocked(Consumer)) = CountAt(pc, "waitfree")
      /\ Cardinality(Blocked(Producer)) = CountAt(pc, "waitfull")
      /\ Blocked(Consumer) # {} => CountAt(pc, "waitfree") # 0
      /\ Blocked(Producer) # {} => CountAt(pc, "waitfull") # 0
  BY BlockedAt, CountType DEF WaitInv, CountAt
<1>2. /\ Cardinality(At("wokenfree")) = CountAt(pc, "wokenfree")
      /\ Cardinality(At("wokenfull")) = CountAt(pc, "wokenfull")
  BY DEF At, CountAt
<1>. QED
  BY <1>1, <1>2, CountNat DEF WaitInv, ThreadsOK, Counted, WaitersCounted, NoLostWakeup

\* m_freewait is never below the number of consumers in pthread_cond_wait(),
\* nor m_fullwait below that of the producers until resetqueue: a put or get
\* that sees 0 and sends no signal has nobody to wake, for any threads, sizes
\* and spurious wakeups.
THEOREM CountersRight == Spec => []WaitersCounted
<1>1. Init => WaitInv
  BY CountsInit
<1>2. WaitInv /\ [Next]_vars => WaitInv'
  BY CountsNext
<1>3. WaitInv => WaitersCounted
  BY CountsMean
<1>. QED
  BY <1>1, <1>2, <1>3, PTL DEF Spec

\* While a consumer waits, every queued line has a woken consumer coming for
\* it; while a producer waits, every free place not made by setsize has a
\* woken producer: a signal per put and get is enough.
THEOREM WakeupsKept == Spec => []NoLostWakeup
<1>1. Init => WaitInv
  BY CountsInit
<1>2. WaitInv /\ [Next]_vars => WaitInv'
  BY CountsNext
<1>3. WaitInv => NoLostWakeup
  BY CountsMean
<1>. QED
  BY <1>1, <1>2, <1>3, PTL DEF Spec

-----------------------------------------------------------------------------
(* The recursion of Chain *)

\* Induction, for a set of numbers: the least number outside it is neither 0
\* nor the successor of one inside.
LEMMA NumbersInduction ==
  ASSUME NEW S, 0 \in S, \A n \in Nat : n \in S => n + 1 \in S
  PROVE  Nat \subseteq S
<1> SUFFICES ASSUME Nat \ S # {}
             PROVE  FALSE
  OBVIOUS
<1>1. PICK x \in Nat \ S : \A y \in Nat \ S : ~ (<<y, x>> \in OpToRel(<, Nat))
  BY NatLessThanWellFounded, WFMin
<1>2. \A y \in Nat \ S : ~(y < x)
  BY <1>1 DEF OpToRel
<1>3. x # 0 /\ x \in Nat
  BY <1>1
<1>4. x - 1 \in Nat /\ x - 1 < x /\ (x - 1) + 1 = x
  BY <1>3
<1>5. x - 1 \in S
  BY <1>2, <1>4
<1>. QED
  BY <1>1, <1>4, <1>5

\* The function that Chain defines by recursion exists, whatever the nodes
\* point to.
IsNth(f, N, head, next) ==
  f = [k \in 1..N |-> IF k = 1 THEN head ELSE next[f[k - 1]]]

LEMMA NthExists ==
  ASSUME NEW N \in Nat, NEW head, NEW next
  PROVE  \E f : IsNth(f, N, head, next)
<1> DEFINE S == {n \in Nat : \E f : IsNth(f, n, head, next)}
<1>1. 0 \in S
  <2> DEFINE f == [k \in 1..0 |-> head]
  <2>1. f = [k \in 1..0 |-> IF k = 1 THEN head ELSE next[f[k - 1]]]
    OBVIOUS
  <2>. QED
    BY <2>1 DEF IsNth
<1>2. ASSUME NEW n \in Nat, n \in S
      PROVE  n + 1 \in S
  <2>1. PICK f : f = [k \in 1..n |-> IF k = 1 THEN head ELSE next[f[k - 1]]]
    BY <1>2 DEF IsNth
  <2> DEFINE g == [k \in 1..(n + 1) |-> IF k = 1 THEN head ELSE next[f[k - 1]]]
  <2>2. ASSUME NEW k \in 1..n
        PROVE  g[k] = f[k]
    <3>1. f[k] = IF k = 1 THEN head ELSE next[f[k - 1]]
      BY <2>1
    <3>. QED
      BY <3>1
  <2>3. ASSUME NEW k \in 1..(n + 1)
        PROVE  g[k] = IF k = 1 THEN head ELSE next[g[k - 1]]
    <3>1. k # 1 => k - 1 \in 1..n
      OBVIOUS
    <3>2. k # 1 => g[k - 1] = f[k - 1]
      BY <2>2, <3>1
    <3>. QED
      BY <3>2
  <2>4. g = [k \in 1..(n + 1) |-> IF k = 1 THEN head ELSE next[g[k - 1]]]
    BY <2>3
  <2> HIDE DEF g
  <2>5. IsNth(g, n + 1, head, next) /\ n + 1 \in Nat
    BY <2>4 DEF IsNth
  <2>. QED
    BY <2>5
<1> HIDE DEF S
<1>3. Nat \subseteq S
  BY <1>1, <1>2, NumbersInduction
<1>. QED
  BY <1>3 DEF S

\* So Chain is what its definition says.
LEMMA ChainNth ==
  \E nth : /\ IsNth(nth, Cardinality(Node), m_head, m_next)
           /\ Chain = [k \in 1..m_cursize |-> nth[k]]
<1>1. Cardinality(Node) \in Nat
  BY PqueueAssumption, FS_CardinalityType
<1>2. \E f : f = [k \in 1..Cardinality(Node) |-> IF k = 1 THEN m_head ELSE m_next[f[k - 1]]]
  <2>1. \E f : IsNth(f, Cardinality(Node), m_head, m_next)
    BY <1>1, NthExists
  <2>. QED
    BY <2>1 DEF IsNth
<1>. QED
  BY <1>2 DEF Chain, IsNth

\* s is the list of n nodes from head on.
IsList(s, n, head, next) ==
  /\ s = [k \in 1..n |-> s[k]]
  /\ n > 0 => s[1] = head
  /\ \A k \in 1..n : k > 1 => s[k] = next[s[k - 1]]

LEMMA ChainIsList ==
  m_cursize \in 0..Cardinality(Node) => IsList(Chain, m_cursize, m_head, m_next)
<1> SUFFICES ASSUME m_cursize \in 0..Cardinality(Node)
             PROVE  IsList(Chain, m_cursize, m_head, m_next)
  OBVIOUS
<1>1. Cardinality(Node) \in Nat
  BY PqueueAssumption, FS_CardinalityType
<1>2. PICK nth : /\ nth = [k \in 1..Cardinality(Node) |->
                             IF k = 1 THEN m_head ELSE m_next[nth[k - 1]]]
                 /\ Chain = [k \in 1..m_cursize |-> nth[k]]
  BY ChainNth DEF IsNth
<1>3. ASSUME NEW k \in 1..m_cursize
      PROVE  /\ k = 1 => Chain[k] = m_head
             /\ k > 1 => Chain[k] = m_next[Chain[k - 1]]
  <2>1. k \in 1..Cardinality(Node) /\ (k > 1 => k - 1 \in 1..m_cursize)
    BY <1>1
  <2>2. nth[k] = IF k = 1 THEN m_head ELSE m_next[nth[k - 1]]
    BY <1>2, <2>1
  <2>. QED
    BY <1>2, <2>1, <2>2
<1>4. m_cursize > 0 => Chain[1] = m_head
  <2>1. m_cursize \in Nat
    BY <1>1
  <2>2. m_cursize > 0 => 1 \in 1..m_cursize
    BY <2>1
  <2>. QED
    BY <1>3, <2>2
<1>5. \A k \in 1..m_cursize : k > 1 => Chain[k] = m_next[Chain[k - 1]]
  BY <1>3
<1>6. Chain = [k \in 1..m_cursize |-> Chain[k]]
  BY <1>2
<1>. QED
  BY <1>4, <1>5, <1>6 DEF IsList

\* There is one such list.
LEMMA ListUnique ==
  ASSUME NEW n \in Nat, NEW head, NEW next, NEW s, NEW r,
         IsList(s, n, head, next), IsList(r, n, head, next)
  PROVE  s = r
<1> DEFINE S == {k \in Nat : k \in 1..n => s[k] = r[k]}
<1>1. 0 \in S
  OBVIOUS
<1>2. ASSUME NEW k \in Nat, k \in S
      PROVE  k + 1 \in S
  <2> SUFFICES ASSUME k + 1 \in 1..n
               PROVE  s[k + 1] = r[k + 1]
    OBVIOUS
  <2>1. CASE k = 0
    BY <2>1 DEF IsList
  <2>2. CASE k # 0
    <3>1. k \in 1..n /\ k + 1 > 1 /\ (k + 1) - 1 = k
      BY <2>2
    <3>2. s[k + 1] = next[s[k]] /\ r[k + 1] = next[r[k]]
      BY <3>1 DEF IsList
    <3>. QED
      BY <1>2, <3>1, <3>2
  <2>. QED
    BY <2>1, <2>2
<1> HIDE DEF S
<1>3. Nat \subseteq S
  BY <1>1, <1>2, NumbersInduction
<1>4. \A k \in 1..n : s[k] = r[k]
  BY <1>3 DEF S
<1>. QED
  BY <1>4 DEF IsList

-----------------------------------------------------------------------------
(* The list and the owners of the nodes *)

Holding == {"put", "waitfull", "wokenfull", "have"}

\* A thread owns a node between its new and its put, or its get and its
\* delete; the node exists, is no other thread's, and before its put it
\* points nowhere.
Owned ==
  /\ hand \in [Thread -> Node \cup {NULL}] /\ alloc \subseteq Node
  /\ \A t \in Thread : hand[t] # NULL <=> pc[t] \in Holding
  /\ \A t \in Thread : hand[t] # NULL => hand[t] \in alloc
  /\ \A t, u \in Thread : hand[t] # NULL /\ hand[t] = hand[u] => t = u
  /\ \A p \in Producer : hand[p] # NULL => m_next[hand[p]] = NULL

\* The nodes of the list exist, differ and are no thread's; the last one is
\* where m_tail points.
Linked ==
  /\ m_next \in [Node -> Node \cup {NULL}]
  /\ m_cursize \in 0..Cardinality(Node)
  /\ \A k \in 1..m_cursize : Chain[k] \in alloc /\ \A t \in Thread : hand[t] # Chain[k]
  /\ \A j, k \in 1..m_cursize : j # k => Chain[j] # Chain[k]
  /\ m_cursize = 0 => m_head = NULL /\ m_tail = HeadRef
  /\ m_cursize > 0 => m_tail = Chain[m_cursize] /\ m_next[Chain[m_cursize]] = NULL

ListInv == ThreadsOK /\ Owned /\ Linked

\* What Linked says of Chain as a sequence.
LEMMA ChainSeq ==
  ListInv => /\ Chain \in Seq(Node) /\ Len(Chain) = m_cursize
             /\ DOMAIN Chain = 1..m_cursize /\ m_cursize \in Nat
             /\ Cardinality(Node) \in Nat
             /\ \A k \in 1..m_cursize : Chain[k] \in Node /\ Chain[k] # NULL
             /\ m_cursize > 0 => m_head = Chain[1]
             /\ \A k \in 1..m_cursize : k > 1 => Chain[k] = m_next[Chain[k - 1]]
<1> SUFFICES ASSUME ListInv
             PROVE  /\ Chain \in Seq(Node) /\ Len(Chain) = m_cursize
                    /\ DOMAIN Chain = 1..m_cursize /\ m_cursize \in Nat
                    /\ Cardinality(Node) \in Nat
                    /\ \A k \in 1..m_cursize : Chain[k] \in Node /\ Chain[k] # NULL
                    /\ m_cursize > 0 => m_head = Chain[1]
                    /\ \A k \in 1..m_cursize : k > 1 => Chain[k] = m_next[Chain[k - 1]]
  OBVIOUS
<1>1. IsList(Chain, m_cursize, m_head, m_next)
  BY ChainIsList DEF ListInv, Linked
<1>2. m_cursize \in Nat /\ Cardinality(Node) \in Nat
  BY PqueueAssumption, FS_CardinalityType DEF ListInv, ThreadsOK
<1>3. \A k \in 1..m_cursize : Chain[k] \in Node /\ Chain[k] # NULL
  BY PqueueAssumption DEF ListInv, Linked, Owned
<1>4. Chain = [k \in 1..m_cursize |-> Chain[k]]
  BY <1>1 DEF IsList
<1>5. Chain \in Seq(Node) /\ Len(Chain) = m_cursize /\ DOMAIN Chain = 1..m_cursize
  <2>1. Chain \in [1..m_cursize -> Node]
    BY <1>3, <1>4
  <2>2. Chain \in Seq(Node)
    BY <1>2, <2>1, SeqDef
  <2>3. DOMAIN Chain = 1..m_cursize
    BY <1>4
  <2>. QED
    BY <1>2, <2>2, <2>3, LenProperties
<1>. QED
  BY <1>1, <1>2, <1>3, <1>5 DEF IsList

LEMMA ChainIsListAfter ==
  (m_cursize \in 0..Cardinality(Node) => IsList(Chain, m_cursize, m_head, m_next))'
BY ChainIsList, PTL

\* What is a list after a step is Chain.
LEMMA ChainAfter ==
  ASSUME NEW s, NEW n \in Nat, m_cursize' = n, n <= Cardinality(Node),
         IsList(s, n, m_head', m_next')
  PROVE  Chain' = s
<1>1. n \in 0..Cardinality(Node)
  BY PqueueAssumption, FS_CardinalityType
<1>2. IsList(Chain', n, m_head', m_next')
  BY <1>1, ChainIsListAfter
<1>. QED
  BY <1>2, ListUnique

\* A step that leaves the list's pointers alone leaves the list alone.
LEMMA ChainSame ==
  ASSUME ListInv, UNCHANGED <<m_head, m_cursize>>,
         \A k \in 1..m_cursize : m_next'[Chain[k]] = m_next[Chain[k]]
  PROVE  Chain' = Chain
<1>1. /\ m_cursize \in Nat /\ m_cursize <= Cardinality(Node)
      /\ m_cursize > 0 => m_head = Chain[1]
      /\ \A k \in 1..m_cursize : k > 1 => Chain[k] = m_next[Chain[k - 1]]
  BY ChainSeq DEF ListInv, Linked
<1>2. Chain = [k \in 1..m_cursize |-> Chain[k]]
  BY ChainIsList DEF ListInv, Linked, IsList
<1>3. ASSUME NEW k \in 1..m_cursize, k > 1
      PROVE  Chain[k] = m_next'[Chain[k - 1]]
  <2>1. k - 1 \in 1..m_cursize
    BY <1>1, <1>3
  <2>. QED
    BY <1>1, <1>3, <2>1
<1>4. IsList(Chain, m_cursize, m_head', m_next')
  BY <1>1, <1>2, <1>3 DEF IsList
<1>. QED
  BY <1>1, <1>4, ChainAfter

\* So it keeps what Linked says, if the nodes stay whose they are.
LEMMA LinkedSame ==
  ASSUME ListInv, UNCHANGED <<m_head, m_tail, m_cursize>>,
         m_next' \in [Node -> Node \cup {NULL}],
         \A k \in 1..m_cursize :
           /\ m_next'[Chain[k]] = m_next[Chain[k]]
           /\ Chain[k] \in alloc'
           /\ \A t \in Thread : hand'[t] # Chain[k]
  PROVE  Chain' = Chain /\ Linked'
<1>1. Chain' = Chain
  BY ChainSame
<1>2. m_cursize > 0 => m_cursize \in 1..m_cursize
  BY ChainSeq
<1>. QED
  BY <1>1, <1>2 DEF ListInv, Linked

\* A new node is nobody's.
LEMMA NewList ==
  ASSUME ListInv, NEW p \in Producer, NEW n \in Node, New(p, n)
  PROVE  Chain' = Chain /\ Owned' /\ Linked'
<1>1. /\ pc[p] = "idle" /\ n \notin alloc /\ alloc' = alloc \cup {n} /\ p \in Thread
      /\ hand' = [hand EXCEPT ![p] = n] /\ m_next' = [m_next EXCEPT ![n] = NULL]
      /\ pc' = [pc EXCEPT ![p] = "put"] /\ UNCHANGED <<m_head, m_tail, m_cursize>>
  BY DEF New, Step, Thread
<1>2. n # NULL
  BY PqueueAssumption
<1>3. m_next' \in [Node -> Node \cup {NULL}]
  BY <1>1 DEF ListInv, Linked
<1>4. ASSUME NEW k \in 1..m_cursize
      PROVE  /\ m_next'[Chain[k]] = m_next[Chain[k]] /\ Chain[k] \in alloc'
             /\ \A t \in Thread : hand'[t] # Chain[k]
  <2>1. Chain[k] \in alloc /\ Chain[k] \in Node /\ \A t \in Thread : hand[t] # Chain[k]
    BY DEF ListInv, Linked, Owned
  <2>. QED
    BY <1>1, <2>1 DEF ListInv, Linked, Owned
<1>5. Chain' = Chain /\ Linked'
  BY <1>1, <1>3, <1>4, LinkedSame
<1>6. Owned'
  BY <1>1, <1>2 DEF ListInv, ThreadsOK, Owned, Linked, Holding
<1>. QED
  BY <1>5, <1>6

\* Steps that change neither the list nor the owners: of the threads only
\* pc changes, and a thread that owns a node goes on owning it.
LEMMA IdleList ==
  ASSUME ListInv, UNCHANGED <<list, hand, alloc>>,
         \A t \in Thread : pc'[t] \in Holding <=> pc[t] \in Holding
  PROVE  Chain' = Chain /\ Owned' /\ Linked'
<1>1. UNCHANGED <<m_head, m_tail, m_next, m_cursize>>
  BY DEF list
<1>2. Chain' = Chain /\ Linked'
  BY <1>1, LinkedSame DEF ListInv, Linked
<1>3. Owned'
  BY <1>1 DEF ListInv, Owned
<1>. QED
  BY <1>2, <1>3

LEMMA DeleteList ==
  ASSUME ListInv, NEW c \in Consumer, Delete(c)
  PROVE  Chain' = Chain /\ Owned' /\ Linked'
<1>1. /\ pc[c] = "have" /\ alloc' = alloc \ {hand[c]} /\ c \in Thread
      /\ hand' = [hand EXCEPT ![c] = NULL]
      /\ pc' = [pc EXCEPT ![c] = "get"] /\ UNCHANGED <<m_head, m_tail, m_next, m_cursize>>
  BY DEF Delete, Step, Thread, list
<1>2. ASSUME NEW k \in 1..m_cursize
      PROVE  Chain[k] \in alloc' /\ \A t \in Thread : hand'[t] # Chain[k]
  <2>1. /\ Chain[k] \in alloc /\ Chain[k] # NULL
        /\ \A t \in Thread : hand[t] # Chain[k]
    BY ChainSeq DEF ListInv, Linked
  <2>. QED
    BY <1>1, <2>1 DEF ListInv, Owned
<1>3. Chain' = Chain /\ Linked'
  BY <1>1, <1>2, LinkedSame DEF ListInv, Linked
<1>4. hand[c] # NULL
  BY <1>1 DEF ListInv, Owned, Holding
<1>5. Owned'
  BY <1>1, <1>4 DEF ListInv, ThreadsOK, Owned, Holding
<1>. QED
  BY <1>3, <1>5

LEMMA ResetList ==
  ASSUME ListInv, resetqueue
  PROVE  Chain' = <<>> /\ Owned' /\ Linked'
<1>1. /\ alloc' = alloc \ {Chain[k] : k \in 1..m_cursize}
      /\ m_head' = NULL /\ m_tail' = HeadRef /\ m_cursize' = 0
      /\ UNCHANGED <<m_next, pc, hand>>
  BY DEF resetqueue
<1>2. Cardinality(Node) \in Nat /\ 0 <= Cardinality(Node)
  BY PqueueAssumption, FS_CardinalityType
<1>3. IsList(<<>>, 0, m_head', m_next')
  BY DEF IsList
<1>4. Chain' = <<>>
  BY <1>1, <1>2, <1>3, ChainAfter
<1>5. \A t \in Thread : hand[t] # NULL => hand[t] \in alloc'
  BY <1>1 DEF ListInv, Owned, Linked
<1>6. Owned'
  BY <1>1, <1>5 DEF ListInv, Owned
<1>7. Linked'
  BY <1>1, <1>2 DEF ListInv, Linked
<1>. QED
  BY <1>4, <1>6, <1>7

\* put links the node behind the last one, or at m_head.
LEMMA PutAppendList ==
  ASSUME ListInv, NEW p \in Producer, PutAppend(p)
  PROVE  Chain' = Append(Chain, hand[p]) /\ Owned' /\ Linked'
<1> DEFINE n == m_cursize
           s == [k \in 1..(n + 1) |-> IF k = n + 1 THEN hand[p] ELSE Chain[k]]
<1>1. /\ pc[p] \in {"put", "wokenfull"} /\ p \in Thread /\ p \notin Consumer
      /\ hand' = [hand EXCEPT ![p] = NULL] /\ alloc' = alloc
      /\ Link(hand[p])
  BY PqueueAssumption DEF PutAppend, Putting, Thread
<1>2. /\ hand[p] # NULL /\ hand[p] \in Node /\ hand[p] \in alloc
      /\ m_next[hand[p]] = NULL /\ NULL \notin Node /\ HeadRef \notin Node
  BY <1>1, PqueueAssumption DEF ListInv, Owned, Holding
<1>3. /\ n \in Nat /\ Cardinality(Node) \in Nat /\ m_cursize' = n + 1
      /\ Chain \in Seq(Node) /\ Len(Chain) = n
      /\ \A k \in 1..n : /\ Chain[k] \in Node /\ Chain[k] \in alloc
                         /\ \A t \in Thread : hand[t] # Chain[k]
      /\ \A j, k \in 1..n : j # k => Chain[j] # Chain[k]
  BY <1>1, ChainSeq DEF ListInv, Linked, Link
<1>4. /\ n > 0 => m_head = Chain[1]
      /\ \A k \in 1..n : k > 1 => Chain[k] = m_next[Chain[k - 1]]
  BY ChainSeq
<1>5. /\ n = 0 => m_head' = hand[p] /\ m_next' = m_next
      /\ n > 0 => m_next' = [m_next EXCEPT ![Chain[n]] = hand[p]] /\ m_head' = m_head
      /\ m_tail' = hand[p]
  <2>1. n = 0 => m_tail = HeadRef
    BY DEF ListInv, Linked
  <2>2. n > 0 => m_tail = Chain[n] /\ Chain[n] \in Node
    BY <1>3 DEF ListInv, Linked
  <2>. QED
    BY <1>1, <1>2, <1>3, <2>1, <2>2 DEF Link
<1>6. m_next \in [Node -> Node \cup {NULL}]
  BY DEF ListInv, Linked
<1>7. pc'[p] = "idle" /\ \A u \in Thread : u # p => (pc'[u] \in Holding <=> pc[u] \in Holding)
  <2>1. CASE m_freewait > 0
    <3>1. StepSignal(p, "idle", Consumer)
      BY <2>1 DEF PutAppend, SignalFree
    <3>2. \/ pc' = [pc EXCEPT ![p] = "idle"]
          \/ \E u \in Consumer : /\ pc[u] = Waiting(u)
                                 /\ pc' = [pc EXCEPT ![p] = "idle", ![u] = Woken(u)]
      BY <3>1 DEF StepSignal, Step, Blocked
    <3>3. \A u \in Consumer : u # p /\ Waiting(u) = "waitfree" /\ Woken(u) = "wokenfree"
      BY <1>1, PqueueAssumption DEF Waiting, Woken
    <3>. QED
      BY <1>1, <3>2, <3>3 DEF ListInv, ThreadsOK, Holding
  <2>2. CASE ~(m_freewait > 0)
    BY <1>1, <2>2 DEF PutAppend, SignalFree, Step, ListInv, ThreadsOK
  <2>. QED
    BY <2>1, <2>2
<1> HIDE DEF n
<1>8. /\ \A k \in 1..(n + 1) : s[k] \in Node
      /\ \A j, k \in 1..(n + 1) : j # k => s[j] # s[k]
      /\ s[n + 1] = hand[p] /\ \A k \in 1..n : s[k] = Chain[k]
      /\ DOMAIN s = 1..(n + 1)
  BY <1>1, <1>2, <1>3
<1>9. s = Append(Chain, hand[p])
  BY <1>3
<1>10. s = [k \in 1..(n + 1) |-> s[k]]
  OBVIOUS
<1> HIDE DEF s
<1>11. n + 1 <= Cardinality(Node)
  <2>1. s \in [1..(n + 1) -> Node]
    BY <1>8, <1>10
  <2>2. s \in Injection(1..(n + 1), Node)
    BY <1>8, <2>1 DEF Injection, IsInjective
  <2>3. Cardinality(1..(n + 1)) <= Cardinality(Node)
    BY <2>2, PqueueAssumption, FS_Injection
  <2>4. Cardinality(1..(n + 1)) = n + 1
    BY <1>3, FS_Interval
  <2>. QED
    BY <2>3, <2>4
<1>12. IsList(s, n + 1, m_head', m_next')
  <2>1. s[1] = m_head'
    <3>1. CASE n = 0
      BY <1>5, <1>8, <3>1
    <3>2. CASE n > 0
      <4>1. 1 \in 1..n
        BY <1>3, <3>2
      <4>. QED
        BY <1>4, <1>5, <1>8, <3>2, <4>1
    <3>. QED
      BY <1>3, <3>1, <3>2
  <2>2. ASSUME NEW k \in 1..(n + 1), k > 1
        PROVE  s[k] = m_next'[s[k - 1]]
    <3>1. k - 1 \in 1..n /\ n \in 1..n /\ n > 0
      BY <1>3, <2>2
    <3>2. s[k - 1] = Chain[k - 1] /\ Chain[k - 1] \in Node /\ Chain[n] \in Node
      BY <1>3, <1>8, <3>1
    <3>3. CASE k = n + 1
      BY <1>3, <1>5, <1>6, <1>8, <3>1, <3>2, <3>3
    <3>4. CASE k # n + 1
      <4>1. k \in 1..n /\ k - 1 # n
        BY <1>3, <2>2, <3>4
      <4>2. Chain[k - 1] # Chain[n]
        BY <1>3, <3>1, <4>1
      <4>. QED
        BY <1>4, <1>5, <1>6, <1>8, <2>2, <3>1, <3>2, <4>1, <4>2
    <3>. QED
      BY <3>3, <3>4
  <2>. QED
    BY <1>10, <2>1, <2>2 DEF IsList
<1>13. Chain' = s
  BY <1>3, <1>11, <1>12, ChainAfter
<1>14. m_next'[hand[p]] = NULL /\ m_next' \in [Node -> Node \cup {NULL}]
  <2>1. n > 0 => Chain[n] # hand[p] /\ Chain[n] \in Node
    BY <1>1, <1>3
  <2>. QED
    BY <1>2, <1>3, <1>5, <1>6, <2>1
<1>15. Linked'
  <2>1. ASSUME NEW k \in 1..(n + 1)
        PROVE  s[k] \in alloc' /\ \A t \in Thread : hand'[t] # s[k]
    <3>1. CASE k = n + 1
      BY <1>1, <1>2, <1>8, <3>1 DEF ListInv, Owned
    <3>2. CASE k # n + 1
      <4>1. k \in 1..n
        BY <1>3, <3>2
      <4>2. s[k] # NULL
        BY <1>2, <1>8
      <4>. QED
        BY <1>1, <1>3, <1>8, <4>1, <4>2 DEF ListInv, Owned
    <3>. QED
      BY <3>1, <3>2
  <2>2. m_cursize' = n + 1 /\ n + 1 > 0 /\ n + 1 \in 0..Cardinality(Node)
    BY <1>3, <1>11
  <2>. QED
    BY <1>5, <1>8, <1>13, <1>14, <2>1, <2>2 DEF Linked
<1>16. Owned'
  <2>1. \A q \in Producer : q # p /\ hand[q] # NULL => m_next'[hand[q]] = NULL
    <3>1. ASSUME NEW q \in Producer, q # p, hand[q] # NULL
          PROVE  m_next'[hand[q]] = NULL
      <4>1. q \in Thread /\ m_next[hand[q]] = NULL /\ hand[q] \in Node
        BY <3>1 DEF ListInv, Owned, Thread
      <4>2. n > 0 => Chain[n] # hand[q] /\ Chain[n] \in Node
        BY <1>3, <4>1
      <4>. QED
        BY <1>3, <1>5, <1>6, <4>1, <4>2
    <3>. QED
      BY <3>1
  <2>2. ~("idle" \in Holding)
    BY DEF Holding
  <2>. QED
    BY <1>1, <1>7, <2>1, <2>2 DEF ListInv, Owned
<1>. QED
  BY <1>9, <1>13, <1>15, <1>16

\* get unlinks the first node, which the consumer now owns.
LEMMA GetTakeList ==
  ASSUME ListInv, NEW c \in Consumer, GetTake(c)
  PROVE  /\ Chain # <<>> /\ hand[c] = NULL
         /\ hand' = [hand EXCEPT ![c] = Head(Chain)]
         /\ Chain' = Tail(Chain) /\ Owned' /\ Linked'
<1> DEFINE n == m_cursize
           s == [k \in 1..(n - 1) |-> Chain[k + 1]]
<1>1. /\ pc[c] \in {"get", "wokenfree"} /\ c \in Thread /\ c \notin Producer
      /\ hand' = [hand EXCEPT ![c] = m_head] /\ alloc' = alloc
      /\ m_head' = m_next[m_head] /\ m_cursize' = n - 1 /\ m_next' = m_next
      /\ m_tail' = (IF m_head' = NULL THEN HeadRef ELSE m_tail)
      /\ n > 0
  BY PqueueAssumption DEF GetTake, Getting, Thread, Unlink
<1>2. hand[c] = NULL /\ NULL \notin Node /\ HeadRef \notin Node
  BY <1>1, PqueueAssumption DEF ListInv, Owned, Holding
<1>3. /\ n \in Nat /\ Cardinality(Node) \in Nat /\ n <= Cardinality(Node)
      /\ Chain \in Seq(Node) /\ Len(Chain) = n /\ DOMAIN Chain = 1..n
      /\ \A k \in 1..n : /\ Chain[k] \in Node /\ Chain[k] \in alloc /\ Chain[k] # NULL
                         /\ \A t \in Thread : hand[t] # Chain[k]
      /\ \A j, k \in 1..n : j # k => Chain[j] # Chain[k]
  BY ChainSeq DEF ListInv, Linked
<1>4. /\ m_head = Chain[1]
      /\ \A k \in 1..n : k > 1 => Chain[k] = m_next[Chain[k - 1]]
      /\ m_tail = Chain[n] /\ m_next[Chain[n]] = NULL
  BY <1>1, ChainSeq DEF ListInv, Linked
<1>5. pc'[c] = "have" /\ \A u \in Thread : u # c => (pc'[u] \in Holding <=> pc[u] \in Holding)
  <2>1. CASE m_fullwait > 0
    <3>1. StepSignal(c, "have", Producer)
      BY <2>1 DEF GetTake, SignalFull
    <3>2. \/ pc' = [pc EXCEPT ![c] = "have"]
          \/ \E u \in Producer : /\ pc[u] = Waiting(u)
                                 /\ pc' = [pc EXCEPT ![c] = "have", ![u] = Woken(u)]
      BY <3>1 DEF StepSignal, Step, Blocked
    <3>3. \A u \in Producer : u # c /\ Waiting(u) = "waitfull" /\ Woken(u) = "wokenfull"
      BY <1>1, PqueueAssumption DEF Waiting, Woken
    <3>. QED
      BY <1>1, <3>2, <3>3 DEF ListInv, ThreadsOK, Holding
  <2>2. CASE ~(m_fullwait > 0)
    BY <1>1, <2>2 DEF GetTake, SignalFull, Step, ListInv, ThreadsOK
  <2>. QED
    BY <2>1, <2>2
<1> HIDE DEF n
<1>6. 1 \in 1..n /\ n \in 1..n /\ n - 1 \in Nat
  BY <1>1, <1>3
<1>7. Head(Chain) = Chain[1] /\ Chain # <<>> /\ s = Tail(Chain)
  <2>1. Chain # <<>>
    BY <1>3, <1>6, EmptySeq
  <2>2. /\ Tail(Chain) \in Seq(Node) /\ Len(Tail(Chain)) = n - 1
        /\ \A k \in 1..(n - 1) : Tail(Chain)[k] = Chain[k + 1]
    BY <1>3, <2>1, HeadTailProperties
  <2>3. s \in [1..(n - 1) -> Node]
    BY <1>3
  <2>4. s \in Seq(Node) /\ Len(s) = n - 1
    BY <1>6, <2>3, SeqDef, LenProperties
  <2>5. Tail(Chain) = s
    <3>1. \A k \in 1..Len(s) : s[k] = Tail(Chain)[k]
      BY <2>2, <2>4
    <3> HIDE DEF s
    <3>. QED
      BY <2>2, <2>4, <3>1, SeqEqual
  <2>6. Head(Chain) = Chain[1]
    BY <1>3, <2>1
  <2>. QED
    BY <2>1, <2>5, <2>6
<1>8. \A k \in 1..(n - 1) : k + 1 \in 1..n /\ k + 1 # 1 /\ s[k] = Chain[k + 1]
  BY <1>3
<1>9. s = [k \in 1..(n - 1) |-> s[k]]
  OBVIOUS
<1> HIDE DEF s
<1>10. n > 1 => m_head' = Chain[2] /\ Chain[2] \in Node /\ 2 \in 1..n
  BY <1>1, <1>3, <1>4
<1>11. IsList(s, n - 1, m_head', m_next')
  <2>1. n - 1 > 0 => s[1] = m_head'
    BY <1>3, <1>8, <1>10
  <2>2. ASSUME NEW k \in 1..(n - 1), k > 1
        PROVE  s[k] = m_next'[s[k - 1]]
    <3>1. k - 1 \in 1..(n - 1) /\ (k - 1) + 1 = k /\ k + 1 > 1 /\ (k + 1) - 1 = k
      BY <1>3, <2>2
    <3>2. s[k - 1] = Chain[k] /\ s[k] = Chain[k + 1] /\ k + 1 \in 1..n
      BY <1>8, <3>1
    <3>. QED
      BY <1>1, <1>4, <3>1, <3>2
  <2>. QED
    BY <1>9, <2>1, <2>2 DEF IsList
<1>12. m_cursize' = n - 1 /\ n - 1 <= Cardinality(Node)
  BY <1>1, <1>3
<1>13. Chain' = s
  BY <1>6, <1>11, <1>12, ChainAfter
<1>14. Linked'
  <2>1. ASSUME NEW k \in 1..(n - 1)
        PROVE  s[k] \in alloc' /\ \A t \in Thread : hand'[t] # s[k]
    <3>1. /\ s[k] \in alloc /\ s[k] # Chain[1]
          /\ \A t \in Thread : hand[t] # s[k]
      BY <1>3, <1>6, <1>8
    <3>. QED
      BY <1>1, <1>4, <3>1 DEF ListInv, Owned
  <2>2. \A j, k \in 1..(n - 1) : j # k => s[j] # s[k]
    <3>1. ASSUME NEW j \in 1..(n - 1), NEW k \in 1..(n - 1), j # k
          PROVE  s[j] # s[k]
      <4>1. j + 1 # k + 1
        BY <1>3, <3>1
      <4>. QED
        BY <1>3, <1>8, <4>1
    <3>. QED
      BY <3>1
  <2>3. m_cursize' = 0 => m_head' = NULL /\ m_tail' = HeadRef
    <3>1. m_cursize' = 0 => n = 1
      BY <1>3, <1>12
    <3>. QED
      BY <1>1, <1>4, <3>1
  <2>4. m_cursize' > 0 => m_tail' = s[n - 1] /\ m_next'[s[n - 1]] = NULL
    <3>1. m_cursize' > 0 => n > 1 /\ n - 1 \in 1..(n - 1) /\ (n - 1) + 1 = n
      BY <1>3, <1>12
    <3>2. m_cursize' > 0 => s[n - 1] = Chain[n]
      BY <1>8, <3>1
    <3>. QED
      BY <1>1, <1>2, <1>4, <1>10, <3>1, <3>2
  <2>5. m_next' \in [Node -> Node \cup {NULL}]
    BY <1>1 DEF ListInv, Linked
  <2>6. m_cursize' \in 0..Cardinality(Node)
    BY <1>3, <1>6, <1>12
  <2>. QED
    BY <1>12, <1>13, <2>1, <2>2, <2>3, <2>4, <2>5, <2>6 DEF Linked
<1>15. Owned'
  <2>1. /\ m_head \in Node /\ m_head \in alloc /\ m_head # NULL
        /\ \A t \in Thread : hand[t] # m_head
    BY <1>3, <1>4, <1>6
  <2>2. "have" \in Holding
    BY DEF Holding
  <2>. QED
    BY <1>1, <1>5, <2>1, <2>2 DEF ListInv, Owned
<1>. QED
  BY <1>1, <1>2, <1>4, <1>7, <1>13, <1>14, <1>15

-----------------------------------------------------------------------------
(* The list is intact *)

\* What a step does to Chain, for each part of Next.
ChainStep ==
  \/ /\ Chain' = Chain /\ UNCHANGED m_maxsize
     /\ \/ UNCHANGED hand
        \/ \E p \in Producer, n \in Node : New(p, n)
        \/ \E c \in Consumer : Delete(c)
  \/ \E p \in Producer : PutAppend(p) /\ Chain' = Append(Chain, hand[p])
  \/ \E c \in Consumer :
       /\ GetTake(c) /\ Chain # <<>> /\ hand[c] = NULL
       /\ hand' = [hand EXCEPT ![c] = Head(Chain)] /\ Chain' = Tail(Chain)
  \/ \E size \in Sizes : setsize(size) /\ Chain' = Chain /\ UNCHANGED hand
  \/ resetqueue /\ Chain' = <<>> /\ UNCHANGED hand

LEMMA ListInit == Init => Chain = <<>> /\ Owned /\ Linked
<1> SUFFICES ASSUME Init
             PROVE  Chain = <<>> /\ Owned /\ Linked
  OBVIOUS
<1>1. Cardinality(Node) \in Nat /\ 0 \in 0..Cardinality(Node) /\ m_cursize = 0
  BY PqueueAssumption, FS_CardinalityType DEF Init
<1>2. IsList(Chain, 0, m_head, m_next)
  BY <1>1, ChainIsList
<1>3. IsList(<<>>, 0, m_head, m_next)
  BY DEF IsList
<1>4. Chain = <<>>
  BY <1>2, <1>3, ListUnique
<1>5. Owned
  <2>1. \A t \in Thread : hand[t] = NULL /\ pc[t] \in {"idle", "get"}
    BY DEF Init
  <2>2. hand \in [Thread -> Node \cup {NULL}] /\ alloc = {}
    BY DEF Init
  <2>3. \A t \in Thread : ~(pc[t] \in Holding)
    BY <2>1 DEF Holding
  <2>. QED
    BY <2>1, <2>2, <2>3 DEF Owned, Thread
<1>6. Linked
  BY <1>1 DEF Init, Linked
<1>. QED
  BY <1>4, <1>5, <1>6

LEMMA ListNext ==
  ASSUME ListInv, [Next]_vars
  PROVE  ChainStep /\ Owned' /\ Linked'
<1>1. CASE UNCHANGED vars
  <2>1. UNCHANGED <<list, m_maxsize, hand, alloc, pc>>
    BY <1>1 DEF vars
  <2>. QED
    BY <2>1, IdleList DEF ChainStep
<1>2. ASSUME NEW p \in Producer, NEW n \in Node, New(p, n)
      PROVE  ChainStep /\ Owned' /\ Linked'
  <2>1. UNCHANGED m_maxsize
    BY <1>2 DEF New
  <2>. QED
    BY <1>2, <2>1, NewList DEF ChainStep
<1>3. ASSUME NEW p \in Producer, PutWait(p)
      PROVE  ChainStep /\ Owned' /\ Linked'
  <2>1. UNCHANGED <<list, m_maxsize, hand, alloc>>
    BY <1>3 DEF PutWait
  <2>2. \A t \in Thread : pc'[t] \in Holding <=> pc[t] \in Holding
    BY <1>3 DEF PutWait, Putting, Step, ListInv, ThreadsOK, Holding
  <2>. QED
    BY <2>1, <2>2, IdleList DEF ChainStep
<1>4. ASSUME NEW p \in Producer, PutAppend(p)
      PROVE  ChainStep /\ Owned' /\ Linked'
  BY <1>4, PutAppendList DEF ChainStep
<1>5. ASSUME NEW c \in Consumer, GetWait(c)
      PROVE  ChainStep /\ Owned' /\ Linked'
  <2>1. UNCHANGED <<list, m_maxsize, hand, alloc>>
    BY <1>5 DEF GetWait
  <2>2. \A t \in Thread : pc'[t] \in Holding <=> pc[t] \in Holding
    BY <1>5 DEF GetWait, Getting, Step, ListInv, ThreadsOK, Holding
  <2>. QED
    BY <2>1, <2>2, IdleList DEF ChainStep
<1>6. ASSUME NEW c \in Consumer, GetNull(c)
      PROVE  ChainStep /\ Owned' /\ Linked'
  <2>1. UNCHANGED <<list, m_maxsize, hand, alloc>>
    BY <1>6 DEF GetNull
  <2>2. \A t \in Thread : pc'[t] \in Holding <=> pc[t] \in Holding
    BY <1>6 DEF GetNull, Getting, Step, ListInv, ThreadsOK, Holding
  <2>. QED
    BY <2>1, <2>2, IdleList DEF ChainStep
<1>7. ASSUME NEW c \in Consumer, GetTake(c)
      PROVE  ChainStep /\ Owned' /\ Linked'
  BY <1>7, GetTakeList DEF ChainStep
<1>8. ASSUME NEW c \in Consumer, Delete(c)
      PROVE  ChainStep /\ Owned' /\ Linked'
  <2>1. UNCHANGED m_maxsize
    BY <1>8 DEF Delete
  <2>. QED
    BY <1>8, <2>1, DeleteList DEF ChainStep
<1>9. ASSUME NEW t \in Thread, Spurious(t)
      PROVE  ChainStep /\ Owned' /\ Linked'
  <2>1. UNCHANGED <<list, m_maxsize, hand, alloc>>
    BY <1>9 DEF Spurious
  <2>2. \A u \in Thread : pc'[u] \in Holding <=> pc[u] \in Holding
    BY <1>9 DEF Spurious, Waiting, Woken, Step, ListInv, ThreadsOK, Holding
  <2>. QED
    BY <2>1, <2>2, IdleList DEF ChainStep
<1>10. ASSUME NEW size \in Sizes, setsize(size)
       PROVE  ChainStep /\ Owned' /\ Linked'
  <2>1. UNCHANGED <<list, hand, alloc, pc>>
    BY <1>10 DEF setsize
  <2>. QED
    BY <1>10, <2>1, IdleList DEF ChainStep
<1>11. CASE logover
  <2>1. CASE setflag(1)
    <3>1. UNCHANGED <<list, m_maxsize, hand, alloc, pc>>
      BY <2>1 DEF setflag
    <3>. QED
      BY <3>1, IdleList DEF ChainStep
  <2>2. CASE releaseFree
    <3>1. UNCHANGED <<list, m_maxsize, hand, alloc>>
      BY <2>2 DEF releaseFree
    <3>2. \A u \in Thread : pc'[u] \in Holding <=> pc[u] \in Holding
      <4>1. \A u \in Consumer : Woken(u) = "wokenfree" /\ Waiting(u) = "waitfree"
        BY PqueueAssumption DEF Woken, Waiting
      <4>. QED
        BY <2>2, <4>1 DEF releaseFree, Blocked, Holding
    <3>. QED
      BY <3>1, <3>2, IdleList DEF ChainStep
  <2>3. CASE resetqueue
    <3>1. UNCHANGED hand
      BY <2>3 DEF resetqueue
    <3>. QED
      BY <2>3, <3>1, ResetList DEF ChainStep
  <2>. QED
    BY <1>11, <2>1, <2>2, <2>3 DEF logover, OverCall
<1>. QED
  BY <1>1, <1>2, <1>3, <1>4, <1>5, <1>6, <1>7, <1>8, <1>9, <1>10, <1>11
     DEF Next, Produce, Consume

\* The invariant of the whole queue: the threads, the counters and the list.
QueueInv == WaitInv /\ Owned /\ Linked

LEMMA QueueInductive == Spec => []QueueInv
<1>1. Init => QueueInv
  BY CountsInit, ListInit DEF QueueInv
<1>2. QueueInv /\ [Next]_vars => QueueInv'
  BY CountsNext, ListNext DEF QueueInv, WaitInv, ListInv
<1>. QED
  BY <1>1, <1>2, PTL DEF Spec

\* The list is well formed whenever the lock is free: m_cursize distinct nodes
\* from m_head to a null m_next, m_tail at the last one, none of them deleted
\* or owned by a thread, for any number of threads and nodes.
THEOREM ListsIntact == Spec => []ListIntact
<1>1. QueueInv => ListIntact
  <2> SUFFICES ASSUME QueueInv
               PROVE  ListIntact
    OBVIOUS
  <2>1. m_cursize \in Nat /\ Cardinality(Node) \in Nat /\ m_cursize <= Cardinality(Node)
    BY PqueueAssumption, FS_CardinalityType DEF QueueInv, Linked
  <2>. QED
    BY <2>1 DEF QueueInv, Linked, ListIntact
<1>. QED
  BY <1>1, QueueInductive, PTL

-----------------------------------------------------------------------------
(* The queue is a bounded FIFO *)

\* Each part of ChainStep is an operation of the abstract queue, or a stutter.
LEMMA FifoStep ==
  ASSUME QueueInv, ChainStep
  PROVE  [Abstract!Next]_(Abstract!vars)
<1>0. ListInv
  BY DEF QueueInv, WaitInv, ListInv
<1>1. /\ Len(Chain) = m_cursize /\ DOMAIN Chain = 1..m_cursize
      /\ \A k \in 1..m_cursize : Chain[k] \in alloc
      /\ \A t \in Thread : hand[t] # NULL <=> pc[t] \in Holding
      /\ \A t \in Thread : hand[t] = NULL \/ hand[t] \in alloc
  BY <1>0, ChainSeq DEF ListInv, Owned, Linked
<1>2. Abstract!Thread = Thread
  BY DEF Abstract!Thread, Thread
<1>3. ASSUME NEW p \in Producer, NEW n \in Node, New(p, n),
             Chain' = Chain, UNCHANGED m_maxsize
      PROVE  Abstract!Next
  <2>1. /\ pc[p] = "idle" /\ n \notin alloc /\ n # NULL /\ p \in Thread
        /\ hand' = [hand EXCEPT ![p] = n]
    BY <1>3, PqueueAssumption DEF New, Thread
  <2>2. hand[p] = NULL
    BY <1>1, <2>1 DEF Holding
  <2>3. n \notin Abstract!Used
    BY <1>1, <1>2, <2>1 DEF Abstract!Used, Abstract!ToSet
  <2>4. Abstract!New(p, n)
    BY <1>3, <2>1, <2>2, <2>3 DEF Abstract!New
  <2>. QED
    BY <2>4 DEF Abstract!Next
<1>4. ASSUME NEW c \in Consumer, Delete(c), Chain' = Chain, UNCHANGED m_maxsize
      PROVE  Abstract!Next
  <2>1. pc[c] = "have" /\ c \in Thread /\ hand' = [hand EXCEPT ![c] = NULL]
    BY <1>4 DEF Delete, Thread
  <2>2. hand[c] # NULL
    BY <1>1, <2>1 DEF Holding
  <2>3. Abstract!Delete(c)
    BY <1>4, <2>1, <2>2 DEF Abstract!Delete
  <2>. QED
    BY <2>3 DEF Abstract!Next
<1>5. ASSUME NEW p \in Producer, PutAppend(p), Chain' = Append(Chain, hand[p])
      PROVE  Abstract!Next
  <2>1. /\ pc[p] \in {"put", "wokenfull"} /\ m_cursize < m_maxsize /\ p \in Thread
        /\ hand' = [hand EXCEPT ![p] = NULL] /\ UNCHANGED m_maxsize
    BY <1>5 DEF PutAppend, Putting, Thread
  <2>2. hand[p] # NULL
    BY <1>1, <2>1 DEF Holding
  <2>3. Abstract!Put(p)
    BY <1>1, <1>5, <2>1, <2>2 DEF Abstract!Put
  <2>. QED
    BY <2>3 DEF Abstract!Next
<1>6. ASSUME NEW c \in Consumer, GetTake(c), Chain # <<>>, hand[c] = NULL,
             hand' = [hand EXCEPT ![c] = Head(Chain)], Chain' = Tail(Chain)
      PROVE  Abstract!Next
  <2>1. UNCHANGED m_maxsize
    BY <1>6 DEF GetTake
  <2>2. Abstract!Get(c)
    BY <1>6, <2>1 DEF Abstract!Get
  <2>. QED
    BY <2>2 DEF Abstract!Next
<1>7. ASSUME NEW size \in Sizes, setsize(size), Chain' = Chain, UNCHANGED hand
      PROVE  [Abstract!Next]_(Abstract!vars)
  <2>1. CASE size > m_cursize
    <3>1. m_maxsize' = size
      BY <1>7, <2>1 DEF setsize, MaySize
    <3>2. Abstract!SetSize(size)
      BY <1>1, <1>7, <2>1, <3>1 DEF Abstract!SetSize
    <3>. QED
      BY <3>2 DEF Abstract!Next
  <2>2. CASE ~(size > m_cursize)
    <3>1. UNCHANGED m_maxsize
      BY <1>7, <2>2 DEF setsize, MaySize
    <3>. QED
      BY <1>7, <3>1 DEF Abstract!vars
  <2>. QED
    BY <2>1, <2>2
<1>8. ASSUME resetqueue, Chain' = <<>>, UNCHANGED hand
      PROVE  Abstract!Next
  <2>1. m_maxsize' = DefaultSize
    BY <1>8 DEF resetqueue
  <2>2. Abstract!Reset
    BY <1>8, <2>1 DEF Abstract!Reset
  <2>. QED
    BY <2>2 DEF Abstract!Next
<1>9. ASSUME Chain' = Chain, UNCHANGED <<m_maxsize, hand>>
      PROVE  UNCHANGED Abstract!vars
  BY <1>9 DEF Abstract!vars
<1>. QED
  BY <1>3, <1>4, <1>5, <1>6, <1>7, <1>8, <1>9 DEF ChainStep

\* pqueue implements the bounded FIFO Fifo: its list holds the waiting nodes in
\* the order of the puts, each is handed out once, and the list never holds
\* more than m_maxsize of them, whoever blocks and wakes up in between.
THEOREM FifoImplemented == Spec => ImplementsFifo
<1>1. Init => Abstract!Init
  <2> SUFFICES ASSUME Init
               PROVE  Abstract!Init
    OBVIOUS
  <2>1. Chain = <<>>
    BY ListInit
  <2>2. m_maxsize = DefaultSize /\ hand = [t \in Thread |-> NULL]
    BY DEF Init
  <2>. QED
    BY <2>1, <2>2 DEF Abstract!Init, Abstract!Thread, Thread
<1>2. QueueInv /\ [Next]_vars => [Abstract!Next]_(Abstract!vars)
  <2>1. QueueInv /\ [Next]_vars => ChainStep
    BY ListNext DEF QueueInv, WaitInv, ListInv
  <2>. QED
    BY <2>1, FifoStep
<1>. QED
  BY <1>1, <1>2, QueueInductive, PTL DEF Spec, ImplementsFifo, Abstract!Spec
=============================================================================
