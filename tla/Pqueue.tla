------------------------------- MODULE Pqueue -------------------------------
(***************************************************************************)
(* The blocking queue of src/tpqueue.h and the threads that use it for     *)
(* logging: any thread puts a line (logmt::logstring), mtlogthr gets the   *)
(* lines and writes them.                                                  *)
(*                                                                         *)
(* m_lock is held from the start of a call to its end or to                *)
(* pthread_cond_wait(), so every action below is what one thread does      *)
(* while it holds the lock.  A thread in pthread_cond_wait() is "waiting"; *)
(* a signal makes one of the waiting threads "woken", which then competes  *)
(* for the lock and looks at its condition again.  A signal with no thread *)
(* waiting is lost; a thread may also wake up spuriously.                  *)
(*                                                                         *)
(* logmt::logover closes the log with three calls, setflag(1),             *)
(* releaseFree() and resetqueue(), one after the other.  The flag is 1     *)
(* between the first and the third only, so the log thread may miss it.    *)
(***************************************************************************)
EXTENDS Naturals, Sequences, FiniteSets

CONSTANTS Producer, Consumer,  \* the threads
          Node,                \* addresses operator new can return
          NULL,
          HeadRef,             \* the address &m_head
          DefaultSize,         \* DEFAULT_SIZE
          Sizes,               \* arguments of setsize
          MaxEvents            \* bound on its calls and spurious wakeups

ASSUME PqueueAssumption ==
  /\ Producer \cap Consumer = {}
  /\ IsFiniteSet(Producer) /\ IsFiniteSet(Consumer) /\ IsFiniteSet(Node)
  /\ NULL \notin Node /\ HeadRef \notin Node
  /\ DefaultSize \in Nat /\ Sizes \subseteq Nat /\ MaxEvents \in Nat

VARIABLES m_head,
          m_tail,      \* HeadRef, or the node whose m_next it points to
          m_next,
          m_cursize, m_maxsize, m_overflag, m_fullwait, m_freewait,
          pc, hand,    \* per thread: where it is, the node it owns
          alloc,       \* nodes that exist
          over,        \* the calls of logover that are done
          sized,       \* history: whether setsize was called
          events

list == <<m_head, m_tail, m_next, m_cursize>>
log == <<over, sized, events>>
vars == <<list, m_maxsize, m_overflag, m_fullwait, m_freewait, pc, hand, alloc, log>>

Thread == Producer \cup Consumer
Waiting(t) == IF t \in Producer THEN "waitfull" ELSE "waitfree"
Woken(t) == IF t \in Producer THEN "wokenfull" ELSE "wokenfree"
At(s) == {t \in Thread : pc[t] = s}
Blocked(T) == {t \in T : pc[t] = Waiting(t)}

Init ==
  /\ m_head = NULL /\ m_tail = HeadRef
  /\ m_next = [n \in Node |-> NULL]
  /\ m_cursize = 0 /\ m_maxsize = DefaultSize
  /\ m_overflag = 0 /\ m_fullwait = 0 /\ m_freewait = 0
  /\ pc = [t \in Thread |-> IF t \in Producer THEN "idle" ELSE "get"]
  /\ hand = [t \in Thread |-> NULL]
  /\ alloc = {} /\ over = 0 /\ sized = FALSE /\ events = 0

\* pc after thread t went on to s and, if signalled, one thread of T woke up.
Step(t, s) == pc' = [pc EXCEPT ![t] = s]
StepSignal(t, s, T) ==
  IF Blocked(T) = {} THEN Step(t, s)
  ELSE \E u \in Blocked(T) : pc' = [pc EXCEPT ![t] = s, ![u] = Woken(u)]

-----------------------------------------------------------------------------
\* logmt::logstring makes a node and calls put, which clears m_next.
New(p, n) ==
  /\ pc[p] = "idle" /\ n \notin alloc
  /\ alloc' = alloc \cup {n}
  /\ hand' = [hand EXCEPT ![p] = n]
  /\ m_next' = [m_next EXCEPT ![n] = NULL]
  /\ Step(p, "put")
  /\ UNCHANGED <<m_head, m_tail, m_cursize, m_maxsize, m_overflag, m_fullwait,
                 m_freewait, log>>

Putting(p) == pc[p] \in {"put", "wokenfull"}

\* put: the queue is full.
PutWait(p) ==
  /\ Putting(p) /\ m_cursize >= m_maxsize
  /\ m_fullwait' = m_fullwait + 1
  /\ Step(p, "waitfull")
  /\ UNCHANGED <<list, m_maxsize, m_overflag, m_freewait, hand, alloc, log>>

\* Two bugs: the signal is sent only when the queue was empty, or never.
SignalFreeIfEmpty(p) ==
  IF m_freewait > 0 /\ m_cursize = 0
  THEN m_freewait' = m_freewait - 1 /\ StepSignal(p, "idle", Consumer)
  ELSE UNCHANGED m_freewait /\ Step(p, "idle")
SignalFreeNever(p) == UNCHANGED m_freewait /\ Step(p, "idle")

SignalFree(p) ==
  IF m_freewait > 0
  THEN m_freewait' = m_freewait - 1 /\ StepSignal(p, "idle", Consumer)
  ELSE UNCHANGED m_freewait /\ Step(p, "idle")

\* A bug: the node goes to the front of the list.
LinkAtHead(n) ==
  /\ m_head' = n /\ m_next' = [m_next EXCEPT ![n] = m_head]
  /\ m_tail' = IF m_tail = HeadRef THEN n ELSE m_tail
  /\ m_cursize' = m_cursize + 1

\* *m_tail = val; m_tail = &val->m_next.
Link(n) ==
  /\ IF m_tail = HeadRef
     THEN m_head' = n /\ UNCHANGED m_next
     ELSE m_next' = [m_next EXCEPT ![m_tail] = n] /\ UNCHANGED m_head
  /\ m_tail' = n
  /\ m_cursize' = m_cursize + 1

\* put: there is room.
PutAppend(p) ==
  /\ Putting(p) /\ m_cursize < m_maxsize
  /\ Link(hand[p])
  /\ hand' = [hand EXCEPT ![p] = NULL]
  /\ SignalFree(p)
  /\ UNCHANGED <<m_maxsize, m_overflag, m_fullwait, alloc, log>>

Getting(c) == pc[c] \in {"get", "wokenfree"}

\* get: the queue is empty.
GetWait(c) ==
  /\ Getting(c) /\ m_cursize = 0 /\ m_overflag = 0
  /\ m_freewait' = m_freewait + 1
  /\ Step(c, "waitfree")
  /\ UNCHANGED <<list, m_maxsize, m_overflag, m_fullwait, hand, alloc, log>>

\* get returns 0 once the flag is set, empty queue or not; mtlogthr ends.
GetNull(c) ==
  /\ Getting(c) /\ m_overflag # 0
  /\ Step(c, "stopped")
  /\ UNCHANGED <<list, m_maxsize, m_overflag, m_fullwait, m_freewait, hand,
                 alloc, log>>

\* A bug: m_tail keeps pointing into the node handed out.
UnlinkKeepsTail ==
  /\ m_head' = m_next[m_head] /\ m_cursize' = m_cursize - 1
  /\ UNCHANGED <<m_next, m_tail>>

Unlink ==
  /\ m_head' = m_next[m_head] /\ m_cursize' = m_cursize - 1
  /\ m_tail' = IF m_head' = NULL THEN HeadRef ELSE m_tail
  /\ UNCHANGED m_next

\* A bug: the counter of waiting producers falls, no producer wakes up.
SignalFullLost(c) ==
  /\ m_fullwait' = IF m_fullwait > 0 THEN m_fullwait - 1 ELSE 0
  /\ Step(c, "have")

SignalFull(c) ==
  IF m_fullwait > 0
  THEN m_fullwait' = m_fullwait - 1 /\ StepSignal(c, "have", Producer)
  ELSE UNCHANGED m_fullwait /\ Step(c, "have")

\* get takes the oldest node.
GetTake(c) ==
  /\ Getting(c) /\ m_cursize > 0 /\ m_overflag = 0
  /\ hand' = [hand EXCEPT ![c] = m_head]
  /\ Unlink
  /\ SignalFull(c)
  /\ UNCHANGED <<m_maxsize, m_overflag, m_freewait, alloc, log>>

\* mtlogthr writes the line, deletes the node and calls get again.
Delete(c) ==
  /\ pc[c] = "have"
  /\ alloc' = alloc \ {hand[c]}
  /\ hand' = [hand EXCEPT ![c] = NULL]
  /\ Step(c, "get")
  /\ UNCHANGED <<list, m_maxsize, m_overflag, m_fullwait, m_freewait, log>>

-----------------------------------------------------------------------------
Event == events < MaxEvents /\ events' = events + 1

\* pthread_cond_wait() may return without a signal.
Spurious(t) ==
  /\ Event /\ pc[t] = Waiting(t)
  /\ Step(t, Woken(t))
  /\ UNCHANGED <<list, m_maxsize, m_overflag, m_fullwait, m_freewait, hand, alloc,
                 over, sized>>

\* A bug: the size is taken whatever the queue holds.
MaySizeAny(size) == TRUE

MaySize(size) == size > m_cursize

setsize(size) ==
  /\ Event /\ sized' = TRUE
  /\ m_maxsize' = IF MaySize(size) THEN size ELSE m_maxsize
  /\ UNCHANGED <<list, m_overflag, m_fullwait, m_freewait, pc, hand, alloc, over>>

setflag(flag) ==
  /\ m_overflag' = flag
  /\ UNCHANGED <<list, m_maxsize, m_fullwait, m_freewait, pc, hand, alloc>>

releaseFree ==
  /\ pc' = [t \in Thread |-> IF t \in Blocked(Consumer) THEN Woken(t) ELSE pc[t]]
  /\ UNCHANGED <<list, m_maxsize, m_overflag, m_fullwait, m_freewait, hand, alloc>>

\* The nodes of the list, from m_head on.
Chain == LET nth[k \in 1..Cardinality(Node)] ==
               IF k = 1 THEN m_head ELSE m_next[nth[k - 1]]
         IN  [k \in 1..m_cursize |-> nth[k]]

resetqueue ==
  /\ alloc' = alloc \ {Chain[k] : k \in 1..m_cursize}
  /\ m_head' = NULL /\ m_tail' = HeadRef /\ m_cursize' = 0
  /\ m_maxsize' = DefaultSize
  /\ m_overflag' = 0 /\ m_freewait' = 0 /\ m_fullwait' = 0
  /\ UNCHANGED <<m_next, pc, hand>>

\* A bug: releaseFree() is called before setflag(1).
OverReleasesFirst ==
  \/ over = 0 /\ releaseFree
  \/ over = 1 /\ setflag(1)
  \/ over = 2 /\ resetqueue

OverCall ==
  \/ over = 0 /\ setflag(1)
  \/ over = 1 /\ releaseFree
  \/ over = 2 /\ resetqueue

logover == OverCall /\ over' = over + 1 /\ UNCHANGED <<sized, events>>

-----------------------------------------------------------------------------
Produce(p) == PutWait(p) \/ PutAppend(p)
Consume(c) == GetWait(c) \/ GetNull(c) \/ GetTake(c) \/ Delete(c)

Next == \/ \E p \in Producer : Produce(p) \/ \E n \in Node : New(p, n)
        \/ \E c \in Consumer : Consume(c)
        \/ \E t \in Thread : Spurious(t)
        \/ \E s \in Sizes : setsize(s)
        \/ logover

Spec == Init /\ [][Next]_vars

\* A thread that can have the lock gets it in the end, also in logover.
Fairness == /\ \A p \in Producer : WF_vars(Produce(p))
            /\ \A c \in Consumer : WF_vars(Consume(c))
            /\ WF_vars(over > 0 /\ logover)
FairSpec == Spec /\ Fairness

-----------------------------------------------------------------------------
\* The list is well formed whenever the lock is free: m_cursize distinct nodes
\* from m_head to a null m_next, m_tail at the last of them (at m_head when
\* there is none), none of them deleted or owned by a thread.
ListIntact ==
  /\ m_cursize <= Cardinality(Node)
  /\ \A j, k \in 1..m_cursize : j # k => Chain[j] # Chain[k]
  /\ \A k \in 1..m_cursize :
       Chain[k] \in alloc /\ \A t \in Thread : hand[t] # Chain[k]
  /\ IF m_cursize = 0 THEN m_head = NULL /\ m_tail = HeadRef
     ELSE m_tail = Chain[m_cursize] /\ m_next[m_tail] = NULL

\* Every thread in pthread_cond_wait() is counted, so that a put or get that
\* finds the counter at 0 has nobody to wake.  resetqueue clears the counters,
\* but called by logover it finds no log thread waiting; only the producers
\* that wait then are forgotten.
WaitersCounted ==
  /\ Cardinality(Blocked(Consumer)) <= m_freewait
  /\ over < 3 => Cardinality(Blocked(Producer)) <= m_fullwait

\* No wakeup is lost: as long as a consumer waits, each node in the queue has
\* a woken consumer coming for it, and as long as a producer waits, each free
\* place has a woken producer, unless setsize made it.
NoLostWakeup ==
  over = 0 =>
    /\ Blocked(Consumer) # {} => Cardinality(At("wokenfree")) >= m_cursize
    /\ Blocked(Producer) # {} /\ ~sized =>
         Cardinality(At("wokenfull")) >= m_maxsize - m_cursize

Queued(n) == \E k \in 1..m_cursize : Chain[k] = n
Gotten(n) == \E c \in Consumer : hand[c] = n

\* Every line put is written in the end, whoever waits for what, unless
\* logover comes.  A log thread that missed the flag is as good as new: after
\* logover it writes what is put.
LinesWritten ==
  \A n \in Node :
    (over \in {0, 3} /\ Queued(n) /\ \A c \in Consumer : pc[c] # "stopped")
      ~> (Gotten(n) \/ over \in {1, 2})

\* The producers do not all stay blocked, unless the log is closed.
ProducersGoOn ==
  (Blocked(Producer) = Producer) ~> (over > 0 \/ \E p \in Producer : pc[p] = "idle")

\* The queue is a bounded FIFO, which holds m_maxsize nodes at most, whatever
\* setsize is asked for.
Abstract == INSTANCE Fifo WITH q <- Chain, size <- m_maxsize
ImplementsFifo == Abstract!Spec
=============================================================================
