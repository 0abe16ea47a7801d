-------------------------------- MODULE Fifo --------------------------------
(***************************************************************************)
(* What pqueue (src/tpqueue.h) promises: nodes are handed out once each,   *)
(* in the order they were put, and at most size of them wait.  Blocking,   *)
(* wakeups and the linked list are left to the module Pqueue, which        *)
(* implements this one.                                                    *)
(***************************************************************************)
EXTENDS Naturals, Sequences, SequencesExt

CONSTANTS Producer, Consumer, Node, NULL, DefaultSize, Sizes

VARIABLES q,     \* the waiting nodes, oldest first
          size,  \* how many may wait
          hand   \* the node a thread is about to put, or has got

vars == <<q, size, hand>>

Thread == Producer \cup Consumer
Used == ToSet(q) \cup {hand[t] : t \in Thread}

Init == q = <<>> /\ size = DefaultSize /\ hand = [t \in Thread |-> NULL]

\* A producer makes a node.
New(p, n) == /\ hand[p] = NULL /\ n \notin Used
             /\ hand' = [hand EXCEPT ![p] = n] /\ UNCHANGED <<q, size>>

Put(p) == /\ hand[p] # NULL /\ Len(q) < size
          /\ q' = Append(q, hand[p])
          /\ hand' = [hand EXCEPT ![p] = NULL] /\ UNCHANGED size

Get(c) == /\ hand[c] = NULL /\ q # <<>>
          /\ hand' = [hand EXCEPT ![c] = Head(q)]
          /\ q' = Tail(q) /\ UNCHANGED size

\* A consumer is done with its node and deletes it.
Delete(c) == /\ hand[c] # NULL
             /\ hand' = [hand EXCEPT ![c] = NULL] /\ UNCHANGED <<q, size>>

SetSize(n) == n > Len(q) /\ size' = n /\ UNCHANGED <<q, hand>>

Reset == q' = <<>> /\ size' = DefaultSize /\ UNCHANGED hand

Next == \/ \E p \in Producer : Put(p) \/ \E n \in Node : New(p, n)
        \/ \E c \in Consumer : Get(c) \/ Delete(c)
        \/ \E n \in Sizes : SetSize(n)
        \/ Reset

Spec == Init /\ [][Next]_vars
=============================================================================
