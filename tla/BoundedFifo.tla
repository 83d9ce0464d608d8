---------------------------- MODULE BoundedFifo ----------------------------
(***************************************************************************)
(* What a LockFreeQueue promises to the threads that use it: a first-in    *)
(* first-out queue that never holds more than Capacity nodes.  got[c] is   *)
(* the last node consumer c took out.                                      *)
(***************************************************************************)
EXTENDS Naturals, Sequences

CONSTANTS
    Consumers,      \* the threads that dequeue
    Node,           \* the node pointers that are enqueued
    NoNode,         \* "nothing dequeued yet"
    Capacity        \* how many nodes fit

VARIABLES fifo, got

vars == <<fifo, got>>

Init ==
    /\ fifo = <<>>
    /\ got = [c \in Consumers |-> NoNode]

Put(n) ==
    /\ Len(fifo) < Capacity
    /\ fifo' = Append(fifo, n)
    /\ UNCHANGED got

Take(c) ==
    /\ fifo # <<>>
    /\ got' = [got EXCEPT ![c] = Head(fifo)]
    /\ fifo' = Tail(fifo)

Next ==
    \/ \E n \in Node : Put(n)
    \/ \E c \in Consumers : Take(c)

Spec == Init /\ [][Next]_vars
=============================================================================
