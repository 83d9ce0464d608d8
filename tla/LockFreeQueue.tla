--------------------------- MODULE LockFreeQueue ---------------------------
(***************************************************************************)
(* The ring of core/common/include/softbus_queue.h and                     *)
(* core/common/queue/softbus_queue.c, one action per access to shared      *)
(* memory.  The RMB/WMB barriers of the code are what lets the model       *)
(* execute those accesses in program order.                                *)
(*                                                                         *)
(* producer.head/tail and consumer.head/tail are free-running uint32_t     *)
(* counters.  Here they count modulo Modulus, a multiple of Size, so that  *)
(* the wrap-around is reached.  A thread that sleeps for a whole           *)
(* revolution of a counter would be fooled by the compare-and-swap; the    *)
(* bound MaxOps < Modulus keeps the model, as 2^32 does the program, on    *)
(* this side of it.                                                        *)
(***************************************************************************)
EXTENDS Naturals, Sequences, FiniteSets

CONSTANTS
    Producers,          \* threads that enqueue
    Consumers,          \* threads that dequeue
    Usages,             \* sets of threads that call the single-threaded variants
    Size,               \* unitNum of CreateQueue
    Modulus,            \* stands for 2^32
    MaxOps,             \* bound: calls of the enqueue operations
    Start,              \* values the counters may have to begin with
    NoNode

ASSUME SizeAssumption ==
    /\ Size \in {2^k : k \in 0..13}          \* IS_POWER_OF_2, QUEUE_SIZE_MAX
    /\ \E k \in 2..32 : Modulus = 2^k
    /\ Modulus >= 2 * Size
    /\ MaxOps \in 1..(Modulus - 1)
    /\ Start \subseteq 0..(Modulus - 1)

\* A side of a ring is used by any number of threads, or by one thread with
\* QueueSingleProducerEnqueue or QueueSingleConsumerDequeue, which the header
\* marks as not safe for more.
ASSUME CallerAssumption ==
    /\ Producers \cap Consumers = {}
    /\ \A S \in Usages : /\ S \subseteq Producers \cup Consumers
                         /\ Cardinality(S \cap Producers) <= 1
                         /\ Cardinality(S \cap Consumers) <= 1

Node == 1..MaxOps
Counter == 0..(Modulus - 1)

VARIABLES
    single,     \* the threads that call the single-threaded variants
    producer,   \* [head, tail]
    consumer,   \* [head, tail]
    nodes,      \* the ring itself
    pc,         \* where each thread is inside the operation it executes
    myHead,     \* each thread's local producerHead or consumerHead
    myNode,     \* the node a producer brings, or a consumer took
    issued      \* how many nodes producers have brought so far

vars == <<single, producer, consumer, nodes, pc, myHead, myNode, issued>>

Threads == Producers \cup Consumers
mask == Size - 1

\* Mutant: the counters do not wrap.
MutPlus(a, b) == a + b

\* uint32_t arithmetic, and "x & mask"
Plus(a, b) == (a + b) % Modulus
Minus(a, b) == (a + Modulus - b) % Modulus
Slot(h) == h % Size

-----------------------------------------------------------------------------
\* QueueInit leaves all counters 0; any other equal value is reached from
\* there by enqueuing and dequeuing that many nodes.
QueueInit ==
    \E c \in Start :
        /\ producer = [head |-> c, tail |-> c]
        /\ consumer = [head |-> c, tail |-> c]

Init ==
    /\ single \in Usages
    /\ QueueInit
    /\ nodes = [s \in 0..mask |-> NoNode]
    /\ pc = [t \in Threads |-> "idle"]
    /\ myHead = [t \in Threads |-> 0]
    /\ myNode = [t \in Threads |-> NoNode]
    /\ issued = 0

Goto(t, l) == pc' = [pc EXCEPT ![t] = l]

-----------------------------------------------------------------------------
(* Enqueue: QueueMultiProducerEnqueue and QueueSingleProducerEnqueue.      *)

EnqReadHead(p) ==
    /\ pc[p] = "idle" /\ issued < MaxOps
    /\ issued' = issued + 1
    /\ myNode' = [myNode EXCEPT ![p] = issued + 1]
    /\ myHead' = [myHead EXCEPT ![p] = producer.head]
    /\ Goto(p, "room")
    /\ UNCHANGED <<producer, consumer, nodes>>

\* Mutant: the whole ring is taken to be usable.
MutRoomOffByOne(p) == Minus(Plus(Size, consumer.tail), myHead[p])

availableRoom(p) == Minus(Plus(mask, consumer.tail), myHead[p])

\* The read of consumer.tail and the check on it; QUEUE_FULL ends the call.
EnqReadTail(p) ==
    /\ pc[p] = "room"
    /\ Goto(p, IF availableRoom(p) < 1 THEN "idle" ELSE "claim")
    /\ UNCHANGED <<producer, consumer, nodes, myHead, myNode, issued>>

ClaimHead(p) ==
    /\ producer' = [producer EXCEPT !.head = Plus(myHead[p], 1)]
    /\ Goto(p, "store")
    /\ UNCHANGED <<consumer, nodes, myHead, myNode, issued>>

\* SoftBusAtomicCmpAndSwap32 on producer.head: success, and the retry.
EnqSwap(p) ==
    /\ pc[p] = "claim" /\ p \notin single
    /\ producer.head = myHead[p]
    /\ ClaimHead(p)

EnqSwapFails(p) ==
    /\ pc[p] = "claim" /\ p \notin single
    /\ producer.head # myHead[p]
    /\ Goto(p, "retry")
    /\ UNCHANGED <<producer, consumer, nodes, myHead, myNode, issued>>


EnqRetry(p) ==
    /\ pc[p] = "retry"
    /\ myHead' = [myHead EXCEPT ![p] = producer.head]
    /\ Goto(p, "room")
    /\ UNCHANGED <<producer, consumer, nodes, myNode, issued>>

EnqSetHead(p) ==
    /\ pc[p] = "claim" /\ p \in single
    /\ ClaimHead(p)

EnqStore(p) ==
    /\ pc[p] = "store"
    /\ nodes' = [nodes EXCEPT ![Slot(myHead[p])] = myNode[p]]
    /\ Goto(p, "publish")
    /\ UNCHANGED <<producer, consumer, myHead, myNode, issued>>

\* Mutant: the tail is moved without waiting for the producers before.
MutPublishNoWait(p) ==
    /\ pc[p] = "publish"
    /\ producer' = [producer EXCEPT !.tail = Plus(@, 1)]
    /\ Goto(p, "idle")
    /\ UNCHANGED <<consumer, nodes, myHead, myNode, issued>>

\* sched_yield until the producers before this one have published.
EnqPublish(p) ==
    /\ pc[p] = "publish"
    /\ p \notin single => producer.tail = myHead[p]
    /\ producer' = [producer EXCEPT !.tail =
                        IF p \notin single THEN Plus(@, 1) ELSE Plus(myHead[p], 1)]
    /\ Goto(p, "idle")
    /\ UNCHANGED <<consumer, nodes, myHead, myNode, issued>>

-----------------------------------------------------------------------------
(* Dequeue: QueueMultiConsumerDequeue and QueueSingleConsumerDequeue.      *)

DeqReadHead(c) ==
    /\ pc[c] \in {"idle", "retry"}
    /\ myHead' = [myHead EXCEPT ![c] = consumer.head]
    /\ Goto(c, "room")
    /\ UNCHANGED <<producer, consumer, nodes, myNode, issued>>

availableNodes(c) == Minus(producer.tail, myHead[c])

\* The read of producer.tail and the check on it; QUEUE_EMPTY ends the call.
DeqReadTail(c) ==
    /\ pc[c] = "room"
    /\ Goto(c, IF availableNodes(c) < 1 THEN "idle" ELSE "claim")
    /\ UNCHANGED <<producer, consumer, nodes, myHead, myNode, issued>>

TakeHead(c) ==
    /\ consumer' = [consumer EXCEPT !.head = Plus(myHead[c], 1)]
    /\ Goto(c, "load")
    /\ UNCHANGED <<producer, nodes, myHead, myNode, issued>>

DeqSwap(c) ==
    /\ pc[c] = "claim" /\ c \notin single
    /\ consumer.head = myHead[c]
    /\ TakeHead(c)

DeqSwapFails(c) ==
    /\ pc[c] = "claim" /\ c \notin single
    /\ consumer.head # myHead[c]
    /\ Goto(c, "retry")
    /\ UNCHANGED <<producer, consumer, nodes, myHead, myNode, issued>>

DeqSetHead(c) ==
    /\ pc[c] = "claim" /\ c \in single
    /\ TakeHead(c)

DeqLoad(c) ==
    /\ pc[c] = "load"
    /\ myNode' = [myNode EXCEPT ![c] = nodes[Slot(myHead[c])]]
    /\ Goto(c, "release")
    /\ UNCHANGED <<producer, consumer, nodes, myHead, issued>>

\* Mutant: a consumer that is done forgets to give its slot back.
MutReleaseForgotten(c) ==
    /\ pc[c] = "release"
    /\ Goto(c, "idle")
    /\ UNCHANGED <<producer, consumer, nodes, myHead, myNode, issued>>

\* sched_yield until the consumers before this one have released their slot.
DeqRelease(c) ==
    /\ pc[c] = "release"
    /\ c \notin single => consumer.tail = myHead[c]
    /\ consumer' = [consumer EXCEPT !.tail =
                        IF c \notin single THEN Plus(@, 1) ELSE Plus(myHead[c], 1)]
    /\ Goto(c, "idle")
    /\ UNCHANGED <<producer, nodes, myHead, myNode, issued>>

-----------------------------------------------------------------------------
Enqueue(p) ==
    \/ EnqReadHead(p) \/ EnqReadTail(p) \/ EnqSwap(p) \/ EnqSwapFails(p)
    \/ EnqRetry(p) \/ EnqSetHead(p) \/ EnqStore(p) \/ EnqPublish(p)

Dequeue(c) ==
    \/ DeqReadHead(c) \/ DeqReadTail(c) \/ DeqSwap(c) \/ DeqSwapFails(c)
    \/ DeqSetHead(c) \/ DeqLoad(c) \/ DeqRelease(c)

\* The threads of T that use the ring.
Users(T) == IF single \cap T = {} THEN T ELSE single \cap T

Next ==
    \/ \E p \in Users(Producers) : Enqueue(p) /\ UNCHANGED single
    \/ \E c \in Users(Consumers) : Dequeue(c) /\ UNCHANGED single

\* Threads are scheduled: one that can take its next step does so in the end.
Fairness ==
    /\ \A p \in Producers :
          WF_vars(p \in Users(Producers) /\ pc[p] # "idle" /\ Enqueue(p) /\ UNCHANGED single)
    /\ \A c \in Consumers :
          WF_vars(c \in Users(Consumers) /\ Dequeue(c) /\ UNCHANGED single)

Spec == Init /\ [][Next]_vars
FairSpec == Spec /\ Fairness

-----------------------------------------------------------------------------
PcLabel == {"idle", "room", "claim", "retry", "store", "publish", "load", "release"}

\* The counters stay in range and every local holds what its type allows.
TypeOK ==
    /\ single \subseteq Threads
    /\ producer \in [head : Counter, tail : Counter]
    /\ consumer \in [head : Counter, tail : Counter]
    /\ nodes \in [0..mask -> Node \cup {NoNode}]
    /\ pc \in [Threads -> PcLabel]
    /\ myHead \in [Threads -> Counter]
    /\ myNode \in [Threads -> Node \cup {NoNode}]
    /\ issued \in 0..MaxOps

\* The four counters never cross, whatever order the threads run in and also
\* across the wrap of the counters: counted from consumer.tail, consumer.head
\* does not pass producer.tail, producer.tail does not pass producer.head, and
\* producer.head stays within mask.  So QueueCountGet's "& mask" never turns a
\* full ring into an empty one.
CountersNeverCross ==
    LET ahead(x) == Minus(x, consumer.tail)
    IN  /\ ahead(consumer.head) <= ahead(producer.tail)
        /\ ahead(producer.tail) <= ahead(producer.head)
        /\ ahead(producer.head) <= mask

\* The nodes published and not yet claimed by a consumer, oldest first.
Contents ==
    [i \in 1..Minus(producer.tail, consumer.head) |->
        nodes[Slot(Plus(consumer.head, i - 1))]]

\* What each consumer has taken: after its claim the slot is already its own.
Taken ==
    [c \in Consumers |->
        IF pc[c] = "load" THEN nodes[Slot(myHead[c])] ELSE myNode[c]]

Fifo == INSTANCE BoundedFifo WITH
            Capacity <- mask, fifo <- Contents, got <- Taken

\* The ring implements a bounded first-in first-out queue: each node that is
\* enqueued is dequeued once, in the order of publication, unharmed by
\* enqueuers that reuse slots while a dequeuer still reads its own.
ImplementsFifo == Fifo!Spec

\* No enqueue spins for ever, neither in the compare-and-swap loop nor in the
\* wait for the producers before it.
EnqueueReturns ==
    \A p \in Producers : pc[p] # "idle" ~> pc[p] = "idle"

\* What is enqueued is dequeued in the end as long as consumers keep polling.
QueueDrains ==
    producer.tail # consumer.tail ~> producer.tail = consumer.tail
=============================================================================
