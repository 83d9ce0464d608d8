---------------------------- MODULE BrSendQueue ----------------------------
(***************************************************************************)
(* The queues between PostBytes and the send thread: br_connection_queue.c.*)
(* Every process id that sends has a BrQueue in g_brQueueList, with one    *)
(* lock-free queue per priority; connection control uses g_innerQueue.     *)
(* Everything happens under g_brQueueLock, so an action is a critical      *)
(* section; a wait on a condition ends one.  The lock-free queues appear   *)
(* as the bounded queues they implement (module LockFreeQueue).            *)
(***************************************************************************)
EXTENDS Naturals, Sequences, FiniteSets

CONSTANTS
    Caller,         \* threads that call BrEnqueueNonBlock
    Pid,            \* process ids that send
    Inner,          \* stands for pid 0, the queue of the connection itself
    Target,         \* the queues the callers use
    Flag,           \* the priorities the callers use
    Limit,          \* QUEUE_LIMIT
    MaxMsgs         \* bound: messages ever posted

WAIT_QUEUE_BUFFER_PERIOD_LEN == 2
WAIT_RETRY_NUM == 2
Priority == 0..2                \* HIGH_PRIORITY, MIDDLE_PRIORITY, LOW_PRIORITY

ASSUME LimitAssumption == Limit \in Nat /\ Limit > WAIT_QUEUE_BUFFER_PERIOD_LEN
ASSUME MsgsAssumption == MaxMsgs \in Nat

Owner == Pid \cup {Inner}
ASSUME NameAssumption == Inner \notin Pid /\ Target \subseteq Owner /\ Flag \subseteq Priority

Id == 1..MaxMsgs
Msg == [id : Id, by : Caller, pid : Owner, priority : Flag]

VARIABLES
    list,           \* g_brQueueList, the pids that have a queue
    content,        \* the messages in each queue
    life,           \* how many queues of a pid were destroyed
    issued,         \* messages posted so far
    told,           \* what BrEnqueueNonBlock returned for each message
    sent,           \* the messages handed to the send thread, in order
    pc, call,       \* each caller's position, and its message and locals
    sender,         \* the send thread in BrDequeueNonBlock
    skipped         \* messages of others sent since a pid in the list was served

vars == <<list, content, life, issued, told, sent, pc, call, sender, skipped>>
queues == <<list, content, life>>

InSeq(x, s) == \E i \in 1..Len(s) : s[i] = x
NoCall == [id |-> 0]
EmptyQueue == [i \in Priority |-> <<>>]

Init ==
    /\ list = <<>>
    /\ content = [q \in Owner |-> EmptyQueue]
    /\ life = [q \in Pid |-> 0]
    /\ issued = 0
    /\ told = [i \in Id |-> "nothing"]
    /\ sent = <<>>
    /\ pc = [t \in Caller |-> "idle"]
    /\ call = [t \in Caller |-> NoCall]
    /\ sender = "idle"
    /\ skipped = [q \in Pid |-> 0]

-----------------------------------------------------------------------------
(* BrEnqueueNonBlock                                                       *)

\* SoftBusCondBroadcast(&g_sendCond) at END, when the list was empty; the flag
\* keeps its initial value true for the inner queue.
WakeSender(wake) == sender' = IF wake /\ sender = "wait" THEN "woken" ELSE sender

Return(t, m, result) ==
    /\ told' = [told EXCEPT ![m.id] = result]
    /\ pc' = [pc EXCEPT ![t] = "idle"]
    /\ call' = [call EXCEPT ![t] = NoCall]

Count(m) == Len(content[m.pid][m.priority])

\* Mutant: the message overtakes those already in the ring.
MutPushFront(t, m) ==
    \/ /\ Count(m) < Limit - 1
       /\ content' = [content EXCEPT ![m.pid][m.priority] = <<m>> \o @]
       /\ Return(t, m, "ok")
    \/ /\ Count(m) >= Limit - 1
       /\ Return(t, m, IF m.pid = Inner THEN "error" ELSE "ok")
       /\ UNCHANGED content

\* Mutant: the last slot of the ring is used too.
MutPushFull(t, m) ==
    \/ /\ Count(m) < Limit
       /\ content' = [content EXCEPT ![m.pid][m.priority] = Append(@, m)]
       /\ Return(t, m, "ok")
    \/ /\ Count(m) >= Limit
       /\ Return(t, m, IF m.pid = Inner THEN "error" ELSE "ok")
       /\ UNCHANGED content

\* QueueMultiProducerEnqueue: one slot of the ring stays free.  For the queue
\* of a pid ret still is the SOFTBUS_OK of WaitQueueLength when the ring is full.
Push(t, m) ==
    \/ /\ Count(m) < Limit - 1
       /\ content' = [content EXCEPT ![m.pid][m.priority] = Append(@, m)]
       /\ Return(t, m, "ok")
    \/ /\ Count(m) >= Limit - 1
       /\ Return(t, m, IF m.pid = Inner THEN "error" ELSE "ok")
       /\ UNCHANGED content

\* One turn of the loop of WaitQueueLength, and what follows when it ends.
WaitQueueLength(t, m, retry) ==
    \/ /\ Count(m) < Limit - WAIT_QUEUE_BUFFER_PERIOD_LEN
       /\ Push(t, m)
       /\ WakeSender(m.pid = Inner)
    \/ /\ Count(m) >= Limit - WAIT_QUEUE_BUFFER_PERIOD_LEN
       /\ retry + 1 > WAIT_RETRY_NUM
       /\ IF Count(m) < Limit THEN Push(t, m) ELSE Return(t, m, "error") /\ UNCHANGED content
       /\ WakeSender(m.pid = Inner)
    \/ /\ Count(m) >= Limit - WAIT_QUEUE_BUFFER_PERIOD_LEN
       /\ retry + 1 <= WAIT_RETRY_NUM
       /\ pc' = [pc EXCEPT ![t] = "wait"]
       /\ call' = [call EXCEPT ![t] =
                     [id |-> m.id, msg |-> m, retry |-> retry + 1,
                      life |-> IF m.pid = Inner THEN 0 ELSE life[m.pid]]]
       /\ UNCHANGED <<content, told, sender>>

\* CreateBrQueue for a pid that has no queue.
CreateBrQueue(t, m) ==
    /\ list' = Append(list, m.pid)
    /\ content' = [content EXCEPT ![m.pid][m.priority] = <<m>>]
    /\ skipped' = [skipped EXCEPT ![m.pid] = 0]
    /\ Return(t, m, "ok")
    /\ WakeSender(list = <<>>)

BrEnqueueNonBlock(t, q, i) ==
    LET m == [id |-> issued + 1, by |-> t, pid |-> q, priority |-> i]
    IN  /\ pc[t] = "idle" /\ issued < MaxMsgs
        /\ issued' = issued + 1
        /\ \/ /\ q = Inner \/ InSeq(q, list)
              /\ WaitQueueLength(t, m, 0)
              /\ UNCHANGED <<list, skipped>>
           \/ /\ q # Inner /\ ~InSeq(q, list)
              /\ CreateBrQueue(t, m)
        /\ UNCHANGED <<life, sent>>

Freed(t) == call[t].msg.pid # Inner /\ call[t].life # life[call[t].msg.pid]

\* The wait was signalled and the lock is held again.
EnqueueResumes(t) ==
    /\ pc[t] = "woken" /\ ~Freed(t)
    /\ WaitQueueLength(t, call[t].msg, call[t].retry)
    /\ UNCHANGED <<list, life, issued, sent, skipped>>

\* The send thread drained and destroyed the queue before the lock was free:
\* the caller goes on with freed memory.  The message is lost; what the caller
\* is told depends on what that memory holds.
EnqueueResumesFreed(t) ==
    /\ pc[t] = "woken" /\ Freed(t)
    /\ \E result \in {"ok", "error"} : Return(t, call[t].msg, result)
    /\ UNCHANGED <<queues, issued, sent, sender, skipped>>

\* Mutant: a caller that gives up leaves its message in the queue.
MutTimeoutPushes(t) ==
    /\ pc[t] = "wait"
    /\ content' = [content EXCEPT ![call[t].msg.pid][call[t].msg.priority] =
                       Append(@, call[t].msg)]
    /\ Return(t, call[t].msg, "error")
    /\ WakeSender(call[t].msg.pid = Inner)
    /\ UNCHANGED <<list, life, issued, sent, skipped>>

\* The wait of WAIT_QUEUE_DELAY milliseconds fails.
EnqueueTimesOut(t) ==
    /\ pc[t] = "wait"
    /\ Return(t, call[t].msg, "error")
    /\ WakeSender(call[t].msg.pid = Inner)
    /\ UNCHANGED <<queues, issued, sent, skipped>>

-----------------------------------------------------------------------------
(* BrDequeueNonBlock on the send thread                                    *)

Pending(q) == {i \in Priority : content[q][i] # <<>>}
Highest(q) == {i \in Pending(q) : \A j \in Pending(q) : i <= j}

\* Mutant: waiting callers are woken only by a queue that was completely full.
MutIsFull(q, i) == Len(content[q][i]) >= Limit - 1

isFull(q, i) == Len(content[q][i]) >= Limit - WAIT_QUEUE_BUFFER_PERIOD_LEN

\* GetMsg on queue q and the broadcast on g_sendWaitCond.
GetMsg(q) ==
    \E i \in Highest(q) :
        /\ sent' = Append(sent, Head(content[q][i]))
        /\ content' = [content EXCEPT ![q][i] = Tail(@)]
        /\ pc' = [t \in Caller |->
                     IF isFull(q, i) /\ pc[t] = "wait" THEN "woken" ELSE pc[t]]

DequeueInner ==
    /\ sender = "idle" /\ Pending(Inner) # {}
    /\ GetMsg(Inner)
    /\ UNCHANGED <<list, life, issued, told, call, sender, skipped>>

DequeueWaits ==
    /\ sender = "idle" /\ Pending(Inner) = {} /\ list = <<>>
    /\ sender' = "wait"
    /\ UNCHANGED <<queues, issued, told, sent, pc, call, skipped>>

\* Mutant: a queue that was served stays at the front of the list.
MutDequeueStays ==
    LET q == Head(list)
    IN  /\ sender = "idle" /\ Pending(Inner) = {} /\ list # <<>>
        /\ Pending(q) # {}
        /\ GetMsg(q)
        /\ skipped' = [p \in Pid |-> IF p = q \/ ~InSeq(p, list) THEN 0 ELSE skipped[p] + 1]
        /\ UNCHANGED <<list, life, issued, told, call, sender>>

\* The first queue of the list is served and goes to its end ...
DequeueFirst ==
    LET q == Head(list)
    IN  /\ sender = "idle" /\ Pending(Inner) = {} /\ list # <<>>
        /\ Pending(q) # {}
        /\ GetMsg(q)
        /\ list' = Append(Tail(list), q)
        /\ skipped' = [p \in Pid |-> IF p = q \/ ~InSeq(p, list) THEN 0 ELSE skipped[p] + 1]
        /\ UNCHANGED <<life, issued, told, call, sender>>

\* Mutant: only the high priority queue is looked at before the destruction.
MutDestroyUnread ==
    LET q == Head(list)
    IN  /\ sender = "idle" /\ Pending(Inner) = {} /\ list # <<>>
        /\ content[q][0] = <<>>
        /\ list' = Tail(list)
        /\ life' = [life EXCEPT ![q] = @ + 1]
        /\ content' = [content EXCEPT ![q] = EmptyQueue]
        /\ skipped' = [skipped EXCEPT ![q] = 0]
        /\ UNCHANGED <<issued, told, sent, pc, call, sender>>

\* ... or, when it is empty, destroyed.
DestroyBrQueue ==
    LET q == Head(list)
    IN  /\ sender = "idle" /\ Pending(Inner) = {} /\ list # <<>>
        /\ Pending(q) = {}
        /\ list' = Tail(list)
        /\ life' = [life EXCEPT ![q] = @ + 1]
        /\ skipped' = [skipped EXCEPT ![q] = 0]
        /\ UNCHANGED <<content, issued, told, sent, pc, call, sender>>

\* The wait on g_sendCond is signalled ...
DequeueSignalled ==
    /\ sender = "woken"
    /\ sender' = "idle"
    /\ UNCHANGED <<queues, issued, told, sent, pc, call, skipped>>

\* ... or ends after DEQUEUE_DELAY.
DequeueTimesOut ==
    /\ sender = "wait"
    /\ sender' = "idle"
    /\ UNCHANGED <<queues, issued, told, sent, pc, call, skipped>>

-----------------------------------------------------------------------------
SenderStep ==
    DequeueInner \/ DequeueWaits \/ DequeueFirst \/ DestroyBrQueue \/ DequeueSignalled

CallerStep(t) == EnqueueResumes(t) \/ EnqueueResumesFreed(t)

Next ==
    \/ \E t \in Caller, q \in Target, i \in Flag : BrEnqueueNonBlock(t, q, i)
    \/ \E t \in Caller : CallerStep(t) \/ EnqueueTimesOut(t)
    \/ SenderStep
    \/ DequeueTimesOut

Spec == Init /\ [][Next]_vars

\* SendHandlerLoop never stops and a thread that was woken gets the lock.
\* Nothing is assumed of the timeouts, although both waits are timed.
FairSpec ==
    /\ Spec
    /\ WF_vars(SenderStep)
    /\ \A t \in Caller : WF_vars(CallerStep(t))

-----------------------------------------------------------------------------
Call == [id : Id, msg : Msg, retry : 1..WAIT_RETRY_NUM, life : Nat]

\* Every variable keeps to its type, and no ring holds more than its capacity.
TypeOK ==
    /\ list \in Seq(Pid)
    /\ content \in [Owner -> [Priority -> Seq(Msg)]]
    /\ \A q \in Owner, i \in Priority : Len(content[q][i]) <= Limit - 1
    /\ life \in [Pid -> Nat]
    /\ issued \in 0..MaxMsgs
    /\ told \in [Id -> {"nothing", "ok", "error"}]
    /\ sent \in Seq(Msg)
    /\ pc \in [Caller -> {"idle", "wait", "woken"}]
    /\ call \in [Caller -> Call \cup {NoCall}]
    /\ sender \in {"idle", "wait", "woken"}
    /\ skipped \in [Pid -> Nat]

Queued == UNION {{content[q][i][k] : k \in 1..Len(content[q][i])} :
                    q \in Owner, i \in Priority}
IsSent(m) == InSeq(m, sent)

\* What PostBytes was told it failed to send it frees, so such a message is
\* neither in a queue nor handed to the send thread, whatever happened while
\* its caller waited for room.
RefusedIsNotSent ==
    \A m \in Queued \cup {sent[k] : k \in 1..Len(sent)} : told[m.id] # "error"

\* The messages a thread posts for one pid with one priority are sent in the
\* order it posted them, each once, also when the queue is destroyed and made
\* again in between.
SentInOrder ==
    \A k, n \in 1..Len(sent) :
        /\ k < n /\ sent[k].by = sent[n].by
        /\ sent[k].pid = sent[n].pid /\ sent[k].priority = sent[n].priority
        => sent[k].id < sent[n].id

\* Nobody waits without a reason: the send thread waits on g_sendCond only when
\* all queues are empty, and a caller on g_sendWaitCond only when its queue is
\* within WAIT_QUEUE_BUFFER_PERIOD_LEN of its limit.  No wake-up is missed.
NoMissedWakeup ==
    /\ sender = "wait" => Queued = {}
    /\ \A t \in Caller :
          pc[t] = "wait" => Count(call[t].msg) >= Limit - WAIT_QUEUE_BUFFER_PERIOD_LEN

\* The pids take turns: one that has a queue waits for at most one message of
\* each other pid.
PidsTakeTurns == \A p \in Pid : skipped[p] < Cardinality(Pid)

\* What is in a queue is sent, as long as the send thread runs, even if its
\* wait never timed out.
QueuedIsSent == \A i \in Id :
    (\E m \in Queued : m.id = i) ~> (\E k \in 1..Len(sent) : sent[k].id = i)

\* Every call of BrEnqueueNonBlock returns, even if its wait never timed out:
\* the send thread wakes it.
EnqueueReturns == \A t \in Caller : pc[t] # "idle" ~> pc[t] = "idle"

\* ConnPostBytes: "SOFTBUS_OK if sending by byte is successfully".
AcceptedIsQueued ==
    \A i \in Id : told[i] = "ok" =>
        \/ \E m \in Queued : m.id = i
        \/ \E k \in 1..Len(sent) : sent[k].id = i
=============================================================================
