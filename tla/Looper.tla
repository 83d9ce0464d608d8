------------------------------- MODULE Looper -------------------------------
(***************************************************************************)
(* The message loop every event-driven part of the system runs on          *)
(* (message_handler.c): a thread that takes messages from a list sorted by *)
(* the time they are due, and the operations other threads call on it.     *)
(* What a thread does while it holds context->lock is one action; so is    *)
(* each stretch without the lock.  One looper is modelled; g_isThreadStarted *)
(* is shared by all of them, so it may be set before this thread runs.     *)
(***************************************************************************)
EXTENDS Naturals, Sequences

CONSTANTS
    Poster,         \* threads that post
    What,           \* what a message is about
    Delay,          \* delays messages are posted with; 0 is PostMessage
    Early,          \* DestroyLooper may come before the thread has started
    MaxMsgs,        \* bound: messages posted
    MaxRemoves,     \* bound: calls of RemoveMessage
    MaxTime         \* bound: the clock

ASSUME LooperAssumption ==
    /\ {MaxMsgs, MaxRemoves, MaxTime} \subseteq Nat
    /\ Delay \subseteq Nat
    /\ Early \in BOOLEAN

Msg == [id : 1..MaxMsgs, by : Poster, what : What, time : Nat]
NoMsg == [id |-> 0]

VARIABLES
    now,                        \* UptimeMicros
    msgHead,                    \* context->msgHead
    stop, running, freed,       \* context->stop, context->running, context is freed
    isThreadStarted, isNeedDestroy,
    loop, current, until,       \* LoopTask, context->currentMsg, its timed wait
    poster, posting,            \* the posters and the message each is posting
    posted,                     \* messages posted so far
    removed, removes,           \* messages RemoveMessage took out, and its calls
    handled,                    \* messages HandleMessage was called for, in order
    destroyer                   \* the thread that destroys the looper

context == <<msgHead, stop, running, freed>>
globals == <<isThreadStarted, isNeedDestroy>>
thread == <<loop, current, until>>
posters == <<poster, posting, posted>>
history == <<removed, removes>>
vars == <<now, context, globals, thread, posters, history, handled, destroyer>>

Init ==
    /\ now = 0
    /\ msgHead = <<>>
    /\ stop = FALSE /\ running = FALSE /\ freed = FALSE
    /\ isThreadStarted \in BOOLEAN /\ isNeedDestroy = FALSE
    /\ loop = "created" /\ current = NoMsg /\ until = 0
    /\ poster = [p \in Poster |-> "idle"]
    /\ posting = [p \in Poster |-> NoMsg]
    /\ posted = 0
    /\ removed = {} /\ removes = 0
    /\ handled = <<>>
    /\ destroyer = "idle"

Tick ==
    /\ now < MaxTime
    /\ now' = now + 1
    /\ UNCHANGED <<context, globals, thread, posters, history, handled, destroyer>>

-----------------------------------------------------------------------------
(* Posting and removing                                                    *)

\* SoftBusCondBroadcast(&context->cond)
Woken == IF loop = "wait" THEN "loop" ELSE loop

\* LooperPostMessage and LooperPostMessageDelay: the time is taken ...
Post(p, w, d) ==
    /\ poster[p] = "idle" /\ ~freed
    /\ posted < MaxMsgs /\ now + d <= MaxTime
    /\ posted' = posted + 1
    /\ poster' = [poster EXCEPT ![p] = "insert"]
    /\ posting' = [posting EXCEPT ![p] =
                      [id |-> posted + 1, by |-> p, what |-> w, time |-> now + d]]
    /\ UNCHANGED <<now, context, globals, thread, history, handled, destroyer>>

\* Mutant: a message goes in front of those due at the same time.
MutPlace(m) ==
    CHOOSE i \in 0..Len(msgHead) :
        /\ \A j \in 1..i : msgHead[j].time < m.time
        /\ i < Len(msgHead) => msgHead[i + 1].time >= m.time

\* Mutant: a message goes to the end of the list.
MutPlaceEnd(m) == Len(msgHead)

\* The position after which PostMessageAtTime inserts: before the first message
\* that is due later.
Place(m) ==
    CHOOSE i \in 0..Len(msgHead) :
        /\ \A j \in 1..i : msgHead[j].time <= m.time
        /\ i < Len(msgHead) => msgHead[i + 1].time > m.time

\* Mutant: the waiting thread is not woken.
MutPostMessageAtTime(p) ==
    LET m == posting[p]
    IN  /\ poster[p] = "insert" /\ ~stop
        /\ msgHead' = SubSeq(msgHead, 1, Place(m)) \o <<m>>
                        \o SubSeq(msgHead, Place(m) + 1, Len(msgHead))
        /\ poster' = [poster EXCEPT ![p] = "idle"]
        /\ posting' = [posting EXCEPT ![p] = NoMsg]
        /\ UNCHANGED <<now, stop, running, freed, globals, loop, current, until, posted,
                       history, handled, destroyer>>

\* ... and PostMessageAtTime inserts the message by it.
PostMessageAtTime(p) ==
    LET m == posting[p]
    IN  /\ poster[p] = "insert" /\ ~stop
        /\ msgHead' = SubSeq(msgHead, 1, Place(m)) \o <<m>>
                        \o SubSeq(msgHead, Place(m) + 1, Len(msgHead))
        /\ loop' = Woken
        /\ poster' = [poster EXCEPT ![p] = "idle"]
        /\ posting' = [posting EXCEPT ![p] = NoMsg]
        /\ UNCHANGED <<now, stop, running, freed, globals, current, until, posted,
                       history, handled, destroyer>>

\* PostMessageAtTime on a looper being destroyed frees the message.
PostDropped(p) ==
    /\ poster[p] = "insert" /\ stop
    /\ poster' = [poster EXCEPT ![p] = "idle"]
    /\ posting' = [posting EXCEPT ![p] = NoMsg]
    /\ UNCHANGED <<now, context, globals, thread, posted, history, handled, destroyer>>

Remove(w) ==
    /\ msgHead' = SelectSeq(msgHead, LAMBDA m : m.what # w)
    /\ removed' = removed \cup {msgHead[i].id : i \in {j \in 1..Len(msgHead) :
                                                          msgHead[j].what = w}}

\* Mutant: the message that is removed and freed stays in the list.
MutRemoveMessage(w) ==
    /\ removes < MaxRemoves /\ ~freed
    /\ removes' = removes + 1
    /\ removed' = IF running /\ ~stop
                     THEN removed \cup {msgHead[i].id : i \in {j \in 1..Len(msgHead) :
                                                                  msgHead[j].what = w}}
                     ELSE removed
    /\ UNCHANGED <<now, context, globals, thread, posters, handled, destroyer>>

\* RemoveMessage and RemoveMessageCustom; without effect before the thread has
\* started and while the looper is being destroyed.
RemoveMessage(w) ==
    /\ removes < MaxRemoves /\ ~freed
    /\ removes' = removes + 1
    /\ \/ running /\ ~stop /\ Remove(w)
       \/ (~running \/ stop) /\ UNCHANGED <<msgHead, removed>>
    /\ UNCHANGED <<now, stop, running, freed, globals, thread, posters, handled, destroyer>>

-----------------------------------------------------------------------------
(* LoopTask                                                                *)

LoopStarts ==
    /\ loop = "created" /\ ~freed
    /\ running' = TRUE /\ isThreadStarted' = TRUE
    /\ loop' = "loop"
    /\ UNCHANGED <<now, msgHead, stop, freed, isNeedDestroy, current, until, posters,
                   history, handled, destroyer>>

Continues == loop = "loop" /\ ~stop /\ ~isNeedDestroy

\* The first message is due: it is taken and HandleMessage called, unlocked.
LoopHandles ==
    /\ Continues /\ msgHead # <<>> /\ now >= Head(msgHead).time
    /\ current' = Head(msgHead)
    /\ msgHead' = Tail(msgHead)
    /\ handled' = Append(handled, Head(msgHead))
    /\ loop' = "handle"
    /\ UNCHANGED <<now, stop, running, freed, globals, until, posters, history, destroyer>>

\* HandleMessage returns and the message is freed.
LoopFrees ==
    /\ loop = "handle"
    /\ current' = NoMsg
    /\ loop' = "loop"
    /\ UNCHANGED <<now, context, globals, until, posters, history, handled, destroyer>>

\* Nothing is due: the thread waits, for the first message if there is one.
LoopWaits ==
    /\ Continues
    /\ \/ msgHead = <<>> /\ until' = MaxTime + 1
       \/ msgHead # <<>> /\ now < Head(msgHead).time /\ until' = Head(msgHead).time
    /\ loop' = "wait"
    /\ UNCHANGED <<now, context, globals, current, posters, history, handled, destroyer>>

LoopTimesOut ==
    /\ loop = "wait" /\ now >= until
    /\ loop' = "loop"
    /\ UNCHANGED <<now, context, globals, current, until, posters, history, handled, destroyer>>

LoopBreaks ==
    /\ loop = "loop" /\ (stop \/ isNeedDestroy)
    /\ loop' = "leave"
    /\ UNCHANGED <<now, context, globals, current, until, posters, history, handled, destroyer>>

\* Mutant: the thread leaves without the broadcast on condRunning.
MutLoopLeaves ==
    /\ loop = "leave"
    /\ running' = FALSE
    /\ loop' = IF isNeedDestroy THEN "deinit" ELSE "exited"
    /\ UNCHANGED <<now, msgHead, stop, freed, globals, current, until, posters, history,
                   handled, destroyer>>

\* running = 0 and the broadcast on condRunning.
LoopLeaves ==
    /\ loop = "leave"
    /\ running' = FALSE
    /\ destroyer' = IF destroyer = "wait" THEN "check" ELSE destroyer
    /\ loop' = IF isNeedDestroy THEN "deinit" ELSE "exited"
    /\ UNCHANGED <<now, msgHead, stop, freed, globals, current, until, posters, history,
                   handled>>

\* No call on the looper is in progress; its users see to that.
Unused == \A p \in Poster : poster[p] = "idle"

\* LooperDeinit called by the thread itself, which LooperDeinit was too early for.
LoopDeinits ==
    /\ loop = "deinit" /\ Unused
    /\ stop' = TRUE /\ freed' = TRUE /\ msgHead' = <<>>
    /\ loop' = "exited"
    /\ UNCHANGED <<now, running, globals, current, until, posters, history, handled, destroyer>>

-----------------------------------------------------------------------------
(* LooperDeinit and DestroyLooper                                          *)

\* LooperDeinit before any looper thread has started leaves it to the thread.
DeinitDefers ==
    /\ destroyer = "idle" /\ ~isThreadStarted
    /\ isNeedDestroy' = TRUE
    /\ destroyer' = "deferred"
    /\ UNCHANGED <<now, context, isThreadStarted, thread, posters, history, handled>>

\* DestroyLooper, called on its own or by LooperDeinit, sets stop and wakes the
\* thread ...
DestroyLooper ==
    /\ destroyer = "idle" /\ (Early \/ loop # "created")
    /\ stop' = TRUE
    /\ loop' = Woken
    /\ destroyer' = "check"
    /\ UNCHANGED <<now, msgHead, running, freed, globals, current, until, posters, history,
                   handled>>

\* ... waits until it is no longer running ...
DestroyWaits ==
    /\ destroyer = "check" /\ running
    /\ destroyer' = "wait"
    /\ UNCHANGED <<now, context, globals, thread, posters, history, handled>>


\* ... and frees the messages left and the context.
DestroyFrees ==
    /\ destroyer = "check" /\ ~running /\ Unused
    /\ freed' = TRUE /\ msgHead' = <<>>
    /\ destroyer' = "done"
    /\ UNCHANGED <<now, stop, running, globals, thread, posters, history, handled>>

-----------------------------------------------------------------------------
LoopStep ==
    \/ LoopStarts \/ LoopHandles \/ LoopFrees \/ LoopWaits \/ LoopTimesOut
    \/ LoopBreaks \/ LoopLeaves \/ LoopDeinits

DestroyStep == DestroyWaits \/ DestroyFrees

InsertStep(p) == PostMessageAtTime(p) \/ PostDropped(p)

Next ==
    \/ Tick
    \/ \E p \in Poster, w \in What, d \in Delay : Post(p, w, d)
    \/ \E p \in Poster : InsertStep(p)
    \/ \E w \in What : RemoveMessage(w)
    \/ LoopStep
    \/ DeinitDefers \/ DestroyLooper \/ DestroyStep

Spec == Init /\ [][Next]_vars

\* Time passes, threads are scheduled and get the lock, handlers return.
FairSpec ==
    /\ Spec
    /\ WF_vars(Tick) /\ WF_vars(LoopStep) /\ WF_vars(DestroyStep)
    /\ \A p \in Poster : WF_vars(InsertStep(p))

-----------------------------------------------------------------------------
\* Every variable keeps to its type, and msgHead is sorted by the time the
\* messages are due.
TypeOK ==
    /\ now \in 0..MaxTime
    /\ msgHead \in Seq(Msg)
    /\ \A i, j \in 1..Len(msgHead) : i < j => msgHead[i].time <= msgHead[j].time
    /\ {stop, running, freed, isThreadStarted, isNeedDestroy} \subseteq BOOLEAN
    /\ loop \in {"created", "loop", "handle", "wait", "leave", "deinit", "exited"}
    /\ current \in Msg \cup {NoMsg}
    /\ until \in 0..(MaxTime + 1)
    /\ poster \in [Poster -> {"idle", "insert"}]
    /\ posting \in [Poster -> Msg \cup {NoMsg}]
    /\ posted \in 0..MaxMsgs
    /\ removed \subseteq 1..MaxMsgs /\ removes \in 0..MaxRemoves
    /\ handled \in Seq(Msg)
    /\ destroyer \in {"idle", "deferred", "check", "wait", "done"}

\* A message is not overtaken by one the same thread posts later to be due at the
\* same time or later; each message is handled once, and none early.
HandledInOrder ==
    \A i \in 1..Len(handled) :
        /\ handled[i].time <= now
        /\ \A j \in 1..(i - 1) :
              /\ handled[j].id # handled[i].id
              /\ handled[j].by = handled[i].by /\ handled[i].time <= handled[j].time
                    => handled[j].id < handled[i].id

\* What RemoveMessage takes out it frees, and is not handled afterwards.
RemovedIsNotHandled == \A i \in 1..Len(handled) : handled[i].id \notin removed


\* A message in the list is handled, or removed, unless the looper is destroyed.
PostedIsHandled ==
    \A n \in 1..MaxMsgs :
        (\E i \in 1..Len(msgHead) : msgHead[i].id = n) ~>
            \/ \E i \in 1..Len(handled) : handled[i].id = n
            \/ n \in removed
            \/ stop \/ isNeedDestroy

\* DestroyLooper returns, and a destruction LooperDeinit left to the thread is
\* carried out.
DestroyReturns ==
    /\ destroyer = "check" ~> destroyer = "done"
    /\ isNeedDestroy ~> freed
=============================================================================
