------------------------------ MODULE BrListen ------------------------------
(***************************************************************************)
(* Listening for BR connections: the accept threads (ConnBrAccept),        *)
(* StartLocalListening and StopLocalListening, called by a user of the     *)
(* connection interface and, when Bluetooth is switched on or off, by      *)
(* StateChangedCallback on a thread of the Bluetooth stack.  The flags they*)
(* share, g_startListenFlag and g_brEnable, are read and written without a *)
(* lock, each access on its own.                                           *)
(***************************************************************************)
EXTENDS Naturals, FiniteSets

CONSTANTS
    User, Stack,            \* the two threads that start and stop listening
    MaxThreads,             \* bound: accept threads ever created
    MaxCalls,               \* bound: calls of each of the two threads
    MaxFaults,              \* bound: failures of OpenSppServer and of Accept
    TRY_OPEN_SERVER_COUNT

ASSUME BoundAssumption ==
    /\ {MaxThreads, MaxCalls, MaxFaults, TRY_OPEN_SERVER_COUNT} \subseteq Nat
    /\ User # Stack /\ TRY_OPEN_SERVER_COUNT > 0

Caller == {User, Stack}
Thread == 1..MaxThreads

VARIABLES
    startListenFlag, brEnable,  \* g_startListenFlag, g_brEnable
    pc, calls,                  \* the callers' positions and calls so far
    at, tryCount,               \* the accept threads
    faults,                     \* failures so far
    late                        \* connections a thread reported since the last stop

shared == <<startListenFlag, brEnable>>
callers == <<pc, calls>>
threads == <<at, tryCount, faults, late>>
vars == <<shared, callers, threads>>

Init ==
    /\ startListenFlag = FALSE
    /\ brEnable = FALSE
    /\ pc = [c \in Caller |-> "idle"]
    /\ calls = [c \in Caller |-> 0]
    /\ at = [t \in Thread |-> "none"]
    /\ tryCount = [t \in Thread |-> 0]
    /\ faults = 0
    /\ late = [t \in Thread |-> 0]

Goto(c, label) == pc' = [pc EXCEPT ![c] = label]

-----------------------------------------------------------------------------
(* StartLocalListening and StopLocalListening                              *)

CallBegins(c) ==
    /\ pc[c] = "idle" /\ calls[c] < MaxCalls
    /\ calls' = [calls EXCEPT ![c] = @ + 1]

\* A user of the interface calls one of the two.
UserStarts ==
    /\ CallBegins(User) /\ Goto(User, "check")
    /\ UNCHANGED <<shared, threads>>

UserStops ==
    /\ CallBegins(User) /\ Goto(User, "stop")
    /\ UNCHANGED <<shared, threads>>

\* StateChangedCallback: g_brEnable is set and listening started or stopped.
TurnedOn ==
    /\ CallBegins(Stack) /\ ~brEnable
    /\ brEnable' = TRUE /\ Goto(Stack, "check")
    /\ UNCHANGED <<startListenFlag, threads>>

TurnedOff ==
    /\ CallBegins(Stack) /\ brEnable
    /\ brEnable' = FALSE /\ Goto(Stack, "stop")
    /\ UNCHANGED <<startListenFlag, threads>>

StartLocalListening(c) ==
    /\ pc[c] = "check"
    /\ Goto(c, IF startListenFlag THEN "idle" ELSE "create")
    /\ UNCHANGED <<shared, calls, threads>>

\* pthread_create: the new thread runs before the flag is set.
CreateThread(c) ==
    /\ pc[c] = "create"
    /\ \E t \in Thread :
          /\ at[t] = "none" /\ \A u \in 1..(t - 1) : at[u] # "none"
          /\ at' = [at EXCEPT ![t] = "loop"]
    /\ Goto(c, "set")
    /\ UNCHANGED <<shared, calls, tryCount, faults, late>>

SetFlag(c) ==
    /\ pc[c] = "set"
    /\ startListenFlag' = TRUE
    /\ Goto(c, "idle")
    /\ UNCHANGED <<brEnable, calls, threads>>

StopLocalListening(c) ==
    /\ pc[c] = "stop"
    /\ startListenFlag' = FALSE
    /\ late' = [t \in Thread |-> 0]
    /\ Goto(c, "idle")
    /\ UNCHANGED <<brEnable, calls, at, tryCount, faults>>

-----------------------------------------------------------------------------
(* ConnBrAccept                                                            *)

ThreadAt(t, label) == at' = [at EXCEPT ![t] = label]

\* Mutant: the loop does not look at g_startListenFlag again.
MutExits(t) ==
    /\ at[t] = "loop" /\ ~brEnable
    /\ ThreadAt(t, "exited")
    /\ UNCHANGED <<shared, callers, tryCount, faults, late>>

\* The loop ends when listening was stopped, Bluetooth is off ...
ExitStopped(t) ==
    /\ at[t] = "loop" /\ (~startListenFlag \/ ~brEnable)
    /\ ThreadAt(t, "exited")
    /\ UNCHANGED <<shared, callers, tryCount, faults, late>>

\* ... or the server could not be opened TRY_OPEN_SERVER_COUNT times in a row.
ExitFailed(t) ==
    /\ at[t] = "loop" /\ tryCount[t] >= TRY_OPEN_SERVER_COUNT
    /\ ThreadAt(t, "exited")
    /\ UNCHANGED <<shared, callers, tryCount, faults, late>>


\* Mutant: one more attempt than TRY_OPEN_SERVER_COUNT.
MutMayOpenMore(t) ==
    startListenFlag /\ brEnable /\ tryCount[t] <= TRY_OPEN_SERVER_COUNT

\* A thread that finds too many connections stays here: it sleeps and looks again.
MayOpen(t) == startListenFlag /\ brEnable /\ tryCount[t] < TRY_OPEN_SERVER_COUNT

\* OpenSppServer succeeds and the thread blocks in Accept ...
OpenSppServer(t) ==
    /\ at[t] = "loop" /\ MayOpen(t)
    /\ ThreadAt(t, "accept")
    /\ UNCHANGED <<shared, callers, tryCount, faults, late>>

\* ... or fails.
OpenSppServerFails(t) ==
    /\ at[t] = "loop" /\ MayOpen(t) /\ faults < MaxFaults
    /\ faults' = faults + 1
    /\ tryCount' = [tryCount EXCEPT ![t] = @ + 1]
    /\ UNCHANGED <<shared, callers, at, late>>

\* Accept returns a connection; it is reported unless Bluetooth is off by now.
\* CloseSppServer, and the loop starts again.
Accept(t) ==
    /\ at[t] = "accept"
    /\ late' = [late EXCEPT ![t] = IF brEnable /\ ~startListenFlag THEN @ + 1 ELSE @]
    /\ tryCount' = [tryCount EXCEPT ![t] = 0]
    /\ ThreadAt(t, "loop")
    /\ UNCHANGED <<shared, callers, faults>>

\* Accept fails.
AcceptFails(t) ==
    /\ at[t] = "accept" /\ faults < MaxFaults
    /\ faults' = faults + 1
    /\ tryCount' = [tryCount EXCEPT ![t] = 0]
    /\ ThreadAt(t, "loop")
    /\ UNCHANGED <<shared, callers, late>>

-----------------------------------------------------------------------------
CallerStep(c) ==
    StartLocalListening(c) \/ CreateThread(c) \/ SetFlag(c) \/ StopLocalListening(c)

ThreadStep(t) ==
    \/ OpenSppServer(t) \/ OpenSppServerFails(t)
    \/ Accept(t) \/ AcceptFails(t)

Exits(t) == ExitStopped(t) \/ ExitFailed(t)

Next ==
    \/ UserStarts \/ UserStops \/ TurnedOn \/ TurnedOff
    \/ \E c \in Caller : CallerStep(c)
    \/ \E t \in Thread : ThreadStep(t) \/ Exits(t)

Spec == Init /\ [][Next]_vars

\* Threads are scheduled.  Nothing makes Accept return, and a thread may find
\* too many connections for ever.
FairSpec ==
    /\ Spec
    /\ \A c \in Caller : WF_vars(CallerStep(c))
    /\ \A t \in Thread : WF_vars(Exits(t))

-----------------------------------------------------------------------------
\* Every variable keeps to its type; a thread tries at most
\* TRY_OPEN_SERVER_COUNT times in a row to open its server.
TypeOK ==
    /\ {startListenFlag, brEnable} \subseteq BOOLEAN
    /\ pc \in [Caller -> {"idle", "check", "create", "set", "stop"}]
    /\ calls \in [Caller -> 0..MaxCalls]
    /\ at \in [Thread -> {"none", "loop", "accept", "exited"}]
    /\ tryCount \in [Thread -> 0..TRY_OPEN_SERVER_COUNT]
    /\ faults \in 0..MaxFaults
    /\ late \in [Thread -> Nat]


\* Once listening is stopped for good every accept thread ends, unless it is
\* still blocked in Accept.
StoppedThreadsLeave ==
    (<>[](~startListenFlag)) => <>[](\A t \in Thread : at[t] # "loop")
=============================================================================
