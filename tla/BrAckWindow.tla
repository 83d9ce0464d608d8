---------------------------- MODULE BrAckWindow ----------------------------
(***************************************************************************)
(* The acknowledgement window of the BR send thread.  SendHandlerLoop      *)
(* (br_connection.c) numbers what it sends on a connection; it asks the    *)
(* peer for an acknowledgement at every multiple of the window and waits   *)
(* for it before the window is used up.  The open requests are the pending *)
(* packets of br_pending_packet.c; the answers come in on the read thread  *)
(* of the connection, late or not at all.                                  *)
(***************************************************************************)
EXTENDS Integers

CONSTANTS
    Conn,                       \* connections
    MIN_WINDOWS, MAX_WINDOWS, DEFAULT_WINDOWS,
    WINDOWS_ACK_FAILED_TIMES,
    MaxSeq                      \* bound: messages sent on one connection

ASSUME WindowAssumption ==
    /\ {MIN_WINDOWS, MAX_WINDOWS, DEFAULT_WINDOWS, WINDOWS_ACK_FAILED_TIMES} \subseteq Nat
    /\ 1 < MIN_WINDOWS
    /\ MIN_WINDOWS <= DEFAULT_WINDOWS /\ DEFAULT_WINDOWS <= MAX_WINDOWS
ASSUME SeqAssumption == MaxSeq \in Nat

VARIABLES
    seq, windows, ackTimeoutCount, waitSeq,     \* fields of BrConnectionInfo
    alive,          \* the connections whose node is in g_connection_list
    pending,        \* g_pendingList
    asked,          \* requests the peer has and may still answer
    pc, conn        \* the send thread and the connection it sends on

fields == <<seq, windows, ackTimeoutCount, waitSeq>>
vars == <<fields, alive, pending, asked, pc, conn>>

Packet == [id : Conn, seq : 1..MaxSeq, finded : BOOLEAN]
PacketsOf(c, s) == {p \in pending : p.id = c /\ p.seq = s}
Open(c, s) == [id |-> c, seq |-> s, finded |-> FALSE]

Init ==
    /\ seq = [c \in Conn |-> 0]
    /\ windows = [c \in Conn |-> DEFAULT_WINDOWS]
    /\ ackTimeoutCount = [c \in Conn |-> 0]
    /\ waitSeq = [c \in Conn |-> 0]
    /\ alive = Conn
    /\ pending = {}
    /\ asked = {}
    /\ pc = "dequeue"
    /\ conn \in Conn

-----------------------------------------------------------------------------
(* The send thread                                                         *)

\* Mutant: the acknowledgement is waited for one message too late.
MutMustWait(c, s) == waitSeq[c] # 0 /\ s % windows[c] = 0

\* windows > 1 follows from the bounds of the window.
MustWait(c, s) == waitSeq[c] # 0 /\ windows[c] > 1 /\ s % windows[c] = windows[c] - 1

\* What the loop does once a request was sent or none is due.
AfterAck(c, s) == IF MustWait(c, s) THEN "get" ELSE "data"

\* A node is taken from the queue and numbered (UpdataSeq; 2^64 is not reached).
\* CreateBrPendingPacket refuses a packet that exists.
Dequeue(c) ==
    LET s == seq[c] + 1
    IN  /\ pc = "dequeue" /\ c \in alive /\ s <= MaxSeq
        /\ conn' = c
        /\ seq' = [seq EXCEPT ![c] = s]
        /\ \/ /\ s % windows[c] = 0 /\ PacketsOf(c, s) = {}
              /\ pending' = pending \cup {Open(c, s)}
              /\ pc' = "ack"
           \/ /\ s % windows[c] # 0 \/ PacketsOf(c, s) # {}
              /\ pc' = AfterAck(c, s)
              /\ UNCHANGED pending
        /\ UNCHANGED <<windows, ackTimeoutCount, waitSeq, alive, asked>>

\* SendAck: BrTransSend succeeds ...
SendAck ==
    /\ pc = "ack"
    /\ asked' = asked \cup {<<conn, seq[conn]>>}
    /\ waitSeq' = [waitSeq EXCEPT ![conn] = seq[conn]]
    /\ pc' = "data"
    /\ UNCHANGED <<seq, windows, ackTimeoutCount, alive, pending, conn>>

\* ... or fails, and DelBrPendingPacket takes the packet back.
SendAckFails ==
    /\ pc = "ack"
    /\ pending' = pending \ PacketsOf(conn, seq[conn])
    /\ pc' = AfterAck(conn, seq[conn])
    /\ UNCHANGED <<fields, alive, asked, conn>>

Answered(c) == \E p \in PacketsOf(c, waitSeq[c]) : p.finded

\* GetBrPendingPacket finds the packet, not answered yet, and waits.  It has no
\* step for a packet that is missing: OneRequestOpen shows there is none.
WaitAck ==
    /\ pc = "get" /\ ~Answered(conn)
    /\ pc' = "wait"
    /\ UNCHANGED <<fields, alive, pending, asked, conn>>

\* WaitAck when the answer was there first (SOFTBUS_ALREADY_TRIGGERED).
AckTriggered ==
    /\ pc = "get" /\ Answered(conn)
    /\ ackTimeoutCount' = [ackTimeoutCount EXCEPT ![conn] = 0]
    /\ windows' = [windows EXCEPT ![conn] = IF @ < MAX_WINDOWS THEN @ + 1 ELSE @]
    /\ pc' = "delete"
    /\ UNCHANGED <<seq, waitSeq, alive, pending, asked, conn>>

\* WaitAck when the answer came during the wait (SOFTBUS_OK).
AckInTime ==
    /\ pc = "wait" /\ Answered(conn)
    /\ ackTimeoutCount' = [ackTimeoutCount EXCEPT ![conn] = 0]
    /\ pc' = "delete"
    /\ UNCHANGED <<seq, windows, waitSeq, alive, pending, asked, conn>>

\* Mutant: the window shrinks at every timeout and below its minimum.
MutShrunk(w, n) ==
    LET v == w - 1
    IN  IF n > WINDOWS_ACK_FAILED_TIMES /\ v < DEFAULT_WINDOWS THEN DEFAULT_WINDOWS ELSE v

\* Mutant: the window is restored before it shrinks.
MutShrunkAfter(w, n) ==
    LET v == IF n > WINDOWS_ACK_FAILED_TIMES /\ w < DEFAULT_WINDOWS THEN DEFAULT_WINDOWS ELSE w
    IN  IF v > MIN_WINDOWS /\ n % 2 = 0 THEN v - 1 ELSE v

\* The window after the n-th timeout in a row.
Shrunk(w, n) ==
    LET v == IF w > MIN_WINDOWS /\ n % 2 = 0 THEN w - 1 ELSE w
    IN  IF n > WINDOWS_ACK_FAILED_TIMES /\ v < DEFAULT_WINDOWS THEN DEFAULT_WINDOWS ELSE v

\* WaitAck when the wait ends without the answer (SOFTBUS_TIMOUT).
AckTimesOut ==
    LET n == ackTimeoutCount[conn] + 1
    IN  /\ pc = "wait" /\ ~Answered(conn)
        /\ ackTimeoutCount' = [ackTimeoutCount EXCEPT ![conn] = n]
        /\ windows' = [windows EXCEPT ![conn] = Shrunk(@, n)]
        /\ pc' = "delete"
        /\ UNCHANGED <<seq, waitSeq, alive, pending, asked, conn>>

\* Mutant: the loop does not forget the request it waited for.
MutForget ==
    /\ pc = "delete"
    /\ pending' = pending \ PacketsOf(conn, waitSeq[conn])
    /\ pc' = "data"
    /\ UNCHANGED <<fields, alive, asked, conn>>

\* GetBrPendingPacket frees the packet, under g_pendingLock again, and the
\* loop forgets the request.
Forget ==
    /\ pc = "delete"
    /\ pending' = pending \ PacketsOf(conn, waitSeq[conn])
    /\ waitSeq' = [waitSeq EXCEPT ![conn] = 0]
    /\ pc' = "data"
    /\ UNCHANGED <<seq, windows, ackTimeoutCount, alive, asked, conn>>

\* The message itself is sent, or not, and the reference released.
SendData ==
    /\ pc = "data"
    /\ pc' = "dequeue"
    /\ UNCHANGED <<fields, alive, pending, asked, conn>>

-----------------------------------------------------------------------------
(* The other threads                                                       *)

\* The peer's METHOD_ACK_RESPONSE arrives: SetBrPendingPacket.
SetBrPendingPacket ==
    \E r \in asked :
        /\ r[1] \in alive
        /\ asked' = asked \ {r}
        /\ pending' = (pending \ PacketsOf(r[1], r[2])) \cup
                        {[p EXCEPT !.finded = TRUE] : p \in PacketsOf(r[1], r[2])}
        /\ UNCHANGED <<fields, alive, pc, conn>>

\* The last reference to a connection is released and its node freed.  Pending
\* packets stay; the send thread holds a reference while it uses a connection.
Disconnected(c) ==
    /\ c \in alive /\ (pc = "dequeue" \/ c # conn)
    /\ alive' = alive \ {c}
    /\ UNCHANGED <<fields, pending, asked, pc, conn>>

SendStep ==
    \/ SendAck \/ SendAckFails
    \/ WaitAck \/ AckTriggered \/ AckInTime \/ AckTimesOut \/ Forget
    \/ SendData

Next ==
    \/ \E c \in Conn : Dequeue(c) \/ Disconnected(c)
    \/ SendStep
    \/ SetBrPendingPacket

Spec == Init /\ [][Next]_vars

-----------------------------------------------------------------------------
\* Every variable keeps to its type; the window keeps to its bounds, so that
\* the loop never divides by zero.
TypeOK ==
    /\ seq \in [Conn -> 0..MaxSeq]
    /\ windows \in [Conn -> MIN_WINDOWS..MAX_WINDOWS]
    /\ ackTimeoutCount \in [Conn -> Nat]
    /\ waitSeq \in [Conn -> 0..MaxSeq]
    /\ alive \subseteq Conn
    /\ pending \subseteq Packet
    /\ asked \subseteq Conn \X (0..MaxSeq)
    /\ pc \in {"dequeue", "ack", "get", "wait", "delete", "data"}
    /\ conn \in Conn

\* The window bounds what is sent before the acknowledgement is waited for,
\* although the window changes with every answer and every timeout.
WithinWindow ==
    \A c \in Conn : waitSeq[c] # 0 =>
        /\ waitSeq[c] <= seq[c]
        /\ seq[c] - waitSeq[c] < windows[c] \/ (c = conn /\ pc = "delete")

\* The request of a connection that is open: it waits to be sent, or was sent.
OpenSeq(c) == IF pc = "ack" /\ c = conn THEN seq[c] ELSE waitSeq[c]

\* A connection has at most one request open, and when the send thread waits
\* for an answer its packet is there: GetBrPendingPacket never fails to find
\* it, and no request is left behind by a connection that goes on sending.
OneRequestOpen ==
    \A c \in Conn :
        /\ \A p \in pending : p.id = c => p.seq = OpenSeq(c)
        /\ OpenSeq(c) # 0 => \E p \in pending : PacketsOf(c, OpenSeq(c)) = {p}

\* After more than WINDOWS_ACK_FAILED_TIMES timeouts in a row the connection
\* sends with at least the default window, and keeps it however many follow.
TimeoutsRestoreWindow ==
    \A c \in Conn :
        ackTimeoutCount[c] > WINDOWS_ACK_FAILED_TIMES => windows[c] >= DEFAULT_WINDOWS
=============================================================================
