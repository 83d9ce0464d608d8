------------------------- MODULE BrAckWindow_proofs -------------------------
(***************************************************************************)
(* The window stays within its bounds, and is restored after too many      *)
(* timeouts, for every choice of the bounds and any number of connections. *)
(***************************************************************************)
EXTENDS BrAckWindow, TLAPS

\* One timeout (WaitAck) keeps the window within MIN_WINDOWS..MAX_WINDOWS, and
\* leaves at least the default once the timeouts exceed their limit.
LEMMA ShrunkBounds ==
    ASSUME NEW w \in MIN_WINDOWS..MAX_WINDOWS, NEW n \in Nat
    PROVE  /\ Shrunk(w, n) \in MIN_WINDOWS..MAX_WINDOWS
           /\ n > WINDOWS_ACK_FAILED_TIMES => Shrunk(w, n) >= DEFAULT_WINDOWS
<1> DEFINE v == IF w > MIN_WINDOWS /\ n % 2 = 0 THEN w - 1 ELSE w
<1>1. v \in MIN_WINDOWS..MAX_WINDOWS
  BY WindowAssumption
<1>2. Shrunk(w, n) =
         IF n > WINDOWS_ACK_FAILED_TIMES /\ v < DEFAULT_WINDOWS THEN DEFAULT_WINDOWS ELSE v
  BY DEF Shrunk
<1> HIDE DEF v
<1> QED
  BY <1>1, <1>2, WindowAssumption

\* SendHandlerLoop and GetBrPendingPacket start from values of their types.
LEMMA WindowInit == Init => TypeOK
  BY WindowAssumption, SeqAssumption DEF Init, TypeOK

\* The steps of the send thread keep every variable in its type.
LEMMA SendStepType == TypeOK /\ SendStep => TypeOK'
<1> SUFFICES ASSUME TypeOK, SendStep PROVE TypeOK'
  OBVIOUS
<1> USE WindowAssumption, SeqAssumption
<1>1. CASE SendAck
  <2>1. conn \in Conn /\ seq[conn] \in 0..MaxSeq
    BY DEF TypeOK
  <2>2. waitSeq' \in [Conn -> 0..MaxSeq]
    BY <1>1, <2>1 DEF SendAck, TypeOK
  <2> QED
    BY <1>1, <2>1, <2>2 DEF SendAck, TypeOK
<1>2. CASE SendAckFails
  BY <1>2 DEF SendAckFails, TypeOK, fields, AfterAck
<1>3. CASE WaitAck
  BY <1>3 DEF WaitAck, TypeOK, fields
<1>4. CASE AckTriggered
  BY <1>4 DEF AckTriggered, TypeOK
<1>5. CASE AckInTime
  BY <1>5 DEF AckInTime, TypeOK
<1>6. CASE AckTimesOut
  <2>1. ackTimeoutCount[conn] + 1 \in Nat
    BY DEF TypeOK
  <2>2. Shrunk(windows[conn], ackTimeoutCount[conn] + 1) \in MIN_WINDOWS..MAX_WINDOWS
    BY <2>1, ShrunkBounds DEF TypeOK
  <2> QED
    BY <1>6, <2>1, <2>2 DEF AckTimesOut, TypeOK
<1>7. CASE Forget
  BY <1>7 DEF Forget, TypeOK
<1>8. CASE SendData
  BY <1>8 DEF SendData, TypeOK, fields
<1> QED
  BY <1>1, <1>2, <1>3, <1>4, <1>5, <1>6, <1>7, <1>8 DEF SendStep

\* Taking a message from the queue keeps every variable in its type.
LEMMA DequeueType ==
    ASSUME TypeOK, NEW c \in Conn, Dequeue(c)
    PROVE  TypeOK'
<1> USE WindowAssumption, SeqAssumption
<1>1. seq[c] + 1 \in 1..MaxSeq /\ seq' = [seq EXCEPT ![c] = seq[c] + 1]
  BY DEF Dequeue, TypeOK
<1>2. Open(c, seq[c] + 1) \in Packet
  BY <1>1 DEF Open, Packet
<1>3. pending' \subseteq Packet
  BY <1>2 DEF Dequeue, TypeOK
<1>4. pc' \in {"dequeue", "ack", "get", "wait", "delete", "data"}
  BY DEF Dequeue, AfterAck
<1> QED
  BY <1>1, <1>3, <1>4 DEF Dequeue, TypeOK

\* Every step keeps every variable in its type.
LEMMA WindowNext == TypeOK /\ [Next]_vars => TypeOK'
<1> SUFFICES ASSUME TypeOK, [Next]_vars PROVE TypeOK'
  OBVIOUS
<1>1. ASSUME NEW c \in Conn, Dequeue(c) PROVE TypeOK'
  BY <1>1, DequeueType
<1>2. ASSUME NEW c \in Conn, Disconnected(c) PROVE TypeOK'
  BY <1>2 DEF Disconnected, TypeOK, fields
<1>3. CASE SendStep
  BY <1>3, SendStepType
<1>4. CASE SetBrPendingPacket
  <2>1. PICK r \in asked :
           /\ pending' = (pending \ PacketsOf(r[1], r[2])) \cup
                           {[p EXCEPT !.finded = TRUE] : p \in PacketsOf(r[1], r[2])}
           /\ asked' = asked \ {r}
           /\ UNCHANGED <<fields, alive, pc, conn>>
    BY <1>4 DEF SetBrPendingPacket
  <2>2. \A p \in PacketsOf(r[1], r[2]) : [p EXCEPT !.finded = TRUE] \in Packet
    BY DEF PacketsOf, TypeOK, Packet
  <2> QED
    BY <2>1, <2>2 DEF TypeOK, fields
<1>5. CASE UNCHANGED vars
  BY <1>5 DEF vars, fields, TypeOK
<1> QED
  BY <1>1, <1>2, <1>3, <1>4, <1>5 DEF Next

\* The windows of SendHandlerLoop stay within MIN_WINDOWS..MAX_WINDOWS whatever
\* answers come or fail to come, so seq % windows is always defined.
THEOREM WindowBounded == Spec => []TypeOK
<1>1. Init => TypeOK
  BY WindowInit
<1>2. TypeOK /\ [Next]_vars => TypeOK'
  BY WindowNext
<1> QED
  BY <1>1, <1>2, PTL DEF Spec

\* A step changes a window or a timeout count only in WaitAck, and each such
\* change leaves the default window once the timeouts exceed their limit.
LEMMA RestoreNext ==
    TypeOK /\ TimeoutsRestoreWindow /\ [Next]_vars => TimeoutsRestoreWindow'
<1> SUFFICES ASSUME TypeOK, TimeoutsRestoreWindow, [Next]_vars
             PROVE  TimeoutsRestoreWindow'
  OBVIOUS
<1>1. CASE UNCHANGED <<windows, ackTimeoutCount>>
  BY <1>1 DEF TimeoutsRestoreWindow
<1>2. CASE AckTriggered
  BY <1>2, WindowAssumption DEF AckTriggered, TypeOK, TimeoutsRestoreWindow
<1>3. CASE AckInTime
  BY <1>3, WindowAssumption DEF AckInTime, TypeOK, TimeoutsRestoreWindow
<1>4. CASE AckTimesOut
  <2>1. /\ ackTimeoutCount[conn] + 1 \in Nat
        /\ windows[conn] \in MIN_WINDOWS..MAX_WINDOWS
        /\ conn \in Conn
    BY DEF TypeOK
  <2>2. ackTimeoutCount[conn] + 1 > WINDOWS_ACK_FAILED_TIMES =>
           Shrunk(windows[conn], ackTimeoutCount[conn] + 1) >= DEFAULT_WINDOWS
    BY <2>1, ShrunkBounds
  <2>3. /\ ackTimeoutCount' = [ackTimeoutCount EXCEPT ![conn] = ackTimeoutCount[conn] + 1]
        /\ windows' = [windows EXCEPT
                          ![conn] = Shrunk(windows[conn], ackTimeoutCount[conn] + 1)]
    BY <1>4 DEF AckTimesOut
  <2> QED
    BY <2>1, <2>2, <2>3 DEF TypeOK, TimeoutsRestoreWindow
<1> QED
  BY <1>1, <1>2, <1>3, <1>4
  DEF Next, Dequeue, Disconnected, SendStep, SendAck, SendAckFails, WaitAck, Forget,
      SendData, SetBrPendingPacket, vars, fields

\* After more than WINDOWS_ACK_FAILED_TIMES unanswered requests in a row a
\* connection sends with at least DEFAULT_WINDOWS (WaitAck).
THEOREM WindowRestored == Spec => []TimeoutsRestoreWindow
<1>1. Init => TimeoutsRestoreWindow
  BY WindowAssumption DEF Init, TimeoutsRestoreWindow
<1>2. TypeOK /\ TimeoutsRestoreWindow /\ [Next]_vars => TimeoutsRestoreWindow'
  BY RestoreNext
<1> QED
  BY <1>1, <1>2, WindowBounded, PTL DEF Spec

-----------------------------------------------------------------------------
(* Within the window: why one request is open at a time                    *)

\* What follows a multiple s of w by less than w has its distance as remainder:
\* SendHandlerLoop finds the multiples of the window with seq % windows.
LEMMA Remainder ==
    ASSUME NEW s \in Nat, NEW w \in Nat, w > 1, s % w = 0, NEW d \in 0..(w - 1)
    PROVE  (s + d) % w = d
<1> DEFINE q == s \div w
           p == (s + d) \div w
           r == (s + d) % w
<1>1. q \in Nat /\ s = w * q
  OBVIOUS
<1>2. p \in Nat /\ r \in 0..(w - 1) /\ s + d = w * p + r
  OBVIOUS
<1>3. w * (p - q) = d - r
  BY <1>1, <1>2
<1> HIDE DEF q, p, r
<1>4. ~(p - q >= 1)
  <2> SUFFICES ASSUME p - q >= 1 PROVE FALSE
    OBVIOUS
  <2>1. w * (p - q) >= w
    BY <1>1, <1>2
  <2> QED
    BY <2>1, <1>2, <1>3
<1>5. ~(p - q <= -1)
  <2> SUFFICES ASSUME p - q <= -1 PROVE FALSE
    OBVIOUS
  <2>1. w * (p - q) <= -w
    BY <1>1, <1>2
  <2> QED
    BY <2>1, <1>2, <1>3
<1>6. p - q = 0
  BY <1>1, <1>2, <1>4, <1>5
<1>7. d = r
  BY <1>1, <1>2, <1>3, <1>6
<1> QED
  BY <1>7 DEF r

\* The connection is waiting for its acknowledgement, or has just stopped to.
Waiting(c) == c = conn /\ pc \in {"get", "wait"}
Leaving(c) == c = conn /\ pc = "delete"

\* Where the open request of a connection lies: at a multiple of its window, and
\* so close behind that the send thread has yet to reach the end of the window
\* or is waiting there.
RequestInWindow ==
    \A c \in Conn : waitSeq[c] # 0 =>
        /\ waitSeq[c] <= seq[c]
        /\ ~Leaving(c) => /\ waitSeq[c] % windows[c] = 0
                          /\ seq[c] - waitSeq[c] < windows[c]
        /\ ~Leaving(c) /\ ~Waiting(c) => seq[c] - waitSeq[c] < windows[c] - 1

\* What the position of the send thread says of its connection.
ThreadInv ==
    /\ pc = "ack" => /\ waitSeq[conn] = 0
                     /\ seq[conn] >= 1
                     /\ seq[conn] % windows[conn] = 0
    /\ pc \in {"get", "wait", "delete"} => waitSeq[conn] # 0

WindowInv == TypeOK /\ RequestInWindow /\ ThreadInv /\ OneRequestOpen

\* The first message on each connection meets no request.
LEMMA WindowInvInit == Init => WindowInv
  BY WindowInit DEF WindowInv, Init, RequestInWindow, ThreadInv, OneRequestOpen, OpenSeq

\* While the send thread is between two messages, the next number on a
\* connection with an open request is no multiple of the window, and it is the
\* last of the window exactly if it reaches the end of it.
LEMMA NextInWindow ==
    ASSUME WindowInv, pc = "dequeue", NEW c \in Conn, waitSeq[c] # 0
    PROVE  /\ waitSeq[c] < seq[c] + 1
           /\ (seq[c] + 1) % windows[c] = seq[c] + 1 - waitSeq[c]
           /\ seq[c] + 1 - waitSeq[c] < windows[c]
<1> DEFINE d == seq[c] + 1 - waitSeq[c]
<1>1. /\ seq[c] \in Nat /\ waitSeq[c] \in Nat
      /\ windows[c] \in Nat /\ windows[c] > 1
  BY WindowAssumption, SeqAssumption DEF WindowInv, TypeOK
<1>2. ~Leaving(c) /\ ~Waiting(c)
  BY DEF Leaving, Waiting
<1>3. /\ waitSeq[c] <= seq[c]
      /\ waitSeq[c] % windows[c] = 0
      /\ seq[c] - waitSeq[c] < windows[c] - 1
  BY <1>2 DEF WindowInv, RequestInWindow
<1>4. d \in 0..(windows[c] - 1) /\ d > 0 /\ waitSeq[c] + d = seq[c] + 1
  BY <1>1, <1>3
<1> HIDE DEF d
<1>5. (waitSeq[c] + d) % windows[c] = d
  BY <1>1, <1>3, <1>4, Remainder
<1>6. d = seq[c] + 1 - waitSeq[c]
  BY DEF d
<1> QED
  BY <1>1, <1>4, <1>5, <1>6

\* Taking a message keeps the invariant: a request is made only when none is
\* open, and the thread goes to wait exactly at the end of the window.
LEMMA DequeueInv ==
    ASSUME WindowInv, NEW c \in Conn, Dequeue(c)
    PROVE  WindowInv'
<1>1. TypeOK'
  BY DequeueType DEF WindowInv
<1>2. /\ pc = "dequeue" /\ conn' = c /\ seq[c] + 1 <= MaxSeq
      /\ seq' = [seq EXCEPT ![c] = seq[c] + 1]
      /\ UNCHANGED <<windows, ackTimeoutCount, waitSeq, alive, asked>>
  BY DEF Dequeue
<1>3. /\ seq \in [Conn -> Nat] /\ waitSeq \in [Conn -> Nat] /\ conn \in Conn
      /\ \A k \in Conn : windows[k] \in Nat /\ windows[k] > 1
      /\ pending \subseteq Packet
  BY WindowAssumption, SeqAssumption DEF WindowInv, TypeOK
<1>4. seq'[c] = seq[c] + 1 /\ \A k \in Conn \ {c} : seq'[k] = seq[k]
  BY <1>2, <1>3
<1>5. /\ \A k \in Conn : OpenSeq(k) = waitSeq[k]
      /\ \A k \in Conn : ~Leaving(k) /\ ~Waiting(k)
  BY <1>2 DEF OpenSeq, Leaving, Waiting
<1>6. PacketsOf(c, seq[c] + 1) = {}
  <2> SUFFICES ASSUME NEW p \in PacketsOf(c, seq[c] + 1) PROVE FALSE
    OBVIOUS
  <2>1. p \in pending /\ p.id = c /\ p.seq = seq[c] + 1
    BY DEF PacketsOf
  <2>2. p.seq = waitSeq[c]
    BY <1>5, <2>1 DEF WindowInv, OneRequestOpen
  <2>3. waitSeq[c] # 0
    BY <1>3, <2>1, <2>2
  <2> QED
    BY <1>2, <1>3, <2>1, <2>2, <2>3, NextInWindow
<1>7. CASE (seq[c] + 1) % windows[c] = 0
  <2>1. waitSeq[c] = 0
    BY <1>2, <1>3, <1>7, NextInWindow
  <2>2. pc' = "ack" /\ pending' = pending \cup {Open(c, seq[c] + 1)}
    BY <1>6, <1>7 DEF Dequeue
  <2>3. RequestInWindow'
    BY <1>2, <1>3, <1>4, <1>5, <2>1, <2>2
    DEF WindowInv, RequestInWindow, Leaving, Waiting
  <2>4. ThreadInv'
    BY <1>2, <1>3, <1>4, <1>7, <2>1, <2>2 DEF ThreadInv
  <2>5. OneRequestOpen'
    <3>1. \A p \in pending : p.id # c
      BY <1>3, <1>5, <2>1 DEF WindowInv, OneRequestOpen, Packet
    <3>2. OpenSeq(c)' = seq[c] + 1
      BY <1>2, <1>4, <2>2 DEF OpenSeq
    <3>3. \A k \in Conn \ {c} : OpenSeq(k)' = waitSeq[k]
      BY <1>2 DEF OpenSeq
    <3>4. {q \in pending' : q.id = c /\ q.seq = seq[c] + 1} = {Open(c, seq[c] + 1)}
      BY <2>2, <3>1 DEF Open
    <3>5. ASSUME NEW k \in Conn, k # c
          PROVE  {q \in pending' : q.id = k /\ q.seq = waitSeq[k]} = PacketsOf(k, waitSeq[k])
      BY <2>2, <3>5 DEF PacketsOf, Open
    <3>6. Open(c, seq[c] + 1).id = c /\ Open(c, seq[c] + 1).seq = seq[c] + 1
      BY DEF Open
    <3>7. ASSUME NEW k \in Conn
          PROVE  /\ \A p \in pending' : p.id = k => p.seq = OpenSeq(k)'
                 /\ OpenSeq(k)' # 0 => \E p \in pending' :
                       {q \in pending' : q.id = k /\ q.seq = OpenSeq(k)'} = {p}
      <4>1. CASE k = c
        BY <2>2, <3>1, <3>2, <3>4, <3>6, <4>1
      <4>2. CASE k # c
        BY <1>5, <2>2, <3>3, <3>5, <3>6, <4>2 DEF WindowInv, OneRequestOpen
      <4> QED
        BY <4>1, <4>2
    <3> QED
      BY <3>7 DEF OneRequestOpen, PacketsOf
  <2> QED
    BY <1>1, <2>3, <2>4, <2>5 DEF WindowInv
<1>8. CASE (seq[c] + 1) % windows[c] # 0
  <2>1. pending' = pending /\ pc' = AfterAck(c, seq[c] + 1)
    BY <1>8 DEF Dequeue
  <2>2. pc' = "get" \/ pc' = "data"
    BY <2>1 DEF AfterAck
  <2>3. pc' = "get" <=> waitSeq[c] # 0 /\ seq[c] + 1 - waitSeq[c] = windows[c] - 1
    BY <1>2, <1>3, <2>1, NextInWindow DEF AfterAck, MustWait
  <2>4. RequestInWindow'
    <3> SUFFICES ASSUME NEW k \in Conn, waitSeq[k] # 0
                 PROVE  (/\ waitSeq[k] <= seq[k]
                         /\ ~Leaving(k) => /\ waitSeq[k] % windows[k] = 0
                                           /\ seq[k] - waitSeq[k] < windows[k]
                         /\ ~Leaving(k) /\ ~Waiting(k) =>
                               seq[k] - waitSeq[k] < windows[k] - 1)'
      BY <1>2 DEF RequestInWindow
    <3>1. CASE k = c
      BY <1>2, <1>3, <1>4, <1>5, <2>2, <2>3, <3>1, NextInWindow
      DEF WindowInv, RequestInWindow, Waiting
    <3>2. CASE k # c
      BY <1>2, <1>4, <1>5, <3>2 DEF WindowInv, RequestInWindow
    <3> QED
      BY <3>1, <3>2
  <2>5. ThreadInv'
    BY <1>2, <2>2, <2>3 DEF ThreadInv
  <2>6. OneRequestOpen'
    BY <1>2, <1>5, <2>1, <2>2 DEF WindowInv, OneRequestOpen, OpenSeq, PacketsOf
  <2> QED
    BY <1>1, <2>4, <2>5, <2>6 DEF WindowInv
<1> QED
  BY <1>7, <1>8

\* The request becomes the one to wait for, or is taken back (SendAck).
LEMMA SendAckInv == WindowInv /\ (SendAck \/ SendAckFails) => WindowInv'
<1> SUFFICES ASSUME WindowInv, SendAck \/ SendAckFails PROVE WindowInv'
  OBVIOUS
<1>1. TypeOK'
  BY SendStepType DEF WindowInv, SendStep
<1>2. /\ seq \in [Conn -> Nat] /\ waitSeq \in [Conn -> Nat] /\ conn \in Conn
      /\ \A k \in Conn : windows[k] \in Nat /\ windows[k] > 1
      /\ pending \subseteq Packet
  BY WindowAssumption, SeqAssumption DEF WindowInv, TypeOK
<1>3. /\ pc = "ack" /\ waitSeq[conn] = 0 /\ seq[conn] >= 1
      /\ seq[conn] % windows[conn] = 0
  BY DEF SendAck, SendAckFails, WindowInv, ThreadInv
<1>4. pc' = "data" /\ conn' = conn /\ seq' = seq /\ windows' = windows
  BY <1>3 DEF SendAck, SendAckFails, AfterAck, MustWait, fields
<1>5. \A k \in Conn : OpenSeq(k) = IF k = conn THEN seq[k] ELSE waitSeq[k]
  BY <1>3 DEF OpenSeq
<1>6. \A k \in Conn : OpenSeq(k)' = waitSeq'[k]
  BY <1>4 DEF OpenSeq
<1>7. ThreadInv'
  BY <1>4 DEF ThreadInv
<1>8. CASE SendAck
  <2>1. pending' = pending /\ waitSeq' = [waitSeq EXCEPT ![conn] = seq[conn]]
    BY <1>8 DEF SendAck
  <2>2. \A k \in Conn : waitSeq'[k] = OpenSeq(k)
    BY <1>2, <1>5, <2>1
  <2>3. RequestInWindow'
    BY <1>2, <1>3, <1>4, <2>1 DEF WindowInv, RequestInWindow, Leaving, Waiting
  <2>4. OneRequestOpen'
    BY <1>6, <2>1, <2>2 DEF WindowInv, OneRequestOpen, PacketsOf
  <2> QED
    BY <1>1, <1>7, <2>3, <2>4 DEF WindowInv
<1>9. CASE SendAckFails
  <2>1. pending' = pending \ PacketsOf(conn, seq[conn]) /\ waitSeq' = waitSeq
    BY <1>9 DEF SendAckFails, fields
  <2>2. RequestInWindow'
    BY <1>2, <1>3, <1>4, <2>1 DEF WindowInv, RequestInWindow, Leaving, Waiting
  <2>3. \A p \in pending' : p.id # conn
    BY <1>2, <1>5, <2>1 DEF WindowInv, OneRequestOpen, PacketsOf
  <2>4. ASSUME NEW k \in Conn
        PROVE  /\ \A p \in pending' : p.id = k => p.seq = waitSeq[k]
               /\ waitSeq[k] # 0 => \E p \in pending' :
                     {q \in pending' : q.id = k /\ q.seq = waitSeq[k]} = {p}
    <3>1. CASE k = conn
      BY <1>3, <2>3, <3>1
    <3>2. CASE k # conn
      <4>1. {q \in pending' : q.id = k /\ q.seq = waitSeq[k]} = PacketsOf(k, waitSeq[k])
        BY <2>1, <3>2 DEF PacketsOf
      <4> QED
        BY <1>5, <2>1, <3>2, <4>1 DEF WindowInv, OneRequestOpen, PacketsOf
    <3> QED
      BY <3>1, <3>2
  <2>5. OneRequestOpen'
    BY <1>6, <2>1, <2>4 DEF OneRequestOpen, PacketsOf
  <2> QED
    BY <1>1, <1>7, <2>2, <2>5 DEF WindowInv
<1> QED
  BY <1>8, <1>9

\* Waiting for the acknowledgement and its three outcomes leave the request
\* alone; the window they change counts again only when it is forgotten.
LEMMA WaitInv ==
    WindowInv /\ (WaitAck \/ AckTriggered \/ AckInTime \/ AckTimesOut) => WindowInv'
<1> SUFFICES ASSUME WindowInv, WaitAck \/ AckTriggered \/ AckInTime \/ AckTimesOut
             PROVE  WindowInv'
  OBVIOUS
<1>1. TypeOK'
  BY SendStepType DEF WindowInv, SendStep
<1>2. /\ pc \in {"get", "wait"} /\ pc' \in {"wait", "delete"} /\ conn' = conn
      /\ seq' = seq /\ waitSeq' = waitSeq /\ pending' = pending
      /\ pc' = "wait" => windows' = windows
  BY DEF WaitAck, AckTriggered, AckInTime, AckTimesOut, fields
<1>3. \A k \in Conn \ {conn} : windows'[k] = windows[k]
  BY DEF WindowInv, TypeOK, WaitAck, AckTriggered, AckInTime, AckTimesOut, fields
<1>4. ThreadInv'
  BY <1>2 DEF WindowInv, ThreadInv
<1>5. RequestInWindow'
  <2> SUFFICES ASSUME NEW k \in Conn, waitSeq[k] # 0
               PROVE  (/\ waitSeq[k] <= seq[k]
                       /\ ~Leaving(k) => /\ waitSeq[k] % windows[k] = 0
                                         /\ seq[k] - waitSeq[k] < windows[k]
                       /\ ~Leaving(k) /\ ~Waiting(k) =>
                             seq[k] - waitSeq[k] < windows[k] - 1)'
    BY <1>2 DEF RequestInWindow
  <2>1. CASE k = conn
    BY <1>2, <2>1 DEF WindowInv, RequestInWindow, Leaving, Waiting
  <2>2. CASE k # conn
    BY <1>2, <1>3, <2>2 DEF WindowInv, RequestInWindow, Leaving, Waiting
  <2> QED
    BY <2>1, <2>2
<1>6. OneRequestOpen'
  BY <1>2 DEF WindowInv, OneRequestOpen, OpenSeq, PacketsOf
<1> QED
  BY <1>1, <1>4, <1>5, <1>6 DEF WindowInv

\* Forgetting the request frees its packet, the only one of the connection.
LEMMA ForgetInv == WindowInv /\ Forget => WindowInv'
<1> SUFFICES ASSUME WindowInv, Forget PROVE WindowInv'
  OBVIOUS
<1>1. TypeOK'
  BY SendStepType DEF WindowInv, SendStep
<1>2. /\ pc = "delete" /\ pc' = "data" /\ conn' = conn /\ conn \in Conn
      /\ seq' = seq /\ windows' = windows
      /\ pending' = pending \ PacketsOf(conn, waitSeq[conn])
      /\ waitSeq' = [waitSeq EXCEPT ![conn] = 0] /\ waitSeq \in [Conn -> 0..MaxSeq]
  BY DEF Forget, WindowInv, TypeOK
<1>3. waitSeq'[conn] = 0 /\ \A k \in Conn \ {conn} : waitSeq'[k] = waitSeq[k]
  BY <1>2
<1>4. ThreadInv'
  BY <1>2 DEF ThreadInv
<1>5. RequestInWindow'
  BY <1>2, <1>3 DEF WindowInv, RequestInWindow, Leaving, Waiting
<1>6. /\ \A k \in Conn : OpenSeq(k) = waitSeq[k]
      /\ \A k \in Conn : OpenSeq(k)' = waitSeq'[k]
  BY <1>2 DEF OpenSeq
<1>7. \A p \in pending' : p.id # conn
  BY <1>2, <1>6 DEF WindowInv, OneRequestOpen, PacketsOf
<1>8. ASSUME NEW k \in Conn
      PROVE  /\ \A p \in pending' : p.id = k => p.seq = waitSeq'[k]
             /\ waitSeq'[k] # 0 => \E p \in pending' :
                   {q \in pending' : q.id = k /\ q.seq = waitSeq'[k]} = {p}
  <2>1. CASE k = conn
    BY <1>3, <1>7, <2>1
  <2>2. CASE k # conn
    <3>1. {q \in pending' : q.id = k /\ q.seq = waitSeq[k]} = PacketsOf(k, waitSeq[k])
      BY <1>2, <2>2 DEF PacketsOf
    <3> QED
      BY <1>2, <1>3, <1>6, <2>2, <3>1 DEF WindowInv, OneRequestOpen, PacketsOf
  <2> QED
    BY <2>1, <2>2
<1>9. OneRequestOpen'
  BY <1>6, <1>8 DEF OneRequestOpen, PacketsOf
<1> QED
  BY <1>1, <1>4, <1>5, <1>9 DEF WindowInv

\* An answer (SetBrPendingPacket) marks the packet of its request and no other.
LEMMA AnswerInv == WindowInv /\ SetBrPendingPacket => WindowInv'
<1> SUFFICES ASSUME WindowInv, SetBrPendingPacket PROVE WindowInv'
  OBVIOUS
<1>1. TypeOK'
  BY WindowNext DEF WindowInv, Next
<1>2. PICK r \in asked :
         /\ pending' = (pending \ PacketsOf(r[1], r[2])) \cup
                         {[p EXCEPT !.finded = TRUE] : p \in PacketsOf(r[1], r[2])}
         /\ UNCHANGED <<fields, alive, pc, conn>>
  BY DEF SetBrPendingPacket
<1> DEFINE Marked(p) == IF p.id = r[1] /\ p.seq = r[2] THEN [p EXCEPT !.finded = TRUE] ELSE p
<1>3. pending' = {Marked(p) : p \in pending}
  BY <1>2 DEF PacketsOf
<1>4. \A p \in pending : Marked(p).id = p.id /\ Marked(p).seq = p.seq
  BY DEF WindowInv, TypeOK, Packet
<1> HIDE DEF Marked
<1>5. RequestInWindow' /\ ThreadInv'
  BY <1>2 DEF WindowInv, RequestInWindow, ThreadInv, Leaving, Waiting, fields
<1>6. \A k \in Conn : OpenSeq(k)' = OpenSeq(k)
  BY <1>2 DEF OpenSeq, fields
<1>7. ASSUME NEW k \in Conn
      PROVE  /\ \A p \in pending' : p.id = k => p.seq = OpenSeq(k)
             /\ OpenSeq(k) # 0 => \E p \in pending' :
                   {q \in pending' : q.id = k /\ q.seq = OpenSeq(k)} = {p}
  <2>1. \A p \in pending' : p.id = k => p.seq = OpenSeq(k)
    BY <1>3, <1>4 DEF WindowInv, OneRequestOpen
  <2>2. ASSUME OpenSeq(k) # 0
        PROVE  \E p \in pending' :
                  {q \in pending' : q.id = k /\ q.seq = OpenSeq(k)} = {p}
    <3>1. PICK p \in pending : {q \in pending : q.id = k /\ q.seq = OpenSeq(k)} = {p}
      BY <2>2 DEF WindowInv, OneRequestOpen, PacketsOf
    <3>2. {q \in pending' : q.id = k /\ q.seq = OpenSeq(k)} = {Marked(p)}
      <4>1. Marked(p) \in {q \in pending' : q.id = k /\ q.seq = OpenSeq(k)}
        BY <1>3, <1>4, <3>1
      <4>2. ASSUME NEW q \in pending', q.id = k, q.seq = OpenSeq(k) PROVE q = Marked(p)
        <5>1. PICK o \in pending : q = Marked(o)
          BY <1>3
        <5>2. o \in {x \in pending : x.id = k /\ x.seq = OpenSeq(k)}
          BY <1>4, <4>2, <5>1
        <5> QED
          BY <3>1, <5>1, <5>2
      <4> QED
        BY <4>1, <4>2
    <3> QED
      BY <1>3, <3>2
  <2> QED
    BY <2>1, <2>2
<1>8. OneRequestOpen'
  BY <1>6, <1>7 DEF OneRequestOpen, PacketsOf
<1> QED
  BY <1>1, <1>5, <1>8 DEF WindowInv

\* Every step keeps the invariant.
LEMMA WindowInvNext == WindowInv /\ [Next]_vars => WindowInv'
<1> SUFFICES ASSUME WindowInv, [Next]_vars PROVE WindowInv'
  OBVIOUS
<1>1. TypeOK'
  BY WindowNext DEF WindowInv
<1>2. ASSUME NEW c \in Conn, Dequeue(c) PROVE WindowInv'
  BY <1>2, DequeueInv
<1>3. CASE SendAck \/ SendAckFails
  BY <1>3, SendAckInv
<1>4. CASE WaitAck \/ AckTriggered \/ AckInTime \/ AckTimesOut
  BY <1>4, WaitInv
<1>5. CASE Forget
  BY <1>5, ForgetInv
<1>6. CASE SetBrPendingPacket
  BY <1>6, AnswerInv
<1>7. CASE SendData
  <2>1. RequestInWindow' /\ ThreadInv'
    BY <1>7 DEF SendData, fields, WindowInv, RequestInWindow, ThreadInv, Leaving, Waiting
  <2>2. OneRequestOpen'
    BY <1>7 DEF SendData, fields, WindowInv, OneRequestOpen, OpenSeq, PacketsOf
  <2> QED
    BY <1>1, <2>1, <2>2 DEF WindowInv
<1>8. CASE UNCHANGED <<fields, pending, pc, conn>>
  <2>1. RequestInWindow' /\ ThreadInv'
    BY <1>8 DEF fields, WindowInv, RequestInWindow, ThreadInv, Leaving, Waiting
  <2>2. OneRequestOpen'
    BY <1>8 DEF fields, WindowInv, OneRequestOpen, OpenSeq, PacketsOf
  <2> QED
    BY <1>1, <2>1, <2>2 DEF WindowInv
<1>9. (\E c \in Conn : Disconnected(c)) \/ UNCHANGED vars => UNCHANGED <<fields, pending, pc, conn>>
  BY DEF Disconnected, vars
<1> QED
  BY <1>2, <1>3, <1>4, <1>5, <1>6, <1>7, <1>8, <1>9 DEF Next, SendStep

\* The invariant holds of every state of the send thread.
THEOREM WindowInvariant == Spec => []WindowInv
<1> QED
  BY WindowInvInit, WindowInvNext, PTL DEF Spec

\* A connection has at most one request open, and GetBrPendingPacket finds the
\* packet it waits for.
THEOREM OneRequest == Spec => []OneRequestOpen
<1>1. WindowInv => OneRequestOpen
  BY DEF WindowInv
<1> QED
  BY <1>1, WindowInvariant, PTL

\* No more than a window of messages follows a request that SendHandlerLoop has
\* not waited for.
THEOREM WindowKept == Spec => []WithinWindow
<1>1. WindowInv => WithinWindow
  BY DEF WindowInv, RequestInWindow, WithinWindow, Leaving
<1> QED
  BY <1>1, WindowInvariant, PTL
=============================================================================
