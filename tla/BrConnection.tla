---------------------------- MODULE BrConnection ----------------------------
(***************************************************************************)
(* The classic-Bluetooth connections of one device: br_connection.c and    *)
(* br_connection_manager.c.  The threads that share g_connection_list run  *)
(* interleaved, one action per critical section of g_connectionLock and    *)
(* one per unlocked access to a connection:                                *)
(*   - callers of ConnectDevice, DisconnectDevice, DisconnectDeviceNow;    *)
(*   - the looper "brRecv_looper", which runs BrConnMsgHandler;            *)
(*   - one read thread per connection, ConnBrRead;                         *)
(*   - the send thread, SendHandlerLoop.                                   *)
(* The accept thread and the peer are the environment: Accept, PeerClose   *)
(* and the frames a read thread gets.                                      *)
(*                                                                         *)
(* Routines that several threads run (ConnectDevice, PackRequest,          *)
(* BrDisconnect, Resume) are actions of a thread t; AfterPack, AfterExist  *)
(* and AfterDisconnect say where t returns to.                             *)
(***************************************************************************)
EXTENDS Integers, Sequences, FiniteSets

CONSTANTS
    Apps,           \* threads that call the connection interface
    Looper, Sender, \* the looper's thread and the send thread
    Request,        \* the connect requests that are made, each once
    Mac,            \* remote devices
    MaxConnId,      \* bound: connections ever created
    MaxConnCount,   \* g_brMaxConnCount
    MaxAccepts,     \* bound: connections accepted
    OptionSide,     \* brOption.sideType values the callers use
    MaxCalls,       \* bound: DisconnectDevice, DisconnectDeviceNow, PostBytes
    MaxFrames,      \* bound: frames the peers send
    PeerFrame,      \* the frames of MODULE_CONNECTION the peers send
    None            \* no thread, no mac

ConnId == 1..MaxConnId
ClientFd(c) == c                        \* the socket ids the driver hands out
ServerFd == (MaxConnId + 1)..(2 * MaxConnId)
Fd == 1..(2 * MaxConnId)
Reader(c) == <<"reader", c>>
Readers == {Reader(c) : c \in ConnId}
Thread == Apps \cup Readers \cup {Looper, Sender}

State == {"CONNECTING", "CONNECTED", "CLOSING", "CLOSED"}
Side == {"client", "server"}

ASSUME BoundsAssumption ==
    /\ MaxConnId \in Nat \ {0}
    /\ {MaxConnCount, MaxAccepts, MaxCalls, MaxFrames} \subseteq Nat
ASSUME RequestAssumption == IsFiniteSet(Request)
ASSUME FrameAssumption ==
    PeerFrame \subseteq [method : {"REQUEST", "RESPONSE"}, delta : Int, ref : Int]
ASSUME ThreadAssumption ==
    /\ Looper \notin Apps \cup Readers /\ Sender \notin Apps \cup Readers
    /\ Looper # Sender /\ None \notin Thread
    /\ Apps \cap Readers = {}
ASSUME OptionSideAssumption == OptionSide \subseteq {"any", "client", "server"}

\* Where the RequestInfo records are: in a connection's requestList or
\* pendingRequestList, in a list of callbacks thread t is about to make, in a
\* list of requests t is about to connect again, or the one t works on.
InRequests(c) == <<"requestList", c>>
InPending(c) == <<"pendingRequestList", c>>
ToNotify(t) == <<"notifyList", t>>
ToRetry(t) == <<"pendings", t>>
InCall(t) == <<"call", t>>
Place ==
    {InRequests(c) : c \in ConnId} \cup {InPending(c) : c \in ConnId}
        \cup {ToNotify(t) : t \in Thread} \cup {ToRetry(t) : t \in Thread}
        \cup {InCall(t) : t \in Thread}

VARIABLES
    live,           \* ids of the nodes of g_connection_list
    node,           \* the BrConnectionInfo of each id
    reqs,           \* the RequestInfo records at each place
    fresh,          \* requests not made yet
    answers,        \* callbacks made for each request
    known,          \* connections the callers were told of and not told are gone
    pc, loc,        \* each thread's position and locals
    brConnLock,     \* holder of g_brConnLock
    lockLost,       \* g_connectionLock was left locked by a return
    msgs,           \* the looper's messages that are due
    timers,         \* ADD_CONN_BR_CLOSING_TIMEOUT_MSG waiting, per connection
    sock,           \* the sockets of the driver
    outq,           \* frames waiting for the send thread, per connection
    nextId, calls, frames

table == <<live, node>>
requests == <<reqs, fresh, answers>>
threads == <<pc, loc>>
driver == <<sock, outq>>
bounds == <<nextId, calls, frames>>
vars == <<live, node, reqs, fresh, answers, known, pc, loc, brConnLock,
          lockLost, msgs, timers, sock, outq, nextId, calls, frames>>

\* Locals of a thread that has not set them; c is set before it is read.
NoLocals == [c |-> 1, fd |-> 0, mac |-> None, side |-> "any",
             delta |-> 0, ref |-> 0, state |-> "CLOSED", count |-> 0]

AtConn(x, c) == [x EXCEPT !.c = c]
AtFd(x, fd) == [x EXCEPT !.fd = fd]
AtMac(x, mac) == [x EXCEPT !.mac = mac]
AtSide(x, side) == [x EXCEPT !.side = side]
AtDelta(x, delta) == [x EXCEPT !.delta = delta]
AtRef(x, ref) == [x EXCEPT !.ref = ref]
AtState(x, state) == [x EXCEPT !.state = state]
AtCount(x, count) == [x EXCEPT !.count = count]

FreeNode == [side |-> "client", mac |-> None, fd |-> 0, state |-> "CLOSED",
             refCount |-> 0, objRef |-> 0]

WithFd(n, fd) == [n EXCEPT !.fd = fd]
WithState(n, state) == [n EXCEPT !.state = state]
WithRefCount(n, count) == [n EXCEPT !.refCount = count]
WithObjRef(n, count) == [n EXCEPT !.objRef = count]

Init ==
    /\ live = {}
    /\ node = [c \in ConnId |-> FreeNode]
    /\ reqs = [p \in Place |-> {}]
    /\ fresh = Request
    /\ answers = [r \in Request |-> 0]
    /\ known = {}
    /\ pc = [t \in Thread |-> "idle"]
    /\ loc = [t \in Thread |-> NoLocals]
    /\ brConnLock = None
    /\ lockLost = FALSE
    /\ msgs = <<>>
    /\ timers = [c \in ConnId |-> 0]
    /\ sock = [f \in Fd |-> "unused"]
    /\ outq = [c \in ConnId |-> 0]
    /\ nextId = 1 /\ calls = 0 /\ frames = 0

-----------------------------------------------------------------------------
(* Building blocks                                                         *)

\* pthread_mutex_lock(&g_connectionLock) succeeds.
CanLock == ~lockLost

GotoWith(t, l, locals) ==
    /\ pc' = [pc EXCEPT ![t] = l]
    /\ loc' = [loc EXCEPT ![t] = locals]
Goto(t, l) == GotoWith(t, l, IF l = "idle" THEN NoLocals ELSE loc[t])

\* The messages of BrConnLoopMsgType; fields a type does not use are unset.
NoFrame == [method |-> "REQUEST", delta |-> 0, ref |-> 0]
Message(type, c, fd, mac, frame) ==
    [type |-> type, c |-> c, fd |-> fd, mac |-> mac, frame |-> frame]
ClientConnectedMsg(c) == Message("CLIENT_CONNECTED", c, 0, None, NoFrame)
ServiceConnectedMsg(fd, mac) == Message("SERVICE_CONNECTED", 1, fd, mac, NoFrame)
DisconnectedMsg(fd) == Message("DISCONNECTED", 1, fd, None, NoFrame)
RecvMsg(c, frame) == Message("RECV", c, 0, None, frame)

Post(m) == msgs' = Append(msgs, m)

\* ListAdd inserts at the head, so a scan meets the newest connection first.
First(S) == {c \in S : \A d \in S : d <= c}

\* GetConnectionRef
Hold(c) == node' = [node EXCEPT ![c] = WithObjRef(node[c], node[c].objRef + 1)]

\* ReleaseConnectionRef and ReleaseConnectionRefByConnId: the last reference
\* takes the node out of the list and frees it with its requests.
Release(c) ==
    IF node[c].objRef <= 1
    THEN /\ live' = live \ {c}
         /\ node' = [node EXCEPT ![c] = FreeNode]
         /\ reqs' = [reqs EXCEPT ![InRequests(c)] = {}, ![InPending(c)] = {}]
    ELSE /\ node' = [node EXCEPT ![c] = WithObjRef(node[c], node[c].objRef - 1)]
         /\ UNCHANGED <<live, reqs>>

SetState(c, state) == node' = [node EXCEPT ![c] = WithState(node[c], state)]
SetBrConnStateByConnId(c, state) == IF c \in live THEN SetState(c, state) ELSE UNCHANGED node

Move(p, q) == reqs' = [reqs EXCEPT ![p] = {}, ![q] = @ \cup reqs[p]]
Drop(p) == reqs' = [reqs EXCEPT ![p] = {}]

\* OnConnectSuccessed or OnConnectFailed for every request at p.
Answer(p) ==
    answers' = [r \in Request |-> answers[r] + (IF r \in reqs[p] THEN 1 ELSE 0)]

-----------------------------------------------------------------------------
(* ConnectDevice                                                           *)

AfterExist(t) == IF brConnLock = t THEN "unlock" ELSE "resume"

AfterPack(t) ==
    IF brConnLock = t THEN "unlock"
    ELSE IF t \in Apps THEN "idle"
    ELSE IF t = Looper THEN "resume"
    ELSE "packs"

CallConnectDevice(t, r, mac, side) ==
    /\ pc[t] = "idle" /\ r \in fresh
    /\ fresh' = fresh \ {r}
    /\ reqs' = [reqs EXCEPT ![InCall(t)] = @ \cup {r}]
    /\ GotoWith(t, "lock", AtSide(AtMac(NoLocals, mac), side))
    /\ UNCHANGED <<table, answers, known, brConnLock, lockLost, msgs,
                   timers, driver, bounds>>


ConnectLock(t) ==
    /\ pc[t] = "lock" /\ brConnLock = None
    /\ brConnLock' = t
    /\ Goto(t, "lookup")
    /\ UNCHANGED <<table, requests, known, lockLost, msgs, timers, driver, bounds>>

IsTargetSideType(target, side) == target = "any" \/ target = side

\* GetBrConnStateByConnOption and the branches on its result.
ConnectLookup(t) ==
    LET found == {c \in live : /\ node[c].mac = loc[t].mac
                               /\ IsTargetSideType(loc[t].side, node[c].side)}
    IN  /\ pc[t] = "lookup" /\ CanLock
        /\ \/ found = {} /\ Goto(t, "count")
           \/ \E c \in First(found) :
                 GotoWith(t, CASE node[c].state = "CONNECTED" -> "exist"
                               [] node[c].state = "CONNECTING" -> "addRequest"
                               [] node[c].state = "CLOSING" -> "addPending"
                               [] OTHER -> "count",
                          AtConn(loc[t], c))
        /\ UNCHANGED <<table, requests, known, brConnLock, lockLost, msgs,
                       timers, driver, bounds>>


\* ConnectDeviceExist: the connection may have gone since it was looked up.
ConnectDeviceExist(t) ==
    LET c == loc[t].c
    IN  /\ pc[t] = "exist" /\ CanLock
        /\ \/ /\ c \in live
              /\ Hold(c)
              /\ Goto(t, "existInfo")
              /\ UNCHANGED reqs
           \/ /\ c \notin live
              /\ Drop(InCall(t))
              /\ Goto(t, AfterExist(t))
              /\ UNCHANGED node
        /\ UNCHANGED <<live, fresh, answers, known, brConnLock, lockLost,
                       msgs, timers, driver, bounds>>

ExistRelease(t) ==
    /\ pc[t] = "existInfo" /\ CanLock
    /\ Release(loc[t].c)
    /\ Goto(t, "existAnswer")
    /\ UNCHANGED <<fresh, answers, known, brConnLock, lockLost, msgs, timers,
                   driver, bounds>>

ExistAnswer(t) ==
    /\ pc[t] = "existAnswer"
    /\ Answer(InCall(t)) /\ Drop(InCall(t))
    /\ known' = known \cup {loc[t].c}
    /\ GotoWith(t, "pack", AtDelta(loc[t], 1))
    /\ UNCHANGED <<table, fresh, brConnLock, lockLost, msgs, timers,
                   driver, bounds>>

\* Mutant: the branch returns without unlocking g_brConnLock.
MutConnectingKeepsLock(t) ==
    LET c == loc[t].c
    IN  /\ pc[t] = "addRequest" /\ CanLock
        /\ IF c \in live THEN Move(InCall(t), InRequests(c)) ELSE Drop(InCall(t))
        /\ Goto(t, IF t \in Apps THEN "idle" ELSE "retry")
        /\ UNCHANGED <<table, fresh, answers, known, brConnLock, lockLost,
                       msgs, timers, driver, bounds>>

\* ConnectDeviceStateConnecting: AddRequestByConnId reports success also when
\* the connection has gone, and then nobody keeps the request.
ConnectDeviceStateConnecting(t) ==
    LET c == loc[t].c
    IN  /\ pc[t] = "addRequest" /\ CanLock
        /\ IF c \in live THEN Move(InCall(t), InRequests(c)) ELSE Drop(InCall(t))
        /\ Goto(t, "unlock")
        /\ UNCHANGED <<table, fresh, answers, known, brConnLock, lockLost,
                       msgs, timers, driver, bounds>>

ConnectDeviceStateClosing(t) ==
    LET c == loc[t].c
    IN  /\ pc[t] = "addPending" /\ CanLock
        /\ IF c \in live THEN Move(InCall(t), InPending(c)) ELSE Drop(InCall(t))
        /\ Goto(t, "unlock")
        /\ UNCHANGED <<table, fresh, answers, known, brConnLock, lockLost,
                       msgs, timers, driver, bounds>>

\* GetBrConnectionCount against g_brMaxConnCount.
ConnectCount(t) ==
    /\ pc[t] = "count" /\ CanLock
    /\ \/ /\ Cardinality(live) > MaxConnCount
          /\ Answer(InCall(t)) /\ Drop(InCall(t))
          /\ Goto(t, "unlock")
       \/ /\ Cardinality(live) <= MaxConnCount
          /\ Goto(t, "create")
          /\ UNCHANGED <<reqs, answers>>
    /\ UNCHANGED <<table, fresh, known, brConnLock, lockLost, msgs, timers,
                   driver, bounds>>

\* CreateBrconnectionNode and AddConnectionList.
NewNode(side, mac, fd, state) ==
    [side |-> side, mac |-> mac, fd |-> fd, state |-> state,
     refCount |-> 1, objRef |-> 1]

AddConnection(n) ==
    /\ nextId \in ConnId
    /\ live' = live \cup {nextId}
    /\ node' = [node EXCEPT ![nextId] = n]
    /\ nextId' = nextId + 1

\* The socketFd of a client stays 0 (SoftBusCalloc) until it is connected.
ConnectDeviceFirstTime(t) ==
    /\ pc[t] = "create" /\ CanLock
    /\ AddConnection(NewNode("client", loc[t].mac, 0, "CONNECTING"))
    /\ Move(InCall(t), InRequests(nextId))
    /\ Post(ClientConnectedMsg(nextId))
    /\ Goto(t, "unlock")
    /\ UNCHANGED <<fresh, answers, known, brConnLock, lockLost, timers, driver,
                   calls, frames>>

ConnectUnlock(t) ==
    /\ pc[t] = "unlock"
    /\ brConnLock' = None
    /\ Goto(t, IF t \in Apps THEN "idle" ELSE "retry")
    /\ UNCHANGED <<table, requests, known, lockLost, msgs, timers, driver, bounds>>

-----------------------------------------------------------------------------
(* PackRequest: count a reference and tell the peer.                       *)

\* Mutant: PackRequest does not arm the closing timer.
MutSetRefCountNoTimer(t) ==
    LET c == loc[t].c
        count == node[c].refCount + loc[t].delta
        state == IF node[c].state = "CONNECTED" /\ count <= 0
                 THEN "CLOSING" ELSE node[c].state
    IN  /\ pc[t] = "pack" /\ CanLock
        /\ \/ /\ c \in live
              /\ node' = [node EXCEPT ![c] = WithState(WithRefCount(node[c], count), state)]
              /\ Goto(t, IF state \in {"CONNECTED", "CLOSING"} THEN "post" ELSE AfterPack(t))
           \/ /\ c \notin live
              /\ Goto(t, AfterPack(t))
              /\ UNCHANGED node
        /\ UNCHANGED <<live, requests, known, brConnLock, lockLost, msgs, timers,
                       driver, bounds>>

\* SetRefCountByConnId, and the closing timer of PostClosingTimeoutEvent.
SetRefCount(t) ==
    LET c == loc[t].c
        count == node[c].refCount + loc[t].delta
        state == IF node[c].state = "CONNECTED" /\ count <= 0
                 THEN "CLOSING" ELSE node[c].state
    IN  /\ pc[t] = "pack" /\ CanLock
        /\ \/ /\ c \in live
              /\ node' = [node EXCEPT ![c] = WithState(WithRefCount(node[c], count), state)]
              /\ timers' = IF state = "CLOSING"
                           THEN [timers EXCEPT ![c] = @ + 1] ELSE timers
              /\ Goto(t, IF state \in {"CONNECTED", "CLOSING"} THEN "post" ELSE AfterPack(t))
           \/ /\ c \notin live
              /\ Goto(t, AfterPack(t))
              /\ UNCHANGED <<node, timers>>
        /\ UNCHANGED <<live, requests, known, brConnLock, lockLost, msgs,
                       driver, bounds>>

\* IsBrDeviceReady
IsBrDeviceReady(c) == c \in live /\ node[c].state = "CONNECTED"

\* PostBytesInner: only a connection in state CONNECTED gets the frame queued.
PostBytesInner(c) ==
    outq' = IF IsBrDeviceReady(c) THEN [outq EXCEPT ![c] = @ + 1] ELSE outq

PostRequest(t) ==
    /\ pc[t] = "post" /\ CanLock
    /\ PostBytesInner(loc[t].c)
    /\ Goto(t, AfterPack(t))
    /\ UNCHANGED <<table, requests, known, brConnLock, lockLost, msgs, timers,
                   sock, bounds>>

-----------------------------------------------------------------------------
(* DisconnectDevice, DisconnectDeviceNow, PostBytes                        *)

DisconnectDevice(t, c) ==
    /\ pc[t] = "idle" /\ calls < MaxCalls /\ CanLock /\ c \in known \cap live
    /\ calls' = calls + 1
    /\ GotoWith(t, "pack", AtDelta(AtConn(NoLocals, c), -1))
    /\ UNCHANGED <<table, requests, known, brConnLock, lockLost, msgs, timers,
                   driver, nextId, frames>>

\* BrClosingByConnOption
DisconnectDeviceNow(t, mac) ==
    /\ pc[t] = "idle" /\ calls < MaxCalls /\ CanLock
    /\ calls' = calls + 1
    /\ \E c \in First({d \in live : node[d].mac = mac}) :
          /\ SetState(c, "CLOSING")
          /\ GotoWith(t, "postDisconnect", AtMac(AtFd(AtConn(NoLocals, c), node[c].fd), mac))
    /\ UNCHANGED <<live, requests, known, brConnLock, lockLost, msgs, timers,
                   driver, nextId, frames>>

\* Mutant: the DISCONNECTED message is not posted.
MutDisconnectNotPosted(t) ==
    /\ pc[t] = "postDisconnect"
    /\ Goto(t, "idle")
    /\ UNCHANGED <<table, requests, known, brConnLock, lockLost, msgs, timers, driver,
                   bounds>>

\* ConnBrOnEvent, after waiting for the send queue.
PostDisconnected(t) ==
    /\ pc[t] = "postDisconnect"
    /\ Post(DisconnectedMsg(loc[t].fd))
    /\ Goto(t, "idle")
    /\ UNCHANGED <<table, requests, known, brConnLock, lockLost, timers, driver,
                   bounds>>

PostBytes(t, c) ==
    /\ pc[t] = "idle" /\ calls < MaxCalls /\ CanLock /\ c \in known /\ IsBrDeviceReady(c)
    /\ calls' = calls + 1
    /\ PostBytesInner(c)
    /\ UNCHANGED <<table, requests, known, threads, brConnLock, lockLost, msgs,
                   timers, sock, nextId, frames>>

-----------------------------------------------------------------------------
(* ConnBrRead: the read thread of connection c.  A client's thread first   *)
(* connects, ClientOnBrConnect; a server's starts in the read loop.        *)

\* GetConnectionRef in ClientOnBrConnectDevice.
ClientStart(c) ==
    LET t == Reader(c)
    IN  /\ pc[t] = "start" /\ CanLock
        /\ IF c \in live
           THEN Hold(c) /\ Goto(t, "connect")
           ELSE Goto(t, "fail") /\ UNCHANGED node
        /\ UNCHANGED <<live, requests, known, brConnLock, lockLost, msgs, timers,
                       driver, bounds>>

\* SppSocketDriver.Connect; the new socket is stored without the lock.
ClientConnected(c) ==
    LET t == Reader(c)
    IN  /\ pc[t] = "connect"
        /\ sock' = [sock EXCEPT ![ClientFd(c)] = "open"]
        /\ node' = [node EXCEPT ![c] = WithFd(node[c], ClientFd(c))]
        /\ GotoWith(t, "checkState", AtFd(loc[t], ClientFd(c)))
        /\ UNCHANGED <<live, requests, known, brConnLock, lockLost, msgs, timers,
                       outq, bounds>>

ClientConnectFails(c) ==
    LET t == Reader(c)
    IN  /\ pc[t] = "connect" /\ CanLock
        /\ Release(c)
        /\ Goto(t, "fail")
        /\ UNCHANGED <<fresh, answers, known, brConnLock, lockLost, msgs, timers,
                       driver, bounds>>

\* The state is read and, a moment later, overwritten; both without the lock.
ClientCheckState(c) ==
    LET t == Reader(c)
    IN  /\ pc[t] = "checkState"
        /\ \/ /\ node[c].state \in {"CLOSED", "CLOSING"} /\ CanLock
              /\ sock' = [sock EXCEPT ![loc[t].fd] = "closed"]
              /\ Release(c)
              /\ Goto(t, "fail")
           \/ /\ node[c].state \notin {"CLOSED", "CLOSING"}
              /\ Goto(t, "setConnected")
              /\ UNCHANGED <<live, node, reqs, sock>>
        /\ UNCHANGED <<fresh, answers, known, brConnLock, lockLost, msgs, timers,
                       outq, bounds>>

ClientSetConnected(c) ==
    LET t == Reader(c)
    IN  /\ pc[t] = "setConnected"
        /\ SetState(c, "CONNECTED")
        /\ Goto(t, "connectRelease")
        /\ UNCHANGED <<live, requests, known, brConnLock, lockLost, msgs, timers,
                       driver, bounds>>

ClientConnectRelease(c) ==
    LET t == Reader(c)
    IN  /\ pc[t] = "connectRelease" /\ CanLock
        /\ Release(c)
        /\ Goto(t, "takeOk")
        /\ UNCHANGED <<fresh, answers, known, brConnLock, lockLost, msgs, timers,
                       driver, bounds>>

\* ClientNoticeResultBrConnect, run by the read thread, and by the looper when
\* the read thread cannot be started.
NoticeClosing(t) ==
    LET c == loc[t].c
    IN  /\ pc[t] = "fail" /\ CanLock
        /\ SetBrConnStateByConnId(c, "CLOSING")
        /\ Goto(t, "takeFail")
        /\ UNCHANGED <<live, requests, known, brConnLock, lockLost, msgs, timers,
                       driver, bounds>>

\* Mutant: the requests are copied to the notify list and stay with the node.
MutNoticeKeepsRequests(t) ==
    LET c == loc[t].c
        n == Cardinality(reqs[InRequests(c)])
    IN  /\ pc[t] \in {"takeOk", "takeFail"} /\ CanLock
        /\ reqs' = [reqs EXCEPT ![ToNotify(t)] = @ \cup reqs[InRequests(c)]]
        /\ \/ /\ pc[t] = "takeOk"
              /\ GotoWith(t, "packs", AtCount(loc[t], n))
           \/ /\ pc[t] = "takeFail"
              /\ Goto(t, "noticeFail")
        /\ UNCHANGED <<table, fresh, answers, known, brConnLock, lockLost, msgs,
                       timers, driver, bounds>>

\* GetBrRequestListByConnId; the first reference is already counted, so
\* DeviceConnectPackRequest adds one for each request but the first.
NoticeTake(t) ==
    LET c == loc[t].c
        n == Cardinality(reqs[InRequests(c)])
    IN  /\ pc[t] \in {"takeOk", "takeFail"} /\ CanLock
        /\ Move(InRequests(c), ToNotify(t))
        /\ \/ /\ pc[t] = "takeOk"
              /\ GotoWith(t, "packs", AtCount(loc[t], n))
           \/ /\ pc[t] = "takeFail"
              /\ Goto(t, "noticeFail")
        /\ UNCHANGED <<table, fresh, answers, known, brConnLock, lockLost, msgs,
                       timers, driver, bounds>>

DeviceConnectPackRequest(t) ==
    /\ pc[t] = "packs"
    /\ IF loc[t].count > 1
       THEN GotoWith(t, "pack", AtDelta(AtCount(loc[t], loc[t].count - 1), 1))
       ELSE Goto(t, "noticeOk")
    /\ UNCHANGED <<table, requests, known, brConnLock, lockLost, msgs, timers,
                   driver, bounds>>

NoticeAnswer(t) ==
    /\ pc[t] \in {"noticeOk", "noticeFail"}
    /\ Answer(ToNotify(t)) /\ Drop(ToNotify(t))
    /\ \/ /\ pc[t] = "noticeOk"
          /\ known' = IF reqs[ToNotify(t)] # {} THEN known \cup {loc[t].c} ELSE known
          /\ Goto(t, "read")
       \/ /\ pc[t] = "noticeFail"
          /\ Goto(t, "failRelease")
          /\ UNCHANGED known
    /\ UNCHANGED <<table, fresh, brConnLock, lockLost, msgs, timers,
                   driver, bounds>>

\* ReleaseConnectionRefByConnId at the end of a failed ClientOnBrConnect.
NoticeRelease(t) ==
    LET c == loc[t].c
    IN  /\ pc[t] = "failRelease" /\ CanLock
        /\ IF c \in live THEN Release(c) ELSE UNCHANGED <<live, node, reqs>>
        /\ Goto(t, IF t = Looper THEN "idle" ELSE "done")
        /\ UNCHANGED <<fresh, answers, known, brConnLock, lockLost, msgs, timers,
                       driver, bounds>>

\* BrTransReadOneFrame holds the connection while it waits in Read.
ReadBegin(c) ==
    LET t == Reader(c)
    IN  /\ pc[t] = "read" /\ CanLock
        /\ IF c \in live
           THEN Hold(c) /\ Goto(t, "reading")
           ELSE Goto(t, "readClosed") /\ UNCHANGED node
        /\ UNCHANGED <<live, requests, known, brConnLock, lockLost, msgs, timers,
                       driver, bounds>>

ReadFrame(c, f) ==
    LET t == Reader(c)
    IN  /\ pc[t] = "reading" /\ CanLock /\ frames < MaxFrames
        /\ sock[loc[t].fd] = "open"
        /\ frames' = frames + 1
        /\ Release(c)
        /\ Post(RecvMsg(c, f))
        /\ Goto(t, "read")
        /\ UNCHANGED <<fresh, answers, known, brConnLock, lockLost, timers,
                       driver, nextId, calls>>

\* Mutant: BrTransReadOneFrame returns its error without ReleaseConnectionRef.
MutReadFailsKeepsRef(c) ==
    LET t == Reader(c)
    IN  /\ pc[t] = "reading" /\ CanLock
        /\ sock[loc[t].fd] = "closed"
        /\ Goto(t, "readClosed")
        /\ UNCHANGED <<table, requests, known, brConnLock, lockLost, msgs, timers,
                       driver, bounds>>

ReadFails(c) ==
    LET t == Reader(c)
    IN  /\ pc[t] = "reading" /\ CanLock
        /\ sock[loc[t].fd] = "closed"
        /\ Release(c)
        /\ Goto(t, "readClosed")
        /\ UNCHANGED <<fresh, answers, known, brConnLock, lockLost, msgs, timers,
                       driver, bounds>>

\* Mutant: the read thread ends without BrDisconnect.
MutReaderJustEnds(c) ==
    LET t == Reader(c)
    IN  /\ pc[t] = "readClosed"
        /\ sock' = [sock EXCEPT ![loc[t].fd] = "closed"]
        /\ Goto(t, "done")
        /\ UNCHANGED <<table, requests, known, brConnLock, lockLost, msgs, timers,
                       outq, bounds>>

ReaderDisconnects(c) ==
    LET t == Reader(c)
    IN  /\ pc[t] = "readClosed"
        /\ sock' = [sock EXCEPT ![loc[t].fd] = "closed"]
        /\ Goto(t, "disconnect")
        /\ UNCHANGED <<table, requests, known, brConnLock, lockLost, msgs, timers,
                       outq, bounds>>

-----------------------------------------------------------------------------
(* BrDisconnect(socketFd), run by the looper and by read threads.          *)

AfterDisconnect(t) == IF t = Looper THEN "idle" ELSE "done"

\* SetBrConnStateBySocket
DisconnectSetState(t) ==
    LET found == {c \in live : node[c].fd = loc[t].fd}
    IN  /\ pc[t] = "disconnect" /\ CanLock
        /\ \/ /\ found = {}
              /\ Goto(t, AfterDisconnect(t))
              /\ UNCHANGED node
           \/ \E c \in First(found) :
                 /\ SetState(c, "CLOSED")
                 /\ GotoWith(t, "takeRequests", AtState(AtConn(loc[t], c), node[c].state))
        /\ UNCHANGED <<live, requests, known, brConnLock, lockLost, msgs, timers,
                       driver, bounds>>

\* GetBrRequestListByConnId
DisconnectTakeRequests(t) ==
    LET c == loc[t].c
    IN  /\ pc[t] = "takeRequests" /\ CanLock
        /\ Move(InRequests(c), ToNotify(t))
        /\ GotoWith(t, "takePending", AtSide(AtMac(loc[t], node[c].mac), "client"))
        /\ UNCHANGED <<table, fresh, answers, known, brConnLock, lockLost, msgs,
                       timers, driver, bounds>>

\* GetAndRemovePendingRequestByConnId returns with g_connectionLock held when
\* the connection is gone.  The requests taken from a connection that already
\* was CLOSED are not looked at again.
DisconnectTakePending(t) ==
    LET c == loc[t].c
    IN  /\ pc[t] = "takePending" /\ CanLock
        /\ lockLost' = (c \notin live)
        /\ \/ /\ loc[t].state # "CLOSED"
              /\ Move(InPending(c), ToRetry(t))
              /\ Goto(t, "notifyDisconnect")
           \/ /\ loc[t].state = "CLOSED"
              /\ reqs' = [reqs EXCEPT ![InPending(c)] = {}, ![ToNotify(t)] = {},
                                      ![ToRetry(t)] = @ \cup reqs[InPending(c)]]
              /\ Goto(t, "retry")
        /\ UNCHANGED <<table, fresh, answers, known, brConnLock, msgs, timers,
                       driver, bounds>>

NotifyDisconnect(t) ==
    /\ pc[t] = "notifyDisconnect"
    /\ Answer(ToNotify(t)) /\ Drop(ToNotify(t))
    /\ known' = known \ {loc[t].c}
    /\ Goto(t, "disconnectRelease")
    /\ UNCHANGED <<table, fresh, brConnLock, lockLost, msgs, timers, driver, bounds>>

DisconnectRelease(t) ==
    LET c == loc[t].c
    IN  /\ pc[t] = "disconnectRelease" /\ CanLock
        /\ IF c \in live THEN Release(c) ELSE UNCHANGED <<live, node, reqs>>
        /\ Goto(t, "retry")
        /\ UNCHANGED <<fresh, answers, known, brConnLock, lockLost, msgs, timers,
                       driver, bounds>>

\* ConnConnectDevice for every request that waited for the connection to close.
DisconnectRetry(t) ==
    /\ pc[t] = "retry"
    /\ \/ /\ reqs[ToRetry(t)] = {}
          /\ Goto(t, AfterDisconnect(t))
          /\ UNCHANGED reqs
       \/ \E r \in reqs[ToRetry(t)] :
            /\ reqs' = [reqs EXCEPT ![ToRetry(t)] = @ \ {r}, ![InCall(t)] = @ \cup {r}]
            /\ Goto(t, "lock")
    /\ UNCHANGED <<table, fresh, answers, known, brConnLock, lockLost, msgs,
                   timers, driver, bounds>>

-----------------------------------------------------------------------------
(* BrConnMsgHandler on the looper's thread                                 *)

Due(type) == pc[Looper] = "idle" /\ msgs # <<>> /\ Head(msgs).type = type

\* BrConnectedEventHandle(true, ..): start the read thread, or give up.
HandleClientConnected ==
    LET c == Head(msgs).c
    IN  /\ Due("CLIENT_CONNECTED")
        /\ msgs' = Tail(msgs)
        /\ \/ GotoWith(Reader(c), "start", AtConn(NoLocals, c))
           \/ GotoWith(Looper, "fail", AtConn(NoLocals, c))
        /\ UNCHANGED <<table, requests, known, brConnLock, lockLost, timers,
                       driver, bounds>>

\* BrConnectedEventHandle(false, ..) and ServerOnBrConnect: the read thread
\* starts, or it cannot and the connection is given up, or the remote device
\* is unknown and the socket is closed at once.
HandleServiceConnected ==
    LET f == Head(msgs).fd
    IN  /\ Due("SERVICE_CONNECTED") /\ CanLock
        /\ \/ /\ AddConnection(NewNode("server", Head(msgs).mac, f, "CONNECTED"))
              /\ known' = known \cup {nextId}
              /\ \/ /\ GotoWith(Reader(nextId), "read",
                                AtFd(AtConn(NoLocals, nextId), f))
                    /\ msgs' = Tail(msgs)
                 \/ /\ msgs' = Append(Tail(msgs), DisconnectedMsg(f))
                    /\ UNCHANGED threads
              /\ UNCHANGED sock
           \/ /\ sock' = [sock EXCEPT ![f] = "closed"]
              /\ msgs' = Tail(msgs)
              /\ UNCHANGED <<live, node, known, nextId, pc, loc>>
        /\ UNCHANGED <<requests, brConnLock, lockLost, timers, outq, calls, frames>>

HandleDisconnected ==
    LET f == Head(msgs).fd
    IN  /\ Due("DISCONNECTED")
        /\ msgs' = Tail(msgs)
        /\ sock' = IF f \in Fd THEN [sock EXCEPT ![f] = "closed"] ELSE sock
        /\ GotoWith(Looper, "disconnect", AtFd(NoLocals, f))
        /\ UNCHANGED <<table, requests, known, brConnLock, lockLost, timers, outq,
                       bounds>>

\* METHOD_NOTIFY_RESPONSE: SetBrConnStateByConnId, whatever the state was.
HandleResponse ==
    LET c == Head(msgs).c
    IN  /\ Due("RECV") /\ Head(msgs).frame.method = "RESPONSE" /\ CanLock
        /\ msgs' = Tail(msgs)
        /\ SetBrConnStateByConnId(c, "CONNECTED")
        /\ UNCHANGED <<live, requests, known, threads, brConnLock, lockLost,
                       timers, driver, bounds>>

\* METHOD_NOTIFY_REQUEST: OnPackResponse.  The reference count is updated
\* without the lock, so reading and writing it are two steps.
HandleRequest ==
    LET c == Head(msgs).c
        frame == Head(msgs).frame
    IN  /\ Due("RECV") /\ frame.method = "REQUEST" /\ CanLock
        /\ msgs' = Tail(msgs)
        /\ IF c \in live
           THEN /\ Hold(c)
                /\ GotoWith(Looper, "addDelta",
                            AtRef(AtDelta(AtConn(NoLocals, c), frame.delta), frame.ref))
           ELSE UNCHANGED <<node, pc, loc>>
        /\ UNCHANGED <<live, requests, known, brConnLock, lockLost, timers, driver,
                       bounds>>

RequestReadCount ==
    LET count == node[loc[Looper].c].refCount + loc[Looper].delta
    IN  /\ pc[Looper] = "addDelta"
        /\ GotoWith(Looper, "setCount", AtCount(loc[Looper], count))
        /\ UNCHANGED <<table, requests, known, brConnLock, lockLost, msgs, timers,
                       driver, bounds>>

RequestWriteCount ==
    LET c == loc[Looper].c
    IN  /\ pc[Looper] = "setCount"
        /\ node' = [node EXCEPT ![c] = WithRefCount(node[c], loc[Looper].count)]
        /\ GotoWith(Looper, "requestRelease", AtFd(loc[Looper], node[c].fd))
        /\ UNCHANGED <<live, requests, known, brConnLock, lockLost, msgs, timers,
                       driver, bounds>>

RequestRelease ==
    /\ pc[Looper] = "requestRelease" /\ CanLock
    /\ Release(loc[Looper].c)
    /\ Goto(Looper, IF loc[Looper].ref > 0 THEN "resumeConnection"
                    ELSE IF loc[Looper].count <= 0 THEN "closing" ELSE "respond")
    /\ UNCHANGED <<fresh, answers, known, brConnLock, lockLost, msgs, timers, driver,
                   bounds>>

RequestClosing ==
    LET c == loc[Looper].c
    IN  /\ pc[Looper] = "closing" /\ CanLock
        /\ SetBrConnStateByConnId(c, "CLOSING")
        /\ Post(DisconnectedMsg(loc[Looper].fd))
        /\ Goto(Looper, "idle")
        /\ UNCHANGED <<live, requests, known, brConnLock, lockLost, timers,
                       driver, bounds>>

RequestRespond ==
    /\ pc[Looper] = "respond" /\ CanLock
    /\ PostBytesInner(loc[Looper].c)
    /\ Goto(Looper, "idle")
    /\ UNCHANGED <<table, requests, known, brConnLock, lockLost, msgs, timers,
                   sock, bounds>>

-----------------------------------------------------------------------------
(* Resume: a peer that still counts references, or a close that timed out. *)

\* Mutant: a timeout message that was already handled is handled again.
MutTimeoutAgain(c) ==
    /\ pc[Looper] = "idle"
    /\ timers' = [timers EXCEPT ![c] = @ - 1]
    /\ GotoWith(Looper, "resumeConnection", AtConn(NoLocals, c))
    /\ UNCHANGED <<table, requests, known, brConnLock, lockLost, msgs, driver,
                   bounds>>

ClosingTimeout(c) ==
    /\ pc[Looper] = "idle" /\ timers[c] > 0
    /\ timers' = [timers EXCEPT ![c] = @ - 1]
    /\ GotoWith(Looper, "resumeConnection", AtConn(NoLocals, c))
    /\ UNCHANGED <<table, requests, known, brConnLock, lockLost, msgs, driver,
                   bounds>>

\* ResumeConnection
ResumeConnection ==
    LET c == loc[Looper].c
    IN  /\ pc[Looper] = "resumeConnection" /\ CanLock
        /\ \/ /\ c \in live
              /\ SetState(c, "CONNECTED")
              /\ Move(InPending(c), ToRetry(Looper))
              /\ Goto(Looper, "resume")
           \/ /\ c \notin live
              /\ Goto(Looper, "idle")
              /\ UNCHANGED <<node, reqs>>
        /\ UNCHANGED <<live, fresh, answers, known, brConnLock, lockLost, msgs,
                       timers, driver, bounds>>

\* ConnectDeviceExist for every request that was pending.
ResumeNext ==
    /\ pc[Looper] = "resume"
    /\ \/ /\ reqs[ToRetry(Looper)] = {}
          /\ Goto(Looper, "idle")
          /\ UNCHANGED reqs
       \/ \E r \in reqs[ToRetry(Looper)] :
            /\ reqs' = [reqs EXCEPT ![ToRetry(Looper)] = @ \ {r},
                                    ![InCall(Looper)] = @ \cup {r}]
            /\ Goto(Looper, "exist")
    /\ UNCHANGED <<table, fresh, answers, known, brConnLock, lockLost, msgs,
                   timers, driver, bounds>>

-----------------------------------------------------------------------------
(* SendHandlerLoop holds the connection while it writes a frame.           *)

SendBegin(c) ==
    /\ pc[Sender] = "idle" /\ outq[c] > 0 /\ CanLock
    /\ outq' = [outq EXCEPT ![c] = @ - 1]
    /\ IF c \in live
       THEN Hold(c) /\ GotoWith(Sender, "sending", AtConn(NoLocals, c))
       ELSE UNCHANGED <<node, pc, loc>>
    /\ UNCHANGED <<live, requests, known, brConnLock, lockLost, msgs, timers,
                   sock, bounds>>

SendEnd ==
    /\ pc[Sender] = "sending" /\ CanLock
    /\ Release(loc[Sender].c)
    /\ Goto(Sender, "idle")
    /\ UNCHANGED <<fresh, answers, known, brConnLock, lockLost, msgs, timers,
                   driver, bounds>>

-----------------------------------------------------------------------------
(* The environment                                                         *)

\* ConnBrAccept hands a new socket to the looper.
Accept(mac) ==
    LET unused == {f \in ServerFd : sock[f] = "unused"}
    IN  /\ Cardinality(live) <= MaxConnCount /\ CanLock
        /\ Cardinality(ServerFd \ unused) < MaxAccepts
        /\ \E f \in unused :
              /\ \A g \in unused : f <= g
              /\ sock' = [sock EXCEPT ![f] = "open"]
              /\ Post(ServiceConnectedMsg(f, mac))
        /\ UNCHANGED <<table, requests, known, threads, brConnLock, lockLost, timers,
                       outq, bounds>>

PeerClose(f) ==
    /\ sock[f] = "open"
    /\ sock' = [sock EXCEPT ![f] = "closed"]
    /\ UNCHANGED <<table, requests, known, threads, brConnLock, lockLost, msgs,
                   timers, outq, bounds>>

-----------------------------------------------------------------------------
ConnectStep(t) ==
    \/ ConnectLock(t) \/ ConnectLookup(t) \/ ConnectDeviceExist(t) \/ ExistRelease(t)
    \/ ExistAnswer(t) \/ ConnectDeviceStateConnecting(t) \/ ConnectDeviceStateClosing(t)
    \/ ConnectCount(t) \/ ConnectDeviceFirstTime(t) \/ ConnectUnlock(t)
    \/ SetRefCount(t) \/ PostRequest(t)

DisconnectStep(t) ==
    \/ DisconnectSetState(t) \/ DisconnectTakeRequests(t) \/ DisconnectTakePending(t)
    \/ NotifyDisconnect(t) \/ DisconnectRelease(t) \/ DisconnectRetry(t)

NoticeStep(t) ==
    \/ NoticeClosing(t) \/ NoticeTake(t) \/ DeviceConnectPackRequest(t)
    \/ NoticeAnswer(t) \/ NoticeRelease(t)

ReaderStep(c) ==
    \/ ClientStart(c) \/ ClientConnected(c) \/ ClientConnectFails(c)
    \/ ClientCheckState(c) \/ ClientSetConnected(c) \/ ClientConnectRelease(c)
    \/ NoticeStep(Reader(c))
    \/ ReadBegin(c) \/ ReadFails(c) \/ ReaderDisconnects(c)
    \/ DisconnectStep(Reader(c)) \/ ConnectStep(Reader(c))

LooperStep ==
    \/ HandleClientConnected \/ HandleServiceConnected \/ HandleDisconnected
    \/ HandleResponse \/ HandleRequest \/ RequestReadCount \/ RequestWriteCount
    \/ RequestRelease \/ RequestClosing \/ RequestRespond
    \/ ResumeConnection \/ ResumeNext
    \/ NoticeStep(Looper) \/ DisconnectStep(Looper) \/ ConnectStep(Looper)
    \/ \E c \in ConnId : ClosingTimeout(c)

AppStep(t) == ConnectStep(t) \/ PostDisconnected(t)

AppCall(t) ==
    \/ \E r \in Request, m \in Mac, s \in OptionSide : CallConnectDevice(t, r, m, s)
    \/ \E c \in ConnId : DisconnectDevice(t, c) \/ PostBytes(t, c)
    \/ \E m \in Mac : DisconnectDeviceNow(t, m)

SenderStep == SendEnd \/ \E c \in ConnId : SendBegin(c)

Environment ==
    \/ \E m \in Mac : Accept(m)
    \/ \E f \in Fd : PeerClose(f)
    \/ \E c \in ConnId, f \in PeerFrame : ReadFrame(c, f)

Next ==
    \/ \E t \in Apps : AppCall(t) \/ AppStep(t)
    \/ \E c \in ConnId : ReaderStep(c)
    \/ LooperStep \/ SenderStep \/ Environment

Spec == Init /\ [][Next]_vars

-----------------------------------------------------------------------------
Label ==
    {"idle", "done",
     "lock", "lookup", "count", "create", "addRequest", "addPending", "exist",
     "existInfo", "existAnswer", "unlock", "pack", "post", "postDisconnect",
     "start", "connect", "checkState", "setConnected", "connectRelease",
     "fail", "takeOk", "takeFail", "packs", "noticeOk", "noticeFail", "failRelease",
     "read", "reading", "readClosed",
     "disconnect", "takeRequests", "takePending", "notifyDisconnect",
     "disconnectRelease", "retry",
     "addDelta", "setCount", "requestRelease", "closing", "respond",
     "resumeConnection", "resume", "sending"}

Node == [side : Side, mac : Mac \cup {None}, fd : Fd \cup {0}, state : State,
         refCount : Int, objRef : Int]
Locals == [c : ConnId, fd : Fd \cup {0}, mac : Mac \cup {None},
           side : {"any", "client", "server"}, delta : Int, ref : Int, state : State,
           count : Int]
Frame == [method : {"REQUEST", "RESPONSE"}, delta : Int, ref : Int]
Msg == [type : {"CLIENT_CONNECTED", "SERVICE_CONNECTED", "DISCONNECTED", "RECV"},
        c : ConnId, fd : Fd \cup {0}, mac : Mac \cup {None}, frame : Frame]

\* Every variable keeps to its type; in particular a thread's locals always
\* name a connection and a message in the looper's queue is well formed.
TypeOK ==
    /\ live \in SUBSET ConnId
    /\ node \in [ConnId -> Node]
    /\ reqs \in [Place -> SUBSET Request]
    /\ fresh \in SUBSET Request
    /\ answers \in [Request -> Nat]
    /\ known \in SUBSET ConnId
    /\ pc \in [Thread -> Label]
    /\ loc \in [Thread -> Locals]
    /\ brConnLock \in Thread \cup {None}
    /\ lockLost \in BOOLEAN
    /\ msgs \in Seq(Msg)
    /\ timers \in [ConnId -> Nat]
    /\ sock \in [Fd -> {"unused", "open", "closed"}]
    /\ outq \in [ConnId -> Nat]
    /\ nextId \in 1..(MaxConnId + 1) /\ calls \in Nat /\ frames \in Nat

-----------------------------------------------------------------------------
(* Properties                                                              *)

\* The caller of ConnectDevice hears of its request at most once, however the
\* request travels between the lists of connections that open, fail, close and
\* resume: ClientNoticeResultBrConnect, NotifyDisconnect, ConnectDeviceExist and
\* the count check of ConnectDevice never both answer the same RequestInfo.
AnsweredAtMostOnce == \A r \in Request : answers[r] <= 1

InList(r) == \E p \in Place : r \in reqs[p]

\* Why the caller hears at most once: a RequestInfo is in one list at a time, and
\* a request that was answered is in none and is not made again.
RequestInOnePlace ==
    /\ \A p, q \in Place : p # q => reqs[p] \cap reqs[q] = {}
    /\ \A p \in Place : reqs[p] \cap fresh = {}
    /\ \A r \in Request : answers[r] > 0 => r \notin fresh /\ ~InList(r)

\* A thread between GetConnectionRef and ReleaseConnectionRef.
Holding(t, c) ==
    \/ pc[t] = "existInfo" /\ loc[t].c = c
    \/ t = Reader(c) /\ pc[t] \in {"connect", "checkState", "setConnected",
                                   "connectRelease", "reading"}
    \/ t = Looper /\ pc[t] \in {"addDelta", "setCount", "requestRelease"} /\ loc[t].c = c
    \/ t = Sender /\ pc[t] = "sending" /\ loc[t].c = c
Holders(c) == {t \in Thread : Holding(t, c)}

\* No node is left behind: infoObjRefCount of a node in g_connection_list counts
\* at most the list's own reference and the threads that hold the node now, so
\* every path out of GetConnectionRef gives its reference back.
NoReferenceLeaked ==
    \A c \in live : node[c].objRef \in 1..(1 + Cardinality(Holders(c)))



-----------------------------------------------------------------------------
(* Liveness.  Threads that can run do run; Connect and Write return; a      *)
(* closed socket fails the read.  Callers and the peer owe nothing.        *)

FairSpec ==
    /\ Spec
    /\ \A t \in Apps : WF_vars(AppStep(t))
    /\ \A c \in ConnId : WF_vars(ReaderStep(c))
    /\ WF_vars(LooperStep)
    /\ WF_vars(SenderStep)

\* g_brConnLock, held across callbacks and PackRequest, is always given back:
\* no caller of ConnectDevice waits for ever (unless the list's mutex is lost).
ConnLockReleased == (brConnLock # None) ~> (brConnLock = None \/ lockLost)

\* AddRequestByConnId or AddPendingRequestByConnId came after the result was
\* given to the requests that waited: it stays with an open connection.
Parked(r) ==
    \E c \in live :
        /\ node[c].state = "CONNECTED"
        /\ r \in reqs[InRequests(c)] \cup reqs[InPending(c)]

\* No request stays in a list of a connection that is connecting, closing or
\* closed: the connect result, BrDisconnect or the closing timer takes it out.
RequestsMoveOn ==
    \A r \in Request : InList(r) ~> (~InList(r) \/ Parked(r) \/ lockLost)

\* A connection whose socket is closed, by the peer or by DisConnect, leaves
\* g_connection_list: the read thread's BrDisconnect is never lost.
ClosedSocketForgotten ==
    \A c \in ConnId :
        (c \in live /\ node[c].fd \in Fd /\ sock[node[c].fd] = "closed")
            ~> (c \notin live \/ lockLost)

\* DisconnectDeviceNow closes the connection it found, whatever the read thread,
\* the closing timer and the peer do to its state before the looper gets to it.
FoundConnectionCloses ==
    \A c \in ConnId :
        (\E t \in Apps : pc[t] = "postDisconnect" /\ loc[t].c = c)
            ~> (c \notin live \/ lockLost)

-----------------------------------------------------------------------------
(* Promises of softbus_conn_interface.h that the code does not keep        *)

\* ConnDisconnectDevice: "disconnect the physical connection when the logical
\* connection reference is zero".
LastReferenceDisconnects ==
    \A c \in ConnId :
        (c \in live /\ node[c].state = "CLOSING" /\ node[c].refCount <= 0)
            ~> (c \notin live \/ node[c].refCount > 0 \/ lockLost)
=============================================================================
