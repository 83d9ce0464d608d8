------------------------ MODULE BrConnection_proofs ------------------------
(***************************************************************************)
(* Proofs about BrConnection, for every number of callers, requests,       *)
(* devices and connections: the types of its variables, and that a connect *)
(* request is answered at most once.                                       *)
(***************************************************************************)
EXTENDS BrConnection, FiniteSetTheorems, TLAPS

-----------------------------------------------------------------------------
(* Records: what the locals, the nodes and the messages hold               *)

\* A record of locals with one component replaced is a record of locals.
LEMMA LocalsUpdate ==
  ASSUME NEW x \in Locals
  PROVE  /\ \A c \in ConnId : AtConn(x, c) \in Locals
         /\ \A fd \in Fd \cup {0} : AtFd(x, fd) \in Locals
         /\ \A mac \in Mac \cup {None} : AtMac(x, mac) \in Locals
         /\ \A side \in {"any", "client", "server"} : AtSide(x, side) \in Locals
         /\ \A n \in Int : AtDelta(x, n) \in Locals
         /\ \A n \in Int : AtRef(x, n) \in Locals
         /\ \A n \in Int : AtCount(x, n) \in Locals
         /\ \A state \in State : AtState(x, state) \in Locals
<1>1. \A c \in ConnId : AtConn(x, c) \in Locals BY DEF Locals, AtConn
<1>2. \A fd \in Fd \cup {0} : AtFd(x, fd) \in Locals BY DEF Locals, AtFd
<1>3. \A mac \in Mac \cup {None} : AtMac(x, mac) \in Locals BY DEF Locals, AtMac
<1>4. \A side \in {"any", "client", "server"} : AtSide(x, side) \in Locals
  BY DEF Locals, AtSide
<1>5. \A n \in Int : AtDelta(x, n) \in Locals BY DEF Locals, AtDelta
<1>6. \A n \in Int : AtRef(x, n) \in Locals BY DEF Locals, AtRef
<1>7. \A n \in Int : AtCount(x, n) \in Locals BY DEF Locals, AtCount
<1>8. \A state \in State : AtState(x, state) \in Locals BY DEF Locals, AtState
<1> QED BY <1>1, <1>2, <1>3, <1>4, <1>5, <1>6, <1>7, <1>8

\* A fresh record of locals is one, and c names a connection in all of them.
LEMMA LocalsType ==
  /\ NoLocals \in Locals
  /\ \A x \in Locals : /\ x.c \in ConnId /\ x.fd \in Fd \cup {0}
                       /\ x.mac \in Mac \cup {None}
                       /\ x.delta \in Int /\ x.ref \in Int /\ x.count \in Int
  BY BoundsAssumption DEF Locals, NoLocals, ConnId, State

\* A node with one component replaced is a node.
LEMMA NodeUpdate ==
  ASSUME NEW n \in Node
  PROVE  /\ \A fd \in Fd \cup {0} : WithFd(n, fd) \in Node
         /\ \A state \in State : WithState(n, state) \in Node
         /\ \A k \in Int : WithRefCount(n, k) \in Node
         /\ \A k \in Int : WithObjRef(n, k) \in Node
<1>1. \A fd \in Fd \cup {0} : WithFd(n, fd) \in Node BY DEF Node, WithFd
<1>2. \A state \in State : WithState(n, state) \in Node BY DEF Node, WithState
<1>3. \A k \in Int : WithRefCount(n, k) \in Node BY DEF Node, WithRefCount
<1>4. \A k \in Int : WithObjRef(n, k) \in Node BY DEF Node, WithObjRef
<1> QED BY <1>1, <1>2, <1>3, <1>4

\* The nodes that CreateBrconnectionNode makes, and what every node holds.
LEMMA NodeType ==
  /\ FreeNode \in Node
  /\ \A side \in Side, mac \in Mac \cup {None}, fd \in Fd \cup {0}, state \in State :
        NewNode(side, mac, fd, state) \in Node
  /\ \A n \in Node : /\ n.fd \in Fd \cup {0} /\ n.state \in State
                     /\ n.mac \in Mac \cup {None}
                     /\ n.refCount \in Int /\ n.objRef \in Int
  BY DEF Node, FreeNode, NewNode, Side, State

\* The looper's messages are well formed.
LEMMA MsgType ==
  /\ \A c \in ConnId : ClientConnectedMsg(c) \in Msg
  /\ \A fd \in Fd \cup {0}, mac \in Mac : ServiceConnectedMsg(fd, mac) \in Msg
  /\ \A fd \in Fd \cup {0} : DisconnectedMsg(fd) \in Msg
  /\ \A c \in ConnId, frame \in Frame : RecvMsg(c, frame) \in Msg
  /\ \A m \in Msg : /\ m.c \in ConnId /\ m.fd \in Fd \cup {0}
                    /\ m.mac \in Mac \cup {None} /\ m.frame \in Frame
  /\ \A f \in Frame : f.delta \in Int /\ f.ref \in Int
<1>1. NoFrame \in Frame BY DEF NoFrame, Frame
<1>2. 1 \in ConnId BY BoundsAssumption DEF ConnId
<1>3. \A c \in ConnId : ClientConnectedMsg(c) \in Msg
  BY <1>1 DEF Msg, ClientConnectedMsg, Message
<1>4. \A fd \in Fd \cup {0}, mac \in Mac : ServiceConnectedMsg(fd, mac) \in Msg
  BY <1>1, <1>2 DEF Msg, ServiceConnectedMsg, Message
<1>5. \A fd \in Fd \cup {0} : DisconnectedMsg(fd) \in Msg
  BY <1>1, <1>2 DEF Msg, DisconnectedMsg, Message
<1>6. \A c \in ConnId, frame \in Frame : RecvMsg(c, frame) \in Msg
  BY DEF Msg, RecvMsg, Message
<1>7. \A m \in Msg : /\ m.c \in ConnId /\ m.fd \in Fd \cup {0}
                     /\ m.mac \in Mac \cup {None} /\ m.frame \in Frame
  BY DEF Msg
<1>8. \A f \in Frame : f.delta \in Int /\ f.ref \in Int BY DEF Frame
<1> QED BY <1>3, <1>4, <1>5, <1>6, <1>7, <1>8

-----------------------------------------------------------------------------
(* Building blocks keep the types                                          *)

\* Threads and the places of the requests.
LEMMA Places ==
  /\ \A t \in Thread : {ToNotify(t), ToRetry(t), InCall(t)} \subseteq Place
  /\ \A c \in ConnId : {InRequests(c), InPending(c)} \subseteq Place
  /\ \A c \in ConnId : Reader(c) \in Thread
  /\ Looper \in Thread /\ Sender \in Thread
  /\ \A t \in Apps : t \in Thread
  BY DEF Place, Thread, Readers

\* A thread that goes to a label with locals of their type stays well typed.
LEMMA GotoType ==
  ASSUME TypeOK, NEW t \in Thread, NEW l \in Label
  PROVE  /\ \A x \in Locals : GotoWith(t, l, x) =>
                /\ pc' \in [Thread -> Label] /\ loc' \in [Thread -> Locals]
         /\ Goto(t, l) =>
                /\ pc' \in [Thread -> Label] /\ loc' \in [Thread -> Locals]
<1>1. \A x \in Locals : GotoWith(t, l, x) =>
         /\ pc' \in [Thread -> Label] /\ loc' \in [Thread -> Locals]
  BY DEF TypeOK, GotoWith
<1>2. (IF l = "idle" THEN NoLocals ELSE loc[t]) \in Locals BY LocalsType DEF TypeOK
<1> QED BY <1>1, <1>2 DEF Goto

\* The operations on one node keep the table well typed.
LEMMA NodeStepType ==
  ASSUME TypeOK, NEW c \in ConnId
  PROVE  /\ Hold(c) => node' \in [ConnId -> Node]
         /\ \A state \in State : SetState(c, state) => node' \in [ConnId -> Node]
         /\ \A state \in State :
               SetBrConnStateByConnId(c, state) => node' \in [ConnId -> Node]
         /\ Release(c) => /\ live' \in SUBSET ConnId
                          /\ node' \in [ConnId -> Node]
                          /\ reqs' \in [Place -> SUBSET Request]
<1>1. node[c] \in Node BY DEF TypeOK
<1>2. node[c].objRef + 1 \in Int /\ node[c].objRef - 1 \in Int BY <1>1, NodeType
<1>3. Hold(c) => node' \in [ConnId -> Node]
  BY <1>1, <1>2, NodeUpdate DEF TypeOK, Hold
<1>4. \A state \in State : SetState(c, state) => node' \in [ConnId -> Node]
  BY <1>1, NodeUpdate DEF TypeOK, SetState
<1>5. \A state \in State :
         SetBrConnStateByConnId(c, state) => node' \in [ConnId -> Node]
  BY <1>4 DEF TypeOK, SetBrConnStateByConnId
<1>6. Release(c) => /\ live' \in SUBSET ConnId
                    /\ node' \in [ConnId -> Node]
                    /\ reqs' \in [Place -> SUBSET Request]
  BY <1>1, <1>2, NodeUpdate, NodeType DEF TypeOK, Release
<1> QED BY <1>3, <1>4, <1>5, <1>6

\* Moving, dropping and answering requests keeps their types.
LEMMA RequestStepType ==
  ASSUME TypeOK, NEW p \in Place
  PROVE  /\ \A q \in Place : Move(p, q) => reqs' \in [Place -> SUBSET Request]
         /\ Drop(p) => reqs' \in [Place -> SUBSET Request]
         /\ Answer(p) => answers' \in [Request -> Nat]
<1>1. \A q \in Place : Move(p, q) => reqs' \in [Place -> SUBSET Request]
  BY DEF TypeOK, Move
<1>2. Drop(p) => reqs' \in [Place -> SUBSET Request] BY DEF TypeOK, Drop
<1>3. Answer(p) => answers' \in [Request -> Nat] BY DEF TypeOK, Answer
<1> QED BY <1>1, <1>2, <1>3

\* Taking one request out of the list of those to connect again.
LEMMA RetryType ==
  ASSUME TypeOK, NEW t \in Thread, NEW r \in reqs[ToRetry(t)]
  PROVE  [reqs EXCEPT ![ToRetry(t)] = @ \ {r}, ![InCall(t)] = @ \cup {r}]
             \in [Place -> SUBSET Request]
<1>1. ToRetry(t) \in Place /\ InCall(t) \in Place BY Places
<1>2. r \in Request BY <1>1 DEF TypeOK
<1>3. [reqs EXCEPT ![ToRetry(t)] = @ \ {r}] \in [Place -> SUBSET Request]
  BY <1>1 DEF TypeOK
<1> QED BY <1>1, <1>2, <1>3 DEF TypeOK

\* Posting and taking messages.
LEMMA MsgStepType ==
  ASSUME TypeOK
  PROVE  /\ \A m \in Msg : Post(m) => msgs' \in Seq(Msg)
         /\ msgs # <<>> => Head(msgs) \in Msg /\ Tail(msgs) \in Seq(Msg)
<1>1. msgs \in Seq(Msg) BY DEF TypeOK
<1>2. \A m \in Msg : Append(msgs, m) \in Seq(Msg) BY <1>1
<1>3. msgs # <<>> => Head(msgs) \in Msg /\ Tail(msgs) \in Seq(Msg) BY <1>1
<1> QED BY <1>2, <1>3 DEF Post

\* Queueing a frame for the send thread.
LEMMA PostBytesType ==
  ASSUME TypeOK, NEW c \in ConnId, PostBytesInner(c)
  PROVE  outq' \in [ConnId -> Nat]
  BY DEF TypeOK, PostBytesInner

-----------------------------------------------------------------------------
(* Every action keeps the types                                            *)

\* ConnectDevice and PackRequest keep the types, on any thread.
LEMMA ConnectStepType ==
  ASSUME TypeOK, NEW t \in Thread, ConnectStep(t)
  PROVE  TypeOK'
<1> USE Places DEF table, requests, driver, bounds, threads
<1>0. loc[t] \in Locals /\ loc[t].c \in ConnId /\ loc[t].mac \in Mac \cup {None}
  BY LocalsType DEF TypeOK
<1>1. CASE ConnectLock(t)
  <2>1. "lookup" \in Label BY DEF Label
  <2> QED BY <1>1, <2>1, GotoType DEF TypeOK, ConnectLock
<1>2. CASE ConnectLookup(t)
  <2>1. {"count", "exist", "addRequest", "addPending"} \subseteq Label BY DEF Label
  <2>2. \A c \in live : AtConn(loc[t], c) \in Locals BY <1>0, LocalsUpdate DEF TypeOK
  <2>3. pc' \in [Thread -> Label] /\ loc' \in [Thread -> Locals]
    BY <1>2, <2>1, <2>2, GotoType DEF ConnectLookup, First
  <2> QED BY <1>2, <2>3 DEF TypeOK, ConnectLookup
<1>3. CASE ConnectDeviceExist(t)
  <2>1. {"existInfo", AfterExist(t)} \subseteq Label BY DEF Label, AfterExist
  <2> QED BY <1>0, <1>3, <2>1, GotoType, NodeStepType, RequestStepType
          DEF TypeOK, ConnectDeviceExist
<1>4. CASE ExistRelease(t)
  <2>1. "existAnswer" \in Label BY DEF Label
  <2> QED BY <1>0, <1>4, <2>1, GotoType, NodeStepType DEF TypeOK, ExistRelease
<1>5. CASE ExistAnswer(t)
  <2>1. "pack" \in Label BY DEF Label
  <2>2. \A n \in Int : AtDelta(loc[t], n) \in Locals BY <1>0, LocalsUpdate
  <2>3. AtDelta(loc[t], 1) \in Locals BY <2>2
  <2> QED BY <1>0, <1>5, <2>1, <2>3, GotoType, RequestStepType DEF TypeOK, ExistAnswer
<1>6. CASE ConnectDeviceStateConnecting(t)
  <2>1. "unlock" \in Label BY DEF Label
  <2> QED BY <1>0, <1>6, <2>1, GotoType, RequestStepType
          DEF TypeOK, ConnectDeviceStateConnecting
<1>7. CASE ConnectDeviceStateClosing(t)
  <2>1. "unlock" \in Label BY DEF Label
  <2> QED BY <1>0, <1>7, <2>1, GotoType, RequestStepType
          DEF TypeOK, ConnectDeviceStateClosing
<1>8. CASE ConnectCount(t)
  <2>1. {"unlock", "create"} \subseteq Label BY DEF Label
  <2> QED BY <1>8, <2>1, GotoType, RequestStepType DEF TypeOK, ConnectCount
<1>9. CASE ConnectDeviceFirstTime(t)
  <2>1. "unlock" \in Label BY DEF Label
  <2>2. NewNode("client", loc[t].mac, 0, "CONNECTING") \in Node
    BY <1>0, NodeType DEF Side, State
  <2>3. nextId \in ConnId /\ nextId' \in 1..(MaxConnId + 1)
    BY SMTT(40), <1>9, BoundsAssumption DEF ConnectDeviceFirstTime, AddConnection, ConnId
  <2>4. msgs' \in Seq(Msg)
    BY <1>9, <2>3, MsgType, MsgStepType DEF ConnectDeviceFirstTime
  <2> QED BY <1>9, <2>1, <2>2, <2>3, <2>4, GotoType, RequestStepType
          DEF TypeOK, ConnectDeviceFirstTime, AddConnection
<1>10. CASE ConnectUnlock(t)
  <2>1. {"idle", "retry"} \subseteq Label BY DEF Label
  <2> QED BY <1>10, <2>1, GotoType DEF TypeOK, ConnectUnlock
<1>11. CASE SetRefCount(t)
  <2> DEFINE c == loc[t].c
             count == node[c].refCount + loc[t].delta
             state == IF node[c].state = "CONNECTED" /\ count <= 0
                      THEN "CLOSING" ELSE node[c].state
  <2>1. {"post", AfterPack(t)} \subseteq Label BY DEF Label, AfterPack
  <2>2. count \in Int /\ state \in State /\ node[c] \in Node
    BY <1>0, NodeType, LocalsType DEF TypeOK, State
  <2>3. WithState(WithRefCount(node[c], count), state) \in Node BY <2>2, NodeUpdate
  <2>4. (IF state \in {"CONNECTED", "CLOSING"} THEN "post" ELSE AfterPack(t)) \in Label
    BY <2>1
  <2>5. timers' \in [ConnId -> Nat]
    <3>1. timers' = timers \/ timers' = [timers EXCEPT ![c] = @ + 1]
      BY <1>11 DEF SetRefCount
    <3>2. timers \in [ConnId -> Nat] /\ c \in ConnId BY <1>0 DEF TypeOK
    <3> HIDE DEF c
    <3> QED BY <3>1, <3>2
  <2>7. node' \in [ConnId -> Node]
    <3>1. \/ node' = node
          \/ node' = [node EXCEPT ![c] = WithState(WithRefCount(node[c], count), state)]
      BY <1>11 DEF SetRefCount
    <3> QED BY <1>0, <2>3, <3>1 DEF TypeOK
  <2>6. pc' \in [Thread -> Label] /\ loc' \in [Thread -> Locals]
    BY <1>11, <2>1, <2>4, GotoType DEF SetRefCount
  <2> QED BY <1>11, <2>5, <2>6, <2>7 DEF TypeOK, SetRefCount
<1>12. CASE PostRequest(t)
  <2>1. AfterPack(t) \in Label BY DEF Label, AfterPack
  <2> QED BY <1>0, <1>12, <2>1, GotoType, PostBytesType DEF TypeOK, PostRequest
<1> QED BY <1>1, <1>2, <1>3, <1>4, <1>5, <1>6, <1>7, <1>8, <1>9, <1>10, <1>11, <1>12
        DEF ConnectStep

\* ClientNoticeResultBrConnect keeps the types.
LEMMA NoticeStepType ==
  ASSUME TypeOK, NEW t \in Thread, NoticeStep(t)
  PROVE  TypeOK'
<1> USE Places DEF table, requests, driver, bounds, threads
<1>0. loc[t] \in Locals /\ loc[t].c \in ConnId /\ loc[t].count \in Int
  BY LocalsType DEF TypeOK
<1>1. CASE NoticeClosing(t)
  <2>1. "takeFail" \in Label /\ "CLOSING" \in State BY DEF Label, State
  <2> QED BY <1>0, <1>1, <2>1, GotoType, NodeStepType DEF TypeOK, NoticeClosing
<1>2. CASE NoticeTake(t)
  <2> DEFINE n == Cardinality(reqs[InRequests(loc[t].c)])
  <2>1. {"packs", "noticeFail"} \subseteq Label BY DEF Label
  <2>2. n \in Int
    <3>1. reqs[InRequests(loc[t].c)] \subseteq Request BY <1>0 DEF TypeOK
    <3> QED BY <3>1, RequestAssumption, FS_Subset, FS_CardinalityType
  <2>3. AtCount(loc[t], n) \in Locals BY <1>0, <2>2, LocalsUpdate
  <2>4. reqs' \in [Place -> SUBSET Request]
    BY <1>0, <1>2, RequestStepType DEF NoticeTake
  <2>5. pc' \in [Thread -> Label] /\ loc' \in [Thread -> Locals]
    BY <1>2, <2>1, <2>3, GotoType DEF NoticeTake
  <2> QED BY <1>2, <2>4, <2>5 DEF TypeOK, NoticeTake
<1>3. CASE DeviceConnectPackRequest(t)
  <2>1. {"pack", "noticeOk"} \subseteq Label BY DEF Label
  <2>2. loc[t].count - 1 \in Int /\ 1 \in Int BY <1>0
  <2>3. AtCount(loc[t], loc[t].count - 1) \in Locals BY <1>0, <2>2, LocalsUpdate
  <2>4. AtDelta(AtCount(loc[t], loc[t].count - 1), 1) \in Locals
    BY <2>2, <2>3, LocalsUpdate
  <2>5. pc' \in [Thread -> Label] /\ loc' \in [Thread -> Locals]
    BY <1>3, <2>1, <2>4, GotoType DEF DeviceConnectPackRequest
  <2> QED BY <1>3, <2>5 DEF TypeOK, DeviceConnectPackRequest
<1>4. CASE NoticeAnswer(t)
  <2>1. {"read", "failRelease"} \subseteq Label BY DEF Label
  <2> QED BY <1>0, <1>4, <2>1, GotoType, RequestStepType DEF TypeOK, NoticeAnswer
<1>5. CASE NoticeRelease(t)
  <2>1. (IF t = Looper THEN "idle" ELSE "done") \in Label BY DEF Label
  <2> QED BY <1>0, <1>5, <2>1, GotoType, NodeStepType DEF TypeOK, NoticeRelease
<1> QED BY <1>1, <1>2, <1>3, <1>4, <1>5 DEF NoticeStep

\* BrDisconnect keeps the types.
LEMMA DisconnectStepType ==
  ASSUME TypeOK, NEW t \in Thread, DisconnectStep(t)
  PROVE  TypeOK'
<1> USE Places DEF table, requests, driver, bounds, threads
<1>0. loc[t] \in Locals /\ loc[t].c \in ConnId BY LocalsType DEF TypeOK
<1>1. CASE DisconnectSetState(t)
  <2>1. {"takeRequests", AfterDisconnect(t)} \subseteq Label BY DEF Label, AfterDisconnect
  <2>2. \A c \in live : AtState(AtConn(loc[t], c), node[c].state) \in Locals
    <3> TAKE c \in live
    <3>1. c \in ConnId /\ node[c].state \in State BY NodeType DEF TypeOK
    <3>2. AtConn(loc[t], c) \in Locals BY <1>0, <3>1, LocalsUpdate
    <3> QED BY <3>1, <3>2, LocalsUpdate
  <2>3. pc' \in [Thread -> Label] /\ loc' \in [Thread -> Locals]
    BY <1>1, <2>1, <2>2, GotoType DEF DisconnectSetState, First
  <2>4. "CLOSED" \in State BY DEF State
  <2>5. node' \in [ConnId -> Node]
    BY <1>1, <2>4, NodeStepType DEF TypeOK, DisconnectSetState, First
  <2> QED BY <1>1, <2>3, <2>5 DEF TypeOK, DisconnectSetState
<1>2. CASE DisconnectTakeRequests(t)
  <2>1. "takePending" \in Label /\ node[loc[t].c].mac \in Mac \cup {None}
    BY <1>0, NodeType DEF TypeOK, Label
  <2>2. AtMac(loc[t], node[loc[t].c].mac) \in Locals BY <1>0, <2>1, LocalsUpdate
  <2>3. AtSide(AtMac(loc[t], node[loc[t].c].mac), "client") \in Locals
    BY <2>2, LocalsUpdate
  <2> QED BY <1>0, <1>2, <2>1, <2>3, GotoType, RequestStepType
          DEF TypeOK, DisconnectTakeRequests
<1>3. CASE DisconnectTakePending(t)
  <2>1. {"notifyDisconnect", "retry"} \subseteq Label BY DEF Label
  <2>2. pc' \in [Thread -> Label] /\ loc' \in [Thread -> Locals]
    BY <1>3, <2>1, GotoType DEF DisconnectTakePending
  <2>3. reqs' \in [Place -> SUBSET Request]
    BY <1>0, <1>3, RequestStepType DEF TypeOK, DisconnectTakePending
  <2>4. lockLost' \in BOOLEAN BY <1>3 DEF DisconnectTakePending
  <2> QED BY <1>3, <2>2, <2>3, <2>4 DEF TypeOK, DisconnectTakePending
<1>4. CASE NotifyDisconnect(t)
  <2>1. "disconnectRelease" \in Label BY DEF Label
  <2> QED BY <1>0, <1>4, <2>1, GotoType, RequestStepType DEF TypeOK, NotifyDisconnect
<1>5. CASE DisconnectRelease(t)
  <2>1. "retry" \in Label BY DEF Label
  <2> QED BY <1>0, <1>5, <2>1, GotoType, NodeStepType DEF TypeOK, DisconnectRelease
<1>6. CASE DisconnectRetry(t)
  <2>1. {"lock", AfterDisconnect(t)} \subseteq Label BY DEF Label, AfterDisconnect
  <2>2. reqs' \in [Place -> SUBSET Request]
    <3>1. CASE reqs' = reqs BY <3>1 DEF TypeOK
    <3>2. CASE reqs' # reqs
      <4>1. PICK r \in reqs[ToRetry(t)] :
              reqs' = [reqs EXCEPT ![ToRetry(t)] = @ \ {r}, ![InCall(t)] = @ \cup {r}]
        BY <1>6, <3>2 DEF DisconnectRetry
      <4> QED BY <4>1, RetryType
    <3> QED BY <3>1, <3>2
  <2> QED BY <1>6, <2>1, <2>2, GotoType DEF TypeOK, DisconnectRetry
<1> QED BY <1>1, <1>2, <1>3, <1>4, <1>5, <1>6 DEF DisconnectStep

\* The read threads, ConnBrRead, keep the types.
LEMMA ReaderStepType ==
  ASSUME TypeOK, NEW c \in ConnId, ReaderStep(c)
  PROVE  TypeOK'
<1> USE Places DEF table, requests, driver, bounds, threads
<1> DEFINE t == Reader(c)
<1>0. t \in Thread /\ loc[t] \in Locals BY DEF TypeOK
<1>1. CASE ClientStart(c)
  <2>1. {"connect", "fail"} \subseteq Label BY DEF Label
  <2> QED BY <1>1, <2>1, GotoType, NodeStepType DEF TypeOK, ClientStart
<1>2. CASE ClientConnected(c)
  <2>1. "checkState" \in Label BY DEF Label
  <2>2. ClientFd(c) \in Fd BY BoundsAssumption DEF ClientFd, Fd, ConnId
  <2>3. AtFd(loc[t], ClientFd(c)) \in Locals BY <1>0, <2>2, LocalsUpdate
  <2>4. WithFd(node[c], ClientFd(c)) \in Node BY <2>2, NodeUpdate DEF TypeOK
  <2> QED BY <1>2, <2>1, <2>3, <2>4, GotoType DEF TypeOK, ClientConnected
<1>3. CASE ClientConnectFails(c)
  <2>1. "fail" \in Label BY DEF Label
  <2> QED BY <1>3, <2>1, GotoType, NodeStepType DEF TypeOK, ClientConnectFails
<1>4. CASE ClientCheckState(c)
  <2>1. {"fail", "setConnected"} \subseteq Label BY DEF Label
  <2> QED BY <1>4, <2>1, GotoType, NodeStepType DEF TypeOK, ClientCheckState
<1>5. CASE ClientSetConnected(c)
  <2>1. "connectRelease" \in Label /\ "CONNECTED" \in State BY DEF Label, State
  <2> QED BY <1>5, <2>1, GotoType, NodeStepType DEF TypeOK, ClientSetConnected
<1>6. CASE ClientConnectRelease(c)
  <2>1. "takeOk" \in Label BY DEF Label
  <2> QED BY <1>6, <2>1, GotoType, NodeStepType DEF TypeOK, ClientConnectRelease
<1>7. CASE ReadBegin(c)
  <2>1. {"reading", "readClosed"} \subseteq Label BY DEF Label
  <2> QED BY <1>7, <2>1, GotoType, NodeStepType DEF TypeOK, ReadBegin
<1>8. CASE ReadFails(c)
  <2>1. "readClosed" \in Label BY DEF Label
  <2> QED BY <1>8, <2>1, GotoType, NodeStepType DEF TypeOK, ReadFails
<1>9. CASE ReaderDisconnects(c)
  <2>1. "disconnect" \in Label BY DEF Label
  <2> QED BY <1>9, <2>1, GotoType DEF TypeOK, ReaderDisconnects
<1> QED BY <1>0, <1>1, <1>2, <1>3, <1>4, <1>5, <1>6, <1>7, <1>8, <1>9, NoticeStepType,
           DisconnectStepType, ConnectStepType DEF ReaderStep

\* BrConnMsgHandler keeps the types.
LEMMA LooperStepType ==
  ASSUME TypeOK, LooperStep
  PROVE  TypeOK'
<1> USE Places DEF table, requests, driver, bounds, threads
<1>0. /\ loc[Looper] \in Locals /\ loc[Looper].c \in ConnId
      /\ loc[Looper].fd \in Fd \cup {0}
      /\ loc[Looper].delta \in Int /\ loc[Looper].count \in Int
      /\ node[loc[Looper].c] \in Node
  BY LocalsType DEF TypeOK
<1>m. ASSUME NEW type, Due(type)
      PROVE  /\ Tail(msgs) \in Seq(Msg) /\ Head(msgs).c \in ConnId
             /\ Head(msgs).fd \in Fd \cup {0} /\ Head(msgs).mac \in Mac \cup {None}
             /\ Head(msgs).frame \in Frame
  BY <1>m, MsgStepType, MsgType DEF Due
<1>n. NoLocals \in Locals BY LocalsType
<1>1. CASE HandleClientConnected
  <2>1. {"start", "fail"} \subseteq Label BY DEF Label
  <2>2. Head(msgs).c \in ConnId /\ Tail(msgs) \in Seq(Msg)
    BY <1>1, <1>m DEF HandleClientConnected
  <2>3. AtConn(NoLocals, Head(msgs).c) \in Locals BY <1>n, <2>2, LocalsUpdate
  <2>4. pc' \in [Thread -> Label] /\ loc' \in [Thread -> Locals]
    BY <1>1, <2>1, <2>2, <2>3, GotoType DEF HandleClientConnected
  <2> QED BY <1>1, <2>2, <2>4 DEF TypeOK, HandleClientConnected
<1>2. CASE HandleServiceConnected
  <2> DEFINE f == Head(msgs).fd
             mac == Head(msgs).mac
  <2>1. "read" \in Label /\ "CONNECTED" \in State /\ "server" \in Side
    BY DEF Label, State, Side
  <2>2. f \in Fd \cup {0} /\ mac \in Mac \cup {None} /\ Tail(msgs) \in Seq(Msg)
    BY <1>2, <1>m DEF HandleServiceConnected
  <2>3. NewNode("server", mac, f, "CONNECTED") \in Node BY <2>1, <2>2, NodeType
  <2>4. msgs' \in Seq(Msg)
    <3>0. DisconnectedMsg(f) \in Msg BY <2>2, MsgType
    <3>1. Append(Tail(msgs), DisconnectedMsg(f)) \in Seq(Msg) BY <2>2, <3>0
    <3> QED BY <1>2, <2>2, <3>1 DEF HandleServiceConnected
  <2>5. sock' \in [Fd -> {"unused", "open", "closed"}]
    BY <1>2 DEF TypeOK, HandleServiceConnected
  <2>6. CASE nextId \in ConnId
    <3>1. AtConn(NoLocals, nextId) \in Locals BY <1>n, <2>6, LocalsUpdate
    <3>2. AtFd(AtConn(NoLocals, nextId), f) \in Locals BY <2>2, <3>1, LocalsUpdate
    <3>3. pc' \in [Thread -> Label] /\ loc' \in [Thread -> Locals]
      BY <1>2, <2>1, <2>6, <3>2, GotoType DEF TypeOK, HandleServiceConnected
    <3>4. nextId' \in 1..(MaxConnId + 1)
      <4>1. nextId' \in {nextId, nextId + 1}
        BY <1>2 DEF HandleServiceConnected, AddConnection
      <4>2. MaxConnId \in Nat /\ nextId \in 1..MaxConnId BY <2>6, BoundsAssumption DEF ConnId
      <4> QED BY <4>1, <4>2
    <3>5. /\ live' \in SUBSET ConnId /\ node' \in [ConnId -> Node]
          /\ known' \in SUBSET ConnId
      BY <1>2, <2>3, <2>6 DEF TypeOK, HandleServiceConnected, AddConnection
    <3> QED BY <1>2, <2>4, <2>5, <3>3, <3>4, <3>5 DEF TypeOK, HandleServiceConnected
  <2>7. CASE nextId \notin ConnId
    BY <1>2, <2>4, <2>5, <2>7 DEF TypeOK, HandleServiceConnected, AddConnection
  <2> QED BY <2>6, <2>7
<1>3. CASE HandleDisconnected
  <2>1. "disconnect" \in Label BY DEF Label
  <2>2. Head(msgs).fd \in Fd \cup {0} /\ Tail(msgs) \in Seq(Msg)
    BY <1>3, <1>m DEF HandleDisconnected
  <2>3. AtFd(NoLocals, Head(msgs).fd) \in Locals BY <1>n, <2>2, LocalsUpdate
  <2> QED BY <1>3, <2>1, <2>2, <2>3, GotoType DEF TypeOK, HandleDisconnected
<1>4. CASE HandleResponse
  <2>1. "CONNECTED" \in State BY DEF State
  <2>2. Head(msgs).c \in ConnId /\ Tail(msgs) \in Seq(Msg)
    BY <1>4, <1>m DEF HandleResponse
  <2> QED BY <1>4, <2>1, <2>2, NodeStepType DEF TypeOK, HandleResponse
<1>5. CASE HandleRequest
  <2> DEFINE c == Head(msgs).c
             frame == Head(msgs).frame
  <2>1. "addDelta" \in Label BY DEF Label
  <2>2. /\ c \in ConnId /\ Tail(msgs) \in Seq(Msg)
        /\ frame.delta \in Int /\ frame.ref \in Int
    BY <1>5, <1>m, MsgType DEF HandleRequest
  <2>3. AtConn(NoLocals, c) \in Locals BY <1>n, <2>2, LocalsUpdate
  <2>4. AtDelta(AtConn(NoLocals, c), frame.delta) \in Locals BY <2>2, <2>3, LocalsUpdate
  <2>5. AtRef(AtDelta(AtConn(NoLocals, c), frame.delta), frame.ref) \in Locals
    BY <2>2, <2>4, LocalsUpdate
  <2>6. pc' \in [Thread -> Label] /\ loc' \in [Thread -> Locals]
    BY <1>5, <2>1, <2>5, GotoType DEF TypeOK, HandleRequest
  <2>7. node' \in [ConnId -> Node]
    BY <1>5, <2>2, NodeStepType DEF TypeOK, HandleRequest
  <2> QED BY <1>5, <2>2, <2>6, <2>7 DEF TypeOK, HandleRequest
<1>6. CASE RequestReadCount
  <2> DEFINE count == node[loc[Looper].c].refCount + loc[Looper].delta
  <2>1. "setCount" \in Label BY DEF Label
  <2>2. count \in Int BY SMTT(40), <1>0, NodeType
  <2>3. AtCount(loc[Looper], count) \in Locals BY <1>0, <2>2, LocalsUpdate
  <2> QED BY <1>6, <2>1, <2>3, GotoType DEF TypeOK, RequestReadCount
<1>7. CASE RequestWriteCount
  <2>1. "requestRelease" \in Label BY DEF Label
  <2>2. node[loc[Looper].c].fd \in Fd \cup {0} BY <1>0, NodeType
  <2>3. AtFd(loc[Looper], node[loc[Looper].c].fd) \in Locals BY <1>0, <2>2, LocalsUpdate
  <2>4. WithRefCount(node[loc[Looper].c], loc[Looper].count) \in Node BY <1>0, NodeUpdate
  <2> QED BY <1>0, <1>7, <2>1, <2>3, <2>4, GotoType DEF TypeOK, RequestWriteCount
<1>8. CASE RequestRelease
  <2>1. {"resumeConnection", "closing", "respond"} \subseteq Label BY DEF Label
  <2> QED BY <1>0, <1>8, <2>1, GotoType, NodeStepType DEF TypeOK, RequestRelease
<1>9. CASE RequestClosing
  <2>1. "idle" \in Label /\ "CLOSING" \in State BY DEF Label, State
  <2>2. DisconnectedMsg(loc[Looper].fd) \in Msg BY <1>0, MsgType
  <2> QED BY <1>0, <1>9, <2>1, <2>2, GotoType, NodeStepType, MsgStepType
          DEF TypeOK, RequestClosing
<1>10. CASE RequestRespond
  <2>1. "idle" \in Label BY DEF Label
  <2> QED BY <1>0, <1>10, <2>1, GotoType, PostBytesType DEF TypeOK, RequestRespond
<1>11. CASE ResumeConnection
  <2>1. {"idle", "resume"} \subseteq Label /\ "CONNECTED" \in State BY DEF Label, State
  <2> QED BY <1>0, <1>11, <2>1, GotoType, NodeStepType, RequestStepType
          DEF TypeOK, ResumeConnection
<1>12. CASE ResumeNext
  <2>1. {"idle", "exist"} \subseteq Label BY DEF Label
  <2>2. reqs' \in [Place -> SUBSET Request]
    <3>1. CASE reqs' = reqs BY <3>1 DEF TypeOK
    <3>2. CASE reqs' # reqs
      <4>1. PICK r \in reqs[ToRetry(Looper)] :
              reqs' = [reqs EXCEPT ![ToRetry(Looper)] = @ \ {r},
                                   ![InCall(Looper)] = @ \cup {r}]
        BY <1>12, <3>2 DEF ResumeNext
      <4> QED BY <4>1, RetryType
    <3> QED BY <3>1, <3>2
  <2> QED BY <1>12, <2>1, <2>2, GotoType DEF TypeOK, ResumeNext
<1>13. CASE \E c \in ConnId : ClosingTimeout(c)
  <2>1. PICK c \in ConnId : ClosingTimeout(c) BY <1>13
  <2>2. "resumeConnection" \in Label BY DEF Label
  <2>3. AtConn(NoLocals, c) \in Locals BY <1>n, LocalsUpdate
  <2>4. timers' \in [ConnId -> Nat] BY <2>1 DEF TypeOK, ClosingTimeout
  <2> QED BY <2>1, <2>2, <2>3, <2>4, GotoType DEF TypeOK, ClosingTimeout
<1> QED BY <1>1, <1>2, <1>3, <1>4, <1>5, <1>6, <1>7, <1>8, <1>9, <1>10, <1>11, <1>12,
           <1>13, NoticeStepType, DisconnectStepType, ConnectStepType DEF LooperStep

\* The calls of the connection interface keep the types.
LEMMA AppStepType ==
  ASSUME TypeOK, NEW t \in Apps, AppCall(t) \/ AppStep(t)
  PROVE  TypeOK'
<1> USE Places DEF table, requests, driver, bounds, threads
<1>0. t \in Thread /\ loc[t] \in Locals /\ loc[t].fd \in Fd \cup {0}
  BY LocalsType DEF TypeOK
<1>n. NoLocals \in Locals BY LocalsType
<1>1. ASSUME NEW r \in Request, NEW m \in Mac, NEW side \in OptionSide,
             CallConnectDevice(t, r, m, side)
      PROVE  TypeOK'
  <2>1. "lock" \in Label BY DEF Label
  <2>2. side \in {"any", "client", "server"} BY OptionSideAssumption
  <2>3. AtMac(NoLocals, m) \in Locals BY <1>n, LocalsUpdate
  <2>4. AtSide(AtMac(NoLocals, m), side) \in Locals BY <2>2, <2>3, LocalsUpdate
  <2>5. reqs' \in [Place -> SUBSET Request] BY <1>0, <1>1 DEF TypeOK, CallConnectDevice
  <2> QED BY <1>0, <1>1, <2>1, <2>4, <2>5, GotoType DEF TypeOK, CallConnectDevice
<1>2. ASSUME NEW c \in ConnId, DisconnectDevice(t, c) PROVE TypeOK'
  <2>1. "pack" \in Label BY DEF Label
  <2>2. AtConn(NoLocals, c) \in Locals BY <1>n, LocalsUpdate
  <2>4. \A n \in Int : AtDelta(AtConn(NoLocals, c), n) \in Locals BY <2>2, LocalsUpdate
  <2>3. AtDelta(AtConn(NoLocals, c), -1) \in Locals BY <2>4
  <2>5. calls' \in Nat BY <1>2 DEF TypeOK, DisconnectDevice
  <2>6. pc' \in [Thread -> Label] /\ loc' \in [Thread -> Locals]
    BY <1>0, <1>2, <2>1, <2>3, GotoType DEF DisconnectDevice
  <2> QED BY <1>2, <2>5, <2>6 DEF TypeOK, DisconnectDevice
<1>3. ASSUME NEW c \in ConnId, PostBytes(t, c) PROVE TypeOK'
  <2>1. calls' \in Nat BY <1>3 DEF TypeOK, PostBytes
  <2>2. outq' \in [ConnId -> Nat] BY <1>3, PostBytesType DEF PostBytes
  <2> QED BY <1>3, <2>1, <2>2 DEF TypeOK, PostBytes
<1>4. ASSUME NEW m \in Mac, DisconnectDeviceNow(t, m) PROVE TypeOK'
  <2>1. "postDisconnect" \in Label /\ "CLOSING" \in State BY DEF Label, State
  <2>2. PICK c \in live :
          /\ SetState(c, "CLOSING")
          /\ GotoWith(t, "postDisconnect", AtMac(AtFd(AtConn(NoLocals, c), node[c].fd), m))
    BY <1>4 DEF DisconnectDeviceNow, First
  <2>3. c \in ConnId /\ node[c].fd \in Fd \cup {0} BY NodeType DEF TypeOK
  <2>4. AtConn(NoLocals, c) \in Locals BY <1>n, <2>3, LocalsUpdate
  <2>5. AtFd(AtConn(NoLocals, c), node[c].fd) \in Locals BY <2>3, <2>4, LocalsUpdate
  <2>6. AtMac(AtFd(AtConn(NoLocals, c), node[c].fd), m) \in Locals BY <2>5, LocalsUpdate
  <2>7. pc' \in [Thread -> Label] /\ loc' \in [Thread -> Locals]
    BY <1>0, <2>1, <2>2, <2>6, GotoType
  <2>8. node' \in [ConnId -> Node] BY <2>1, <2>2, <2>3, NodeStepType
  <2>9. calls' \in Nat
    <3>1. calls' = calls + 1 BY <1>4 DEF DisconnectDeviceNow
    <3>2. calls \in Nat BY DEF TypeOK
    <3> QED BY <3>1, <3>2
  <2> QED BY <1>4, <2>7, <2>8, <2>9 DEF TypeOK, DisconnectDeviceNow
<1>5. CASE PostDisconnected(t)
  <2>1. "idle" \in Label BY DEF Label
  <2>2. DisconnectedMsg(loc[t].fd) \in Msg BY <1>0, MsgType
  <2> QED BY <1>0, <1>5, <2>1, <2>2, GotoType, MsgStepType DEF TypeOK, PostDisconnected
<1> QED BY <1>0, <1>1, <1>2, <1>3, <1>4, <1>5, ConnectStepType DEF AppCall, AppStep

\* SendHandlerLoop keeps the types.
LEMMA SenderStepType ==
  ASSUME TypeOK, SenderStep
  PROVE  TypeOK'
<1> USE Places DEF table, requests, driver, bounds, threads
<1>1. CASE SendEnd
  <2>1. "idle" \in Label /\ loc[Sender].c \in ConnId BY LocalsType DEF TypeOK, Label
  <2> QED BY <1>1, <2>1, GotoType, NodeStepType DEF TypeOK, SendEnd
<1>2. ASSUME NEW c \in ConnId, SendBegin(c) PROVE TypeOK'
  <2>1. "sending" \in Label BY DEF Label
  <2>2. AtConn(NoLocals, c) \in Locals BY LocalsType, LocalsUpdate
  <2>3. outq' \in [ConnId -> Nat] BY <1>2 DEF TypeOK, SendBegin
  <2> QED BY <1>2, <2>1, <2>2, <2>3, GotoType, NodeStepType DEF TypeOK, SendBegin
<1> QED BY <1>1, <1>2 DEF SenderStep

\* The sockets of accepted connections are sockets.
LEMMA ServerFdType == ServerFd \subseteq Fd
<1>1. MaxConnId \in Nat BY BoundsAssumption
<1> QED BY <1>1 DEF ServerFd, Fd

\* The accept thread and the peers keep the types.
LEMMA EnvironmentType ==
  ASSUME TypeOK, Environment
  PROVE  TypeOK'
<1> USE Places DEF table, requests, driver, bounds, threads
<1>1. ASSUME NEW m \in Mac, Accept(m) PROVE TypeOK'
  <2>1. PICK f \in ServerFd : /\ sock' = [sock EXCEPT ![f] = "open"]
                              /\ Post(ServiceConnectedMsg(f, m))
    BY <1>1 DEF Accept
  <2>2. f \in Fd BY ServerFdType
  <2>3. msgs' \in Seq(Msg) BY <2>1, <2>2, MsgType, MsgStepType
  <2> QED BY <1>1, <2>1, <2>3 DEF TypeOK, Accept
<1>2. ASSUME NEW f \in Fd, PeerClose(f) PROVE TypeOK'
  BY <1>2 DEF TypeOK, PeerClose
<1>3. ASSUME NEW c \in ConnId, NEW f \in PeerFrame, ReadFrame(c, f) PROVE TypeOK'
  <2>1. "read" \in Label BY DEF Label
  <2>2. RecvMsg(c, f) \in Msg BY FrameAssumption, MsgType DEF Frame
  <2>3. pc' \in [Thread -> Label] /\ loc' \in [Thread -> Locals]
    BY <1>3, <2>1, GotoType DEF ReadFrame
  <2>4. /\ live' \in SUBSET ConnId /\ node' \in [ConnId -> Node]
        /\ reqs' \in [Place -> SUBSET Request]
    BY <1>3, NodeStepType DEF ReadFrame
  <2>5. msgs' \in Seq(Msg) BY <1>3, <2>2, MsgStepType DEF ReadFrame
  <2>6. frames' \in Nat BY <1>3 DEF TypeOK, ReadFrame
  <2> QED BY <1>3, <2>3, <2>4, <2>5, <2>6 DEF TypeOK, ReadFrame
<1> QED BY <1>1, <1>2, <1>3 DEF Environment

\* Every step of the threads, the driver and the peer keeps the types.
LEMMA TypeStep == TypeOK /\ [Next]_vars => TypeOK'
<1> SUFFICES ASSUME TypeOK, [Next]_vars PROVE TypeOK' OBVIOUS
<1>1. CASE UNCHANGED vars BY <1>1 DEF TypeOK, vars
<1>2. CASE Next
  BY <1>2, AppStepType, ReaderStepType, LooperStepType, SenderStepType, EnvironmentType
  DEF Next
<1> QED BY <1>1, <1>2

\* The initial state is well typed.
LEMMA TypeInit == Init => TypeOK
<1> SUFFICES ASSUME Init PROVE TypeOK OBVIOUS
<1>1. "idle" \in Label BY DEF Label
<1>2. node \in [ConnId -> Node] /\ live \in SUBSET ConnId BY NodeType DEF Init
<1>3. pc \in [Thread -> Label] /\ loc \in [Thread -> Locals]
  BY <1>1, LocalsType DEF Init
<1>4. /\ reqs \in [Place -> SUBSET Request] /\ fresh \in SUBSET Request
      /\ answers \in [Request -> Nat] /\ known \in SUBSET ConnId
  BY DEF Init
<1>5. brConnLock \in Thread \cup {None} BY DEF Init
<1>8. lockLost \in BOOLEAN BY DEF Init
<1>9. msgs \in Seq(Msg) BY DEF Init
<1>6. /\ timers \in [ConnId -> Nat] /\ outq \in [ConnId -> Nat]
      /\ sock \in [Fd -> {"unused", "open", "closed"}]
  BY DEF Init
<1>7. nextId \in 1..(MaxConnId + 1) /\ calls \in Nat /\ frames \in Nat
  BY BoundsAssumption DEF Init
<1> QED BY <1>2, <1>3, <1>4, <1>5, <1>6, <1>7, <1>8, <1>9 DEF TypeOK

\* The variables keep to their types in every run, for all constants.
THEOREM TypeCorrect == Spec => []TypeOK
  BY TypeInit, TypeStep, PTL DEF Spec
=============================================================================
