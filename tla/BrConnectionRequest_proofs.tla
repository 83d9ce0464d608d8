----------------------- MODULE BrConnectionRequest_proofs -----------------------
(***************************************************************************)
(* Every connect request is answered at most once, for any number of        *)
(* callers, requests, devices and connections.  The inductive invariant is   *)
(* RequestInOnePlace with AnsweredAtMostOnce: an answered request is in no   *)
(* list, so nobody can answer it again.                                      *)
(***************************************************************************)
EXTENDS BrConnection_proofs

(* A request is in one place at a time and is answered at most once.  Every *)
(* action does one of four things to the requests: it drops some, moves     *)
(* some from one place to another, answers those at one place, or makes a   *)
(* new one.                                                                 *)

Shrinks ==
  /\ \A x \in Place : reqs'[x] \subseteq reqs[x]
  /\ fresh' = fresh /\ answers' = answers

Moves(p, q) ==
  /\ p # q
  /\ \A x \in Place \ {p, q} : reqs'[x] \subseteq reqs[x]
  /\ reqs'[p] \cap reqs'[q] = {}
  /\ reqs'[p] \subseteq reqs[p]
  /\ reqs'[q] \subseteq reqs[q] \cup reqs[p]
  /\ fresh' = fresh /\ answers' = answers

AnswersAt(p) ==
  /\ \A x \in Place : reqs'[x] \subseteq reqs[x]
  /\ reqs'[p] = {} /\ fresh' = fresh
  /\ Answer(p)

Makes(p, r) ==
  /\ r \in fresh /\ fresh' = fresh \ {r}
  /\ \A x \in Place \ {p} : reqs'[x] = reqs[x]
  /\ reqs'[p] = reqs[p] \cup {r}
  /\ answers' = answers

RequestStep ==
  \/ Shrinks
  \/ \E p, q \in Place : Moves(p, q)
  \/ \E p \in Place : AnswersAt(p)
  \/ \E p \in Place, r \in Request : Makes(p, r)

RequestInv == RequestInOnePlace /\ AnsweredAtMostOnce

\* Whatever an action does to the requests keeps every request in one place.
LEMMA RequestStepInv ==
  ASSUME TypeOK, TypeOK', RequestInv, RequestStep
  PROVE  RequestInv'
<1> USE DEF RequestInv, RequestInOnePlace, AnsweredAtMostOnce, InList
<1>0. /\ reqs' \in [Place -> SUBSET Request] /\ reqs \in [Place -> SUBSET Request]
      /\ answers \in [Request -> Nat] /\ answers' \in [Request -> Nat]
      /\ fresh \subseteq Request
  BY DEF TypeOK
<1>1. CASE Shrinks BY <1>0, <1>1 DEF Shrinks
<1>2. ASSUME NEW p \in Place, NEW q \in Place, Moves(p, q) PROVE RequestInv'
  <2>1. \A x \in Place : \A r \in reqs'[x] : \E y \in Place : r \in reqs[y]
    BY <1>2 DEF Moves
  <2>2. \A x, y \in Place : x # y => reqs'[x] \cap reqs'[y] = {}
    BY <1>2 DEF Moves
  <2>3. \A x \in Place : reqs'[x] \cap fresh' = {} BY <1>2 DEF Moves
  <2> QED BY <1>2, <2>1, <2>2, <2>3 DEF Moves
<1>3. ASSUME NEW p \in Place, AnswersAt(p) PROVE RequestInv'
  <2>1. \A r \in Request : r \in reqs[p] => answers[r] = 0 BY <1>0
  <2>2. \A r \in Request : answers'[r] = IF r \in reqs[p] THEN 1 ELSE answers[r]
    BY <1>0, <1>3, <2>1 DEF AnswersAt, Answer
  <2>3. \A r \in reqs[p] : r \notin fresh' /\ \A x \in Place : r \notin reqs'[x]
    BY <1>3 DEF AnswersAt
  <2>4. \A x, y \in Place : x # y => reqs'[x] \cap reqs'[y] = {}
    BY <1>3 DEF AnswersAt
  <2>5. \A x \in Place : reqs'[x] \cap fresh' = {} BY <1>3 DEF AnswersAt
  <2>6. \A r \in Request : answers'[r] > 0 =>
            r \notin fresh' /\ \A x \in Place : r \notin reqs'[x]
    BY <1>0, <1>3, <2>2, <2>3 DEF AnswersAt
  <2>7. \A r \in Request : answers'[r] <= 1 BY <1>0, <2>2
  <2> QED BY <2>4, <2>5, <2>6, <2>7
<1>4. ASSUME NEW p \in Place, NEW r \in Request, Makes(p, r) PROVE RequestInv'
  <2>1. \A x \in Place : r \notin reqs[x] BY <1>4 DEF Makes
  <2>2. answers[r] = 0 BY <1>0, <1>4 DEF Makes
  <2>3. \A x, y \in Place : x # y => reqs'[x] \cap reqs'[y] = {}
    BY <1>4, <2>1 DEF Makes
  <2>4. \A x \in Place : reqs'[x] \cap fresh' = {} BY <1>4 DEF Makes
  <2>5. \A s \in Request : answers'[s] > 0 =>
            s \notin fresh' /\ \A x \in Place : s \notin reqs'[x]
    BY <1>4, <2>2 DEF Makes
  <2> QED BY <1>4, <2>3, <2>4, <2>5 DEF Makes
<1> QED BY <1>1, <1>2, <1>3, <1>4 DEF RequestStep

-----------------------------------------------------------------------------
(* The building blocks as request steps                                    *)

\* No two kinds of list of a connection or a thread are the same place.
LEMMA PlacesDiffer ==
  ASSUME NEW c \in ConnId, NEW t \in Thread
  PROVE  /\ InRequests(c) # InCall(t) /\ InPending(c) # InCall(t)
         /\ InRequests(c) # ToNotify(t) /\ InPending(c) # ToRetry(t)
         /\ InPending(c) # ToNotify(t) /\ ToRetry(t) # ToNotify(t)
         /\ ToRetry(t) # InCall(t)
BY DEF InRequests, InPending, InCall, ToNotify, ToRetry

\* A step that leaves the requests alone.
LEMMA SameStep == ASSUME UNCHANGED requests PROVE RequestStep
BY DEF requests, RequestStep, Shrinks

\* Drop: the caller's record is freed.
LEMMA DropStep ==
  ASSUME TypeOK, NEW p \in Place, Drop(p), UNCHANGED <<fresh, answers>>
  PROVE  RequestStep
<1>1. reqs \in [Place -> SUBSET Request] BY DEF TypeOK
<1>2. \A x \in Place : reqs'[x] \subseteq reqs[x] BY <1>1 DEF Drop
<1> QED BY <1>2 DEF RequestStep, Shrinks

\* Move: a list is spliced into another one.
LEMMA MoveStep ==
  ASSUME TypeOK, NEW p \in Place, NEW q \in Place, p # q, Move(p, q),
         UNCHANGED <<fresh, answers>>
  PROVE  RequestStep
<1>1. reqs \in [Place -> SUBSET Request] BY DEF TypeOK
<1>2. /\ \A x \in Place \ {p, q} : reqs'[x] \subseteq reqs[x]
      /\ reqs'[p] = {} /\ reqs'[q] = reqs[q] \cup reqs[p]
  BY <1>1 DEF Move
<1>3. Moves(p, q) BY <1>2 DEF Moves
<1> QED BY <1>3 DEF RequestStep

\* Answer and Drop: the callbacks of one list.
LEMMA AnswerStep ==
  ASSUME TypeOK, NEW p \in Place, Answer(p), Drop(p), fresh' = fresh
  PROVE  RequestStep
<1>1. reqs \in [Place -> SUBSET Request] BY DEF TypeOK
<1>2. \A x \in Place : reqs'[x] \subseteq reqs[x] BY <1>1 DEF Drop
<1>3. reqs'[p] = {} BY <1>1 DEF Drop
<1>4. AnswersAt(p) BY <1>2, <1>3 DEF AnswersAt
<1> QED BY <1>4 DEF RequestStep

\* Release frees the requests of a node with it.
LEMMA ReleaseStep ==
  ASSUME TypeOK, NEW c \in ConnId, Release(c), UNCHANGED <<fresh, answers>>
  PROVE  RequestStep
<1>1. reqs \in [Place -> SUBSET Request] BY DEF TypeOK
<1>2. \A x \in Place : reqs'[x] \subseteq reqs[x] BY <1>1 DEF Release
<1> QED BY <1>2 DEF RequestStep, Shrinks

\* DisconnectRetry and ResumeNext: the next waiting request is worked on.
LEMMA TakeStep ==
  ASSUME TypeOK, NEW t \in Thread, NEW r \in reqs[ToRetry(t)],
         reqs' = [reqs EXCEPT ![ToRetry(t)] = @ \ {r}, ![InCall(t)] = @ \cup {r}],
         RequestInOnePlace, UNCHANGED <<fresh, answers>>
  PROVE  RequestStep
<1> DEFINE p == ToRetry(t)  q == InCall(t)
<1>1. reqs \in [Place -> SUBSET Request] BY DEF TypeOK
<1>2. p \in Place /\ q \in Place BY Places
<1>3. p # q BY DEF ToRetry, InCall
<1>4. reqs[p] \cap reqs[q] = {} BY <1>2, <1>3 DEF RequestInOnePlace
<1> HIDE DEF p, q
<1>5. reqs' = [reqs EXCEPT ![p] = @ \ {r}, ![q] = @ \cup {r}] BY DEF p, q
<1>6. r \in reqs[p] BY DEF p
<1>7. \A x \in Place \ {p, q} : reqs'[x] \subseteq reqs[x] BY <1>1, <1>5
<1>8. reqs'[p] = reqs[p] \ {r} /\ reqs'[q] = reqs[q] \cup {r}
  BY <1>1, <1>2, <1>3, <1>5
<1>9. Moves(p, q) BY <1>3, <1>4, <1>6, <1>7, <1>8 DEF Moves
<1> QED BY <1>2, <1>9 DEF RequestStep

-----------------------------------------------------------------------------
(* Every action is a request step                                          *)

\* A thread's locals name a connection.
LEMMA LocalConn == ASSUME TypeOK, NEW t \in Thread PROVE loc[t].c \in ConnId
<1>1. loc[t] \in Locals BY DEF TypeOK
<1> QED BY <1>1 DEF Locals

\* ConnectDevice and PackRequest on any thread.
LEMMA ConnectRequestStep ==
  ASSUME TypeOK, NEW t \in Thread, ConnectStep(t)
  PROVE  RequestStep
<1>0. InCall(t) \in Place BY Places
<1>1. loc[t].c \in ConnId BY LocalConn
<1>2. \A c \in ConnId : /\ InRequests(c) \in Place /\ InPending(c) \in Place
                        /\ InCall(t) # InRequests(c) /\ InCall(t) # InPending(c)
  BY Places, PlacesDiffer
<1>3. CASE ConnectLock(t) BY <1>3, SameStep DEF ConnectLock
<1>4. CASE ConnectLookup(t) BY <1>4, SameStep DEF ConnectLookup
<1>5. CASE ConnectDeviceExist(t)
  <2>1. CASE Drop(InCall(t)) BY <1>0, <1>5, <2>1, DropStep DEF ConnectDeviceExist
  <2>2. CASE UNCHANGED reqs
    BY <1>5, <2>2, SameStep DEF ConnectDeviceExist, requests
  <2> QED BY <1>5, <2>1, <2>2 DEF ConnectDeviceExist
<1>6. CASE ExistRelease(t) BY <1>1, <1>6, ReleaseStep DEF ExistRelease
<1>7. CASE ExistAnswer(t) BY <1>0, <1>7, AnswerStep DEF ExistAnswer
<1>8. CASE ConnectDeviceStateConnecting(t)
  <2>1. CASE Drop(InCall(t))
    BY <1>0, <1>8, <2>1, DropStep DEF ConnectDeviceStateConnecting
  <2>2. CASE Move(InCall(t), InRequests(loc[t].c))
    BY <1>0, <1>1, <1>2, <1>8, <2>2, MoveStep DEF ConnectDeviceStateConnecting
  <2> QED BY <1>8, <2>1, <2>2 DEF ConnectDeviceStateConnecting
<1>9. CASE ConnectDeviceStateClosing(t)
  <2>1. CASE Drop(InCall(t))
    BY <1>0, <1>9, <2>1, DropStep DEF ConnectDeviceStateClosing
  <2>2. CASE Move(InCall(t), InPending(loc[t].c))
    BY <1>0, <1>1, <1>2, <1>9, <2>2, MoveStep DEF ConnectDeviceStateClosing
  <2> QED BY <1>9, <2>1, <2>2 DEF ConnectDeviceStateClosing
<1>10. CASE ConnectCount(t)
  <2>1. CASE Answer(InCall(t)) /\ Drop(InCall(t))
    BY <1>0, <1>10, <2>1, AnswerStep DEF ConnectCount
  <2>2. CASE UNCHANGED <<reqs, answers>>
    BY <1>10, <2>2, SameStep DEF ConnectCount, requests
  <2> QED BY <1>10, <2>1, <2>2 DEF ConnectCount
<1>11. CASE ConnectDeviceFirstTime(t)
  <2>1. nextId \in ConnId BY <1>11 DEF ConnectDeviceFirstTime, AddConnection
  <2> QED BY <1>0, <1>2, <1>11, <2>1, MoveStep DEF ConnectDeviceFirstTime
<1>12. CASE ConnectUnlock(t) BY <1>12, SameStep DEF ConnectUnlock
<1>13. CASE SetRefCount(t) BY <1>13, SameStep DEF SetRefCount
<1>14. CASE PostRequest(t) BY <1>14, SameStep DEF PostRequest
<1> QED
  BY <1>3, <1>4, <1>5, <1>6, <1>7, <1>8, <1>9, <1>10, <1>11, <1>12, <1>13, <1>14,
     ConnectStep(t)
  DEF ConnectStep

\* ClientNoticeResultBrConnect on any thread.
LEMMA NoticeRequestStep ==
  ASSUME TypeOK, NEW t \in Thread, NoticeStep(t)
  PROVE  RequestStep
<1>0. ToNotify(t) \in Place BY Places
<1>1. loc[t].c \in ConnId BY LocalConn
<1>2. /\ InRequests(loc[t].c) \in Place
      /\ InRequests(loc[t].c) # ToNotify(t)
  BY <1>1, Places, PlacesDiffer
<1>3. CASE NoticeClosing(t) BY <1>3, SameStep DEF NoticeClosing
<1>4. CASE NoticeTake(t) BY <1>0, <1>2, <1>4, MoveStep DEF NoticeTake
<1>5. CASE DeviceConnectPackRequest(t) BY <1>5, SameStep DEF DeviceConnectPackRequest
<1>6. CASE NoticeAnswer(t) BY <1>0, <1>6, AnswerStep DEF NoticeAnswer
<1>7. CASE NoticeRelease(t)
  <2>1. CASE Release(loc[t].c) BY <1>1, <1>7, <2>1, ReleaseStep DEF NoticeRelease
  <2>2. CASE UNCHANGED reqs BY <1>7, <2>2, SameStep DEF NoticeRelease, requests
  <2> QED BY <1>7, <2>1, <2>2 DEF NoticeRelease
<1> QED BY <1>3, <1>4, <1>5, <1>6, <1>7, NoticeStep(t) DEF NoticeStep

\* BrDisconnect on any thread.
LEMMA DisconnectRequestStep ==
  ASSUME TypeOK, RequestInOnePlace, NEW t \in Thread, DisconnectStep(t)
  PROVE  RequestStep
<1>0. ToNotify(t) \in Place /\ ToRetry(t) \in Place BY Places
<1>1. loc[t].c \in ConnId BY LocalConn
<1> DEFINE c == loc[t].c
<1>2. /\ InRequests(c) \in Place /\ InPending(c) \in Place
      /\ InRequests(c) # ToNotify(t) /\ InPending(c) # ToNotify(t)
      /\ InPending(c) # ToRetry(t) /\ ToRetry(t) # ToNotify(t)
  BY <1>1, Places, PlacesDiffer
<1>3. CASE DisconnectSetState(t) BY <1>3, SameStep DEF DisconnectSetState
<1>4. CASE DisconnectTakeRequests(t)
  BY <1>0, <1>2, <1>4, MoveStep DEF DisconnectTakeRequests
<1>5. CASE DisconnectTakePending(t)
  <2>1. CASE Move(InPending(c), ToRetry(t))
    BY <1>0, <1>2, <1>5, <2>1, MoveStep DEF DisconnectTakePending
  <2>2. CASE reqs' = [reqs EXCEPT ![InPending(c)] = {}, ![ToNotify(t)] = {},
                                  ![ToRetry(t)] = @ \cup reqs[InPending(c)]]
    <3> DEFINE p == InPending(c)  q == ToRetry(t)  n == ToNotify(t)
    <3>1. reqs \in [Place -> SUBSET Request] BY DEF TypeOK
    <3>2. /\ p \in Place /\ q \in Place /\ n \in Place /\ p # q /\ p # n /\ q # n
          /\ reqs' = [reqs EXCEPT ![p] = {}, ![n] = {}, ![q] = @ \cup reqs[p]]
      BY <1>0, <1>2, <2>2
    <3> HIDE DEF p, q, n
    <3>3. /\ \A x \in Place \ {p, q} : reqs'[x] \subseteq reqs[x]
          /\ reqs'[p] = {} /\ reqs'[q] = reqs[q] \cup reqs[p]
      BY <3>1, <3>2
    <3>4. Moves(p, q) BY <1>5, <3>2, <3>3 DEF Moves, DisconnectTakePending
    <3> QED BY <3>2, <3>4 DEF RequestStep
  <2> QED BY <1>5, <2>1, <2>2 DEF DisconnectTakePending
<1>6. CASE NotifyDisconnect(t) BY <1>0, <1>6, AnswerStep DEF NotifyDisconnect
<1>7. CASE DisconnectRelease(t)
  <2>1. CASE Release(loc[t].c) BY <1>1, <1>7, <2>1, ReleaseStep DEF DisconnectRelease
  <2>2. CASE UNCHANGED reqs BY <1>7, <2>2, SameStep DEF DisconnectRelease, requests
  <2> QED BY <1>7, <2>1, <2>2 DEF DisconnectRelease
<1>8. CASE DisconnectRetry(t)
  <2>1. CASE UNCHANGED reqs BY <1>8, <2>1, SameStep DEF DisconnectRetry, requests
  <2>2. CASE \E r \in reqs[ToRetry(t)] :
               reqs' = [reqs EXCEPT ![ToRetry(t)] = @ \ {r}, ![InCall(t)] = @ \cup {r}]
    BY <1>8, <2>2, TakeStep DEF DisconnectRetry
  <2> QED BY <1>8, <2>1, <2>2 DEF DisconnectRetry
<1> QED BY <1>3, <1>4, <1>5, <1>6, <1>7, <1>8, DisconnectStep(t) DEF DisconnectStep

\* The read threads.
LEMMA ReaderRequestStep ==
  ASSUME TypeOK, RequestInOnePlace, NEW c \in ConnId, ReaderStep(c)
  PROVE  RequestStep
<1>0. Reader(c) \in Thread BY Places
<1>1. CASE ClientStart(c) BY <1>1, SameStep DEF ClientStart
<1>2. CASE ClientConnected(c) BY <1>2, SameStep DEF ClientConnected
<1>3. CASE ClientConnectFails(c) BY <1>3, ReleaseStep DEF ClientConnectFails
<1>4. CASE ClientCheckState(c)
  <2>1. CASE Release(c) BY <1>4, <2>1, ReleaseStep DEF ClientCheckState
  <2>2. CASE UNCHANGED reqs BY <1>4, <2>2, SameStep DEF ClientCheckState, requests
  <2> QED BY <1>4, <2>1, <2>2 DEF ClientCheckState
<1>5. CASE ClientSetConnected(c) BY <1>5, SameStep DEF ClientSetConnected
<1>6. CASE ClientConnectRelease(c) BY <1>6, ReleaseStep DEF ClientConnectRelease
<1>7. CASE NoticeStep(Reader(c)) BY <1>0, <1>7, NoticeRequestStep
<1>8. CASE ReadBegin(c) BY <1>8, SameStep DEF ReadBegin
<1>9. CASE ReadFails(c) BY <1>9, ReleaseStep DEF ReadFails
<1>10. CASE ReaderDisconnects(c) BY <1>10, SameStep DEF ReaderDisconnects
<1>11. CASE DisconnectStep(Reader(c)) BY <1>0, <1>11, DisconnectRequestStep
<1>12. CASE ConnectStep(Reader(c)) BY <1>0, <1>12, ConnectRequestStep
<1> QED
  BY <1>1, <1>2, <1>3, <1>4, <1>5, <1>6, <1>7, <1>8, <1>9, <1>10, <1>11, <1>12
  DEF ReaderStep

\* BrConnMsgHandler.
LEMMA LooperRequestStep ==
  ASSUME TypeOK, RequestInOnePlace, LooperStep
  PROVE  RequestStep
<1>0. Looper \in Thread BY Places
<1>1. loc[Looper].c \in ConnId BY <1>0, LocalConn
<1>2. CASE HandleClientConnected BY <1>2, SameStep DEF HandleClientConnected
<1>3. CASE HandleServiceConnected BY <1>3, SameStep DEF HandleServiceConnected
<1>4. CASE HandleDisconnected BY <1>4, SameStep DEF HandleDisconnected
<1>5. CASE HandleResponse BY <1>5, SameStep DEF HandleResponse
<1>6. CASE HandleRequest BY <1>6, SameStep DEF HandleRequest
<1>7. CASE RequestReadCount BY <1>7, SameStep DEF RequestReadCount
<1>8. CASE RequestWriteCount BY <1>8, SameStep DEF RequestWriteCount
<1>9. CASE RequestRelease BY <1>1, <1>9, ReleaseStep DEF RequestRelease
<1>10. CASE RequestClosing BY <1>10, SameStep DEF RequestClosing
<1>11. CASE RequestRespond BY <1>11, SameStep DEF RequestRespond
<1>12. CASE ResumeConnection
  <2>1. CASE Move(InPending(loc[Looper].c), ToRetry(Looper))
    <3>1. /\ InPending(loc[Looper].c) \in Place /\ ToRetry(Looper) \in Place
          /\ InPending(loc[Looper].c) # ToRetry(Looper)
      BY <1>0, <1>1, Places, PlacesDiffer
    <3> QED BY <1>12, <2>1, <3>1, MoveStep DEF ResumeConnection
  <2>2. CASE UNCHANGED reqs BY <1>12, <2>2, SameStep DEF ResumeConnection, requests
  <2> QED BY <1>12, <2>1, <2>2 DEF ResumeConnection
<1>13. CASE ResumeNext
  <2>1. CASE UNCHANGED reqs BY <1>13, <2>1, SameStep DEF ResumeNext, requests
  <2>2. CASE \E r \in reqs[ToRetry(Looper)] :
               reqs' = [reqs EXCEPT ![ToRetry(Looper)] = @ \ {r},
                                    ![InCall(Looper)] = @ \cup {r}]
    BY <1>0, <1>13, <2>2, TakeStep DEF ResumeNext
  <2> QED BY <1>13, <2>1, <2>2 DEF ResumeNext
<1>14. CASE NoticeStep(Looper) BY <1>0, <1>14, NoticeRequestStep
<1>15. CASE DisconnectStep(Looper) BY <1>0, <1>15, DisconnectRequestStep
<1>16. CASE ConnectStep(Looper) BY <1>0, <1>16, ConnectRequestStep
<1>17. CASE \E c \in ConnId : ClosingTimeout(c) BY <1>17, SameStep DEF ClosingTimeout
<1> QED
  BY <1>2, <1>3, <1>4, <1>5, <1>6, <1>7, <1>8, <1>9, <1>10, <1>11, <1>12, <1>13,
     <1>14, <1>15, <1>16, <1>17
  DEF LooperStep

\* The callers' threads; CallConnectDevice is the one step that makes a request.
LEMMA AppRequestStep ==
  ASSUME TypeOK, NEW t \in Apps, AppCall(t) \/ AppStep(t)
  PROVE  RequestStep
<1>0. t \in Thread /\ InCall(t) \in Place BY Places
<1>1. ASSUME NEW r \in Request, NEW m \in Mac, NEW s \in OptionSide,
             CallConnectDevice(t, r, m, s)
      PROVE  RequestStep
  <2>1. reqs \in [Place -> SUBSET Request] BY DEF TypeOK
  <2>2. reqs' = [reqs EXCEPT ![InCall(t)] = @ \cup {r}] BY <1>1 DEF CallConnectDevice
  <2>3. Makes(InCall(t), r) BY <1>0, <1>1, <2>1, <2>2 DEF CallConnectDevice, Makes
  <2> QED BY <1>0, <2>3 DEF RequestStep
<1>2. ASSUME NEW c \in ConnId, DisconnectDevice(t, c) \/ PostBytes(t, c)
      PROVE  RequestStep
  BY <1>2, SameStep DEF DisconnectDevice, PostBytes
<1>3. ASSUME NEW m \in Mac, DisconnectDeviceNow(t, m) PROVE RequestStep
  BY <1>3, SameStep DEF DisconnectDeviceNow
<1>4. CASE ConnectStep(t) BY <1>0, <1>4, ConnectRequestStep
<1>5. CASE PostDisconnected(t) BY <1>5, SameStep DEF PostDisconnected
<1> QED BY <1>1, <1>2, <1>3, <1>4, <1>5 DEF AppCall, AppStep

\* The send thread, the accept thread and the peers.
LEMMA OtherRequestStep ==
  ASSUME TypeOK, SenderStep \/ Environment
  PROVE  RequestStep
<1>0. loc[Sender].c \in ConnId BY Places, LocalConn
<1>1. CASE SendEnd BY <1>0, <1>1, ReleaseStep DEF SendEnd
<1>2. CASE \E c \in ConnId : SendBegin(c) BY <1>2, SameStep DEF SendBegin
<1>3. CASE \E m \in Mac : Accept(m) BY <1>3, SameStep DEF Accept
<1>4. CASE \E f \in Fd : PeerClose(f) BY <1>4, SameStep DEF PeerClose
<1>5. CASE \E c \in ConnId, f \in PeerFrame : ReadFrame(c, f)
  BY <1>5, ReleaseStep DEF ReadFrame
<1> QED BY <1>1, <1>2, <1>3, <1>4, <1>5 DEF SenderStep, Environment

\* Each request is in one list at a time, and in none once it was answered.
THEOREM RequestPlaces == Spec => []RequestInv
<1>1. Init => RequestInv
  <2> SUFFICES ASSUME Init PROVE RequestInv OBVIOUS
  <2>1. /\ \A p \in Place : reqs[p] = {}
        /\ \A r \in Request : answers[r] = 0
    BY DEF Init
  <2> QED BY <2>1 DEF RequestInv, RequestInOnePlace, AnsweredAtMostOnce, InList
<1>2. TypeOK /\ TypeOK' /\ RequestInv /\ [Next]_vars => RequestInv'
  <2> SUFFICES ASSUME TypeOK, TypeOK', RequestInv, [Next]_vars PROVE RequestInv' OBVIOUS
  <2>0. RequestInOnePlace BY DEF RequestInv
  <2>1. CASE UNCHANGED vars
    <3>1. UNCHANGED requests BY <2>1 DEF vars, requests
    <3> QED BY <3>1, SameStep, RequestStepInv
  <2>2. CASE Next
    <3>1. ASSUME NEW t \in Apps, AppCall(t) \/ AppStep(t) PROVE RequestStep
      BY <3>1, AppRequestStep
    <3>2. ASSUME NEW c \in ConnId, ReaderStep(c) PROVE RequestStep
      BY <2>0, <3>2, ReaderRequestStep
    <3>3. LooperStep => RequestStep BY <2>0, LooperRequestStep
    <3>4. SenderStep \/ Environment => RequestStep BY OtherRequestStep
    <3>5. RequestStep BY <2>2, <3>1, <3>2, <3>3, <3>4 DEF Next
    <3> QED BY <3>5, RequestStepInv
  <2> QED BY <2>1, <2>2
<1> QED BY <1>1, <1>2, TypeCorrect, PTL DEF Spec

\* A caller of ConnectDevice hears of its request at most once: whichever of
\* ClientNoticeResultBrConnect, NotifyDisconnect, ConnectDeviceExist and the
\* count check of ConnectDevice answers, none of the others does.
THEOREM AnsweredOnce == Spec => []AnsweredAtMostOnce
<1>1. RequestInv => AnsweredAtMostOnce BY DEF RequestInv
<1> QED BY <1>1, RequestPlaces, PTL

\* A RequestInfo is in one list at a time.
THEOREM InOnePlace == Spec => []RequestInOnePlace
<1>1. RequestInv => RequestInOnePlace BY DEF RequestInv
<1> QED BY <1>1, RequestPlaces, PTL
=============================================================================
