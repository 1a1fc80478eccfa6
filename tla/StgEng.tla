-------------------------------- MODULE StgEng --------------------------------
(***************************************************************************)
(* A strategy engine (StgEngImpl, StgInstTaskHandlerImpl, WebSrvTaskHandler): *)
(* how it starts and ends, the orders and cancellations that its instances   *)
(* and the users of the web server place, the returns it gets, what it tells *)
(* the risk manager and the database, and the answers users wait for         *)
(* (CommonInterface, ReqBody2CallbackGroup, the web's StgEngTaskHandler).    *)
(***************************************************************************)
EXTENDS Naturals, Sequences, FiniteSets

CONSTANTS
  StgInst,     \* instances; 1 is one of them
  Deletable,   \* those that are deleted while the engine runs
  Thread,      \* threads of stgInstTaskDispatcher: 0 .. n - 1
  Web,         \* the thread that messages of the web server come in
  Ord, InstOf, \* orders and the instances they are of
  Manual,      \* orders users place; strategies give theirs a random number
  Req, BodyOf, \* requests of users: <<"order" or "cancel", an order>>
  NoReq,
  MaxKills,    \* the engine is killed so many times
  MaxStarts,   \* and is started so many times
  MaxCancels   \* strategies cancel so many times

ASSUME ThreadsOfEng == 1 \in StgInst /\ \E n \in 1 .. 8 : Thread = 0 .. (n - 1)
ASSUME OrdersApart ==
  /\ Manual \subseteq Ord /\ NoReq \notin Req /\ Web \notin Thread
  /\ InstOf \in [Ord -> StgInst] /\ BodyOf \in [Req -> {"order", "cancel"} \X Ord]

Actor == Thread \cup {Web}

VARIABLES
  engMain,       \* "down", "init", "barrier", "running", "exit" or "drain"
  connected,     \* its clients of the trade server, the risk manager and the web server run
  stgInstInfo,   \* tblMonitorOfStgInstInfo
  queueOfInst,   \* thread -> tasks
  doingOfEng,    \* actor -> the order or cancellation it is in the middle of
  ordMgr,        \* order -> "none", "open" or "closed": what this engine knows of it
  syncTaskGroup, syncing, \* {<<"order" or "cancel", order>>}
  row,           \* order -> "none", "open" or "closed": the database
  toTDSrv,       \* what the trade server was sent, ever
  told,          \* what the risk manager was told, ever
  webMsgs,       \* requests the web server sent and the engine has not handled
  rsps,          \* bodies of the answers on their way to the web server
  reqState,      \* request -> "new", "waiting" or "answered"
  reqBody2CallbackGroup, \* {<<body, request>>}
  bounds,        \* starts, kills, cancellations by strategies so far
  forgotten,     \* sent by an engine that ended before its sync task was handled
  reused,        \* placed again after the engine had forgotten it or seen it closed
  crossed,       \* cancelled before it was sent
  unanswerable   \* requests with the body of one that is waiting, or whose engine was not
                 \* there or ended before it answered

engVars == <<engMain, connected, stgInstInfo, queueOfInst, doingOfEng, ordMgr, syncTaskGroup, syncing, row,
             toTDSrv, told, webMsgs, rsps, reqState, reqBody2CallbackGroup, bounds, forgotten, reused,
             crossed, unanswerable>>

webVars == <<webMsgs, rsps, reqState, reqBody2CallbackGroup, unanswerable>>
ghostVars == <<forgotten, reused, crossed>>

NoDoing == [pc |-> "none", what |-> <<>>, req |-> NoReq]
threadOf(i) == (i - 1) % Cardinality(Thread)
InstOfTask(task) == IF task[1] = "start" THEN 1 ELSE InstOf[task[2]]
dispatch(q, task) == [q EXCEPT ![threadOf(InstOfTask(task))] = Append(@, task)]

NoQueue == [t \in Thread |-> <<>>]
NothingDone == [a \in Actor |-> NoDoing]

EngInit ==
  /\ engMain = "down" /\ connected = FALSE
  /\ stgInstInfo = StgInst
  /\ queueOfInst = NoQueue /\ doingOfEng = NothingDone
  /\ ordMgr = [o \in Ord |-> "none"] /\ row = [o \in Ord |-> "none"]
  /\ syncTaskGroup = {} /\ syncing = {} /\ toTDSrv = <<>> /\ told = {}
  /\ webMsgs = <<>> /\ rsps = <<>>
  /\ reqState = [r \in Req |-> "new"] /\ reqBody2CallbackGroup = {}
  /\ bounds = [starts |-> 0, kills |-> 0, cancels |-> 0]
  /\ forgotten = {} /\ reused = {} /\ crossed = {} /\ unanswerable = {}

\* What the trade server was sent in an order's lifetime.
SentOf(o) == {n \in 1 .. Len(toTDSrv) : toTDSrv[n] = <<"order", o>>}

-----------------------------------------------------------------------------
\* doInit: the order manager is filled with the open orders of the database.
doInit ==
  /\ engMain = "down" /\ bounds.starts < MaxStarts
  /\ engMain' = "init"
  /\ bounds' = [bounds EXCEPT !.starts = @ + 1]
  /\ ordMgr' = [o \in Ord |-> IF row[o] = "open" THEN "open" ELSE "none"]
  /\ UNCHANGED <<connected, stgInstInfo, queueOfInst, doingOfEng, syncTaskGroup, syncing, row, toTDSrv, told,
                 webVars, ghostVars>>

\* doRun: without an instance 1 the engine does not start; else the dispatcher and the clients
\* run, and the main thread waits for instance 1 to have handled the start signal.
doRun ==
  /\ engMain = "init"
  /\ IF 1 \in stgInstInfo
     THEN /\ engMain' = "barrier" /\ connected' = TRUE
          /\ queueOfInst' = dispatch(queueOfInst, <<"start">>)
     ELSE engMain' = "down" /\ UNCHANGED <<connected, queueOfInst>>
  /\ UNCHANGED <<stgInstInfo, doingOfEng, ordMgr, syncTaskGroup, syncing, row, toTDSrv, told, webVars, bounds,
                 ghostVars>>

\* TBLMonitorOfStgInstInfo: a user deletes an instance while the engine runs.
StgInstIsDeleted(i) ==
  /\ i \in stgInstInfo \cap Deletable /\ engMain # "down"
  /\ stgInstInfo' = stgInstInfo \ {i}
  /\ UNCHANGED <<engMain, connected, queueOfInst, doingOfEng, ordMgr, syncTaskGroup, syncing, row, toTDSrv,
                 told, webVars, bounds, ghostVars>>

\* What an engine that ends leaves behind: orders it sent and did not write, requests it did
\* not answer.
Ends ==
  /\ engMain' = "down" /\ connected' = FALSE
  /\ queueOfInst' = NoQueue /\ doingOfEng' = NothingDone
  /\ syncTaskGroup' = {} /\ syncing' = {}
  /\ webMsgs' = <<>> /\ rsps' = <<>>
  /\ forgotten' = forgotten \cup {o \in Ord : SentOf(o) # {} /\ (row[o] = "none" \/ <<"order", o>> \notin told)}
  /\ unanswerable' = unanswerable \cup {r \in Req : reqState[r] = "waiting"}
  /\ UNCHANGED <<stgInstInfo, ordMgr, row, toTDSrv, told, reqState, reqBody2CallbackGroup, reused, crossed>>

KillEng ==
  /\ engMain # "down" /\ bounds.kills < MaxKills
  /\ bounds' = [bounds EXCEPT !.kills = @ + 1]
  /\ Ends

-----------------------------------------------------------------------------
Calls(a) == doingOfEng[a].pc = "none"
Begin(a, pc, what, r) == doingOfEng' = [doingOfEng EXCEPT ![a] = [pc |-> pc, what |-> what, req |-> r]]
\* Mutant: what is refused is not answered.
AnswersSuccess(a, r) == rsps' = IF a = Web /\ doingOfEng[a].pc = "cache" THEN Append(rsps, BodyOf[r]) ELSE rsps
Answer(a, r) == rsps' = IF a = Web THEN Append(rsps, BodyOf[r]) ELSE rsps

\* order and cancelOrder check the instance and ask the order manager, ...
order(a, o, r) ==
  IF InstOf[o] \in stgInstInfo /\ ordMgr[o] # "open"
  THEN /\ ordMgr' = [ordMgr EXCEPT ![o] = "open"]
       /\ reused' = IF SentOf(o) # {} THEN reused \cup {o} ELSE reused
       /\ Begin(a, "send", <<"order", o>>, r)
       /\ UNCHANGED <<crossed, rsps>>
  ELSE Answer(a, r) /\ UNCHANGED <<ordMgr, reused, crossed, doingOfEng>>

cancelOrder(a, o, r) ==
  IF ordMgr[o] = "open"
  THEN /\ Begin(a, "send", <<"cancel", o>>, r)
       /\ crossed' = IF \E b \in Actor : doingOfEng[b].pc = "send" /\ doingOfEng[b].what = <<"order", o>>
                     THEN crossed \cup {o} ELSE crossed
       /\ UNCHANGED <<ordMgr, reused, rsps>>
  ELSE Answer(a, r) /\ UNCHANGED <<ordMgr, reused, crossed, doingOfEng>>

\* ... send, ...
asyncSendMsgWithZeroCopy(a) ==
  /\ doingOfEng[a].pc = "send" /\ connected
  /\ toTDSrv' = Append(toTDSrv, doingOfEng[a].what)
  /\ doingOfEng' = [doingOfEng EXCEPT ![a].pc = "cache"]
  /\ UNCHANGED <<engMain, connected, stgInstInfo, queueOfInst, ordMgr, syncTaskGroup, syncing, row, told,
                 webVars, bounds, ghostVars>>

\* ... which an engine whose clients have been stopped does not survive, ...
SendsThroughNoClient(a) ==
  /\ doingOfEng[a].pc = "send" /\ ~connected
  /\ Ends /\ UNCHANGED bounds

\* ... leave a sync task, and the web server is answered.
cacheSyncTaskGroup(a) ==
  /\ doingOfEng[a].pc = "cache"
  /\ syncTaskGroup' = syncTaskGroup \cup {doingOfEng[a].what}
  /\ Answer(a, doingOfEng[a].req)
  /\ doingOfEng' = [doingOfEng EXCEPT ![a] = NoDoing]
  /\ UNCHANGED <<engMain, connected, stgInstInfo, queueOfInst, ordMgr, syncing, row, toTDSrv, told, webMsgs,
                 reqState, reqBody2CallbackGroup, bounds, unanswerable, ghostVars>>

Works == engMain \in {"barrier", "running", "exit", "drain"}

\* A callback of an instance places an order or cancels one; StgEngImpl::order numbers it.
CallbackOrders(t, o) ==
  /\ Works /\ Calls(t) /\ t = threadOf(InstOf[o])
  /\ o \notin Manual /\ ordMgr[o] = "none" /\ row[o] = "none" /\ SentOf(o) = {}
  /\ \A b \in Actor : doingOfEng[b].what # <<"order", o>>
  /\ order(t, o, NoReq)
  /\ UNCHANGED <<engMain, connected, stgInstInfo, queueOfInst, syncTaskGroup, syncing, row, toTDSrv, told,
                 webMsgs, reqState, reqBody2CallbackGroup, bounds, forgotten, unanswerable>>

CallbackCancels(t, o) ==
  /\ Works /\ Calls(t)
  /\ bounds.cancels < MaxCancels /\ bounds' = [bounds EXCEPT !.cancels = @ + 1]
  /\ cancelOrder(t, o, NoReq)
  /\ UNCHANGED <<engMain, connected, stgInstInfo, queueOfInst, syncTaskGroup, syncing, row, toTDSrv, told,
                 webMsgs, reqState, reqBody2CallbackGroup, forgotten, unanswerable>>

\* handleAsyncTask: a task of an instance that is gone is dropped, the start signal of
\* instance 1 lets the main thread go on, and a return reaches the order manager.
handleAsyncTask(t) ==
  /\ Works /\ Calls(t) /\ queueOfInst[t] # <<>>
  /\ queueOfInst' = [queueOfInst EXCEPT ![t] = Tail(@)]
  /\ \E task \in {Head(queueOfInst[t])} :
       IF InstOfTask(task) \notin stgInstInfo
       THEN UNCHANGED <<engMain, ordMgr>>
       ELSE IF task[1] = "start"
       THEN /\ engMain' = IF engMain = "barrier" THEN "running" ELSE engMain
            /\ UNCHANGED ordMgr
       ELSE /\ ordMgr' = [ordMgr EXCEPT ![task[2]] = IF @ = "open" THEN "closed" ELSE @]
            /\ UNCHANGED engMain
  /\ UNCHANGED <<connected, stgInstInfo, doingOfEng, syncTaskGroup, syncing, row, toTDSrv, told, webVars, bounds,
                 ghostVars>>

-----------------------------------------------------------------------------
\* handleSyncTaskGroup of the scheduler: the group is swapped and the risk manager told, ...
handleSyncTaskGroup ==
  /\ engMain = "running" /\ syncing = {} /\ syncTaskGroup # {}
  /\ syncing' = syncTaskGroup /\ syncTaskGroup' = {}
  /\ told' = told \cup syncTaskGroup
  /\ UNCHANGED <<engMain, connected, stgInstInfo, queueOfInst, doingOfEng, ordMgr, row, toTDSrv, webVars, bounds,
                 ghostVars>>

\* ... then the database, which may know more of the order from the gateway by now.
SyncToDB ==
  /\ syncing # {} /\ syncing' = {}
  /\ row' = [o \in Ord |-> IF <<"order", o>> \in syncing /\ row[o] = "none" THEN "open" ELSE row[o]]
  /\ UNCHANGED <<engMain, connected, stgInstInfo, queueOfInst, doingOfEng, ordMgr, syncTaskGroup, toTDSrv, told,
                 webVars, bounds, ghostVars>>

\* The trade server and the gateway finish an order and write its row; the return goes to the
\* engine when there is one.
TDSrvFinishes(o) ==
  /\ SentOf(o) # {} /\ row[o] # "closed"
  /\ row' = [row EXCEPT ![o] = "closed"]
  /\ queueOfInst' = IF connected THEN dispatch(queueOfInst, <<"ret", o>>) ELSE queueOfInst
  /\ UNCHANGED <<engMain, connected, stgInstInfo, doingOfEng, ordMgr, syncTaskGroup, syncing, toTDSrv, told,
                 webVars, bounds, ghostVars>>

-----------------------------------------------------------------------------
\* doExit: the schedulers are stopped, ...
doExit ==
  /\ engMain = "running" /\ syncing = {}
  /\ engMain' = "exit"
  /\ UNCHANGED <<connected, stgInstInfo, queueOfInst, doingOfEng, ordMgr, syncTaskGroup, syncing, row, toTDSrv,
                 told, webVars, bounds, ghostVars>>

\* ... then the clients (what a client has not read is lost), ...
StopClients ==
  /\ engMain = "exit" /\ Calls(Web)
  /\ engMain' = "drain" /\ connected' = FALSE
  /\ webMsgs' = <<>>
  /\ unanswerable' = unanswerable \cup {webMsgs[n] : n \in 1 .. Len(webMsgs)}
  /\ UNCHANGED <<stgInstInfo, queueOfInst, doingOfEng, ordMgr, syncTaskGroup, syncing, row, toTDSrv, told, rsps,
                 reqState, reqBody2CallbackGroup, bounds, ghostVars>>

\* ... and the dispatcher, which handles what it has.
DispatcherStopped ==
  /\ engMain = "drain" /\ queueOfInst = NoQueue /\ doingOfEng = NothingDone
  /\ Ends /\ UNCHANGED bounds

-----------------------------------------------------------------------------
\* handleMsgOrder and handleMsgCancelOrder: the callback is kept under the body of the request
\* (emplace: of the first of two), and the request sent to the engine there is.
handleMsgOrder(r) ==
  /\ reqState[r] = "new"
  /\ reqState' = [reqState EXCEPT ![r] = "waiting"]
  /\ \E kept \in {\A rec \in reqBody2CallbackGroup : rec[1] # BodyOf[r]} :
       /\ reqBody2CallbackGroup' = reqBody2CallbackGroup \cup (IF kept THEN {<<BodyOf[r], r>>} ELSE {})
       /\ unanswerable' = IF kept /\ connected THEN unanswerable ELSE unanswerable \cup {r}
  /\ webMsgs' = IF connected THEN Append(webMsgs, r) ELSE webMsgs
  /\ UNCHANGED <<engMain, connected, stgInstInfo, queueOfInst, doingOfEng, ordMgr, syncTaskGroup, syncing, row,
                 toTDSrv, told, rsps, bounds, ghostVars>>

\* handleStgManualOrder and handleStgManualCancelOrder.
handleStgManualOrder ==
  /\ connected /\ Calls(Web) /\ webMsgs # <<>>
  /\ webMsgs' = Tail(webMsgs)
  /\ \E r \in {Head(webMsgs)} :
       IF BodyOf[r][1] = "order" THEN order(Web, BodyOf[r][2], r) ELSE cancelOrder(Web, BodyOf[r][2], r)
  /\ UNCHANGED <<engMain, connected, stgInstInfo, queueOfInst, syncTaskGroup, syncing, row, toTDSrv, told,
                 reqState, reqBody2CallbackGroup, bounds, forgotten, unanswerable>>

\* handleMsgIdOnManualOrderRet and handleMsgIdOnManualCancelOrderRet: getCallback takes the
\* callback kept under the body of the answer, if there is one.
handleMsgIdOnManualOrderRet ==
  /\ rsps # <<>> /\ rsps' = Tail(rsps)
  /\ \E kept \in {{rec \in reqBody2CallbackGroup : rec[1] = Head(rsps)}} :
       /\ reqBody2CallbackGroup' = reqBody2CallbackGroup \ kept
       /\ reqState' = [r \in Req |-> IF <<Head(rsps), r>> \in kept THEN "answered" ELSE reqState[r]]
  /\ UNCHANGED <<engMain, connected, stgInstInfo, queueOfInst, doingOfEng, ordMgr, syncTaskGroup, syncing, row,
                 toTDSrv, told, webMsgs, bounds, unanswerable, ghostVars>>

-----------------------------------------------------------------------------
EngCallbacks ==
  \/ \E t \in Thread, o \in Ord : CallbackOrders(t, o) \/ CallbackCancels(t, o)
  \/ \E i \in StgInst : StgInstIsDeleted(i)

EngRequests ==
  \/ \E r \in Req : handleMsgOrder(r)
  \/ handleStgManualOrder \/ handleMsgIdOnManualOrderRet

\* What the threads that are there do.
EngWorks ==
  \/ doRun \/ handleSyncTaskGroup \/ SyncToDB \/ StopClients \/ DispatcherStopped
  \/ \E t \in Thread : handleAsyncTask(t)
  \/ \E a \in Actor : asyncSendMsgWithZeroCopy(a) \/ SendsThroughNoClient(a) \/ cacheSyncTaskGroup(a)

EngCommon ==
  \/ doInit \/ KillEng \/ doExit \/ EngWorks
  \/ \E o \in Ord : TDSrvFinishes(o)

EngProceeds == EngWorks \/ handleStgManualOrder \/ handleMsgIdOnManualOrderRet

-----------------------------------------------------------------------------
\* The trade server is sent an order once, unless it is placed again after the engine forgot
\* it or saw it closed (a user's request carries the number of the order), and a cancellation
\* only after its order, unless it was cancelled in another thread between add and send.
SentOnce ==
  /\ \A o \in Ord \ reused : Cardinality(SentOf(o)) <= 1
  /\ \A n \in 1 .. Len(toTDSrv) :
       toTDSrv[n][1] = "cancel" /\ toTDSrv[n][2] \notin crossed => \E m \in SentOf(toTDSrv[n][2]) : m < n

\* The start signal was dropped with instance 1: the main thread waits for good.
StuckAtBarrier == engMain = "barrier" /\ 1 \notin stgInstInfo
=============================================================================
