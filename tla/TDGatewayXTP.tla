---------------------------- MODULE TDGatewayXTP ----------------------------
(***************************************************************************)
(* The gateway to XTP (bqtd-xtp on bqtd-svc-base-cn), with the database it *)
(* flushes its orders to and loads them from after a crash.                *)
(*                                                                         *)
(*   order thread      OnOrder, OnCancelOrder                              *)
(*   query thread      gives up or asks about an order the scheduler found *)
(*   XTP's thread      the callbacks, and OnDisconnected, which logs in    *)
(*                     until XTP takes it and calls nothing else meanwhile *)
(*   scheduler         SyncUnclosedOrders, HandleSyncTaskGroup             *)
(*                                                                         *)
(* A return finds its order by the client id, in the relation kept in      *)
(* shared memory.  XTP says that an order ended by an order return and     *)
(* what was dealt by trade returns; the order return of a partly dealt     *)
(* order, and the answer to a query, say what was dealt in all.  What XTP  *)
(* says while the session is down is lost.                                 *)
(*                                                                         *)
(* An answer is believed when the order changed secAgoTheOrderCouldBeSync  *)
(* (30 s) ago: by then the returns that were on their way when it was made *)
(* have come or are lost.  Order returns the handler only logs are left    *)
(* out, and so is the sending to the trade server, see TDGateway.  A deal  *)
(* is one lot.                                                             *)
(***************************************************************************)
EXTENDS OrderGroup, FiniteSets

CONSTANTS
  Side,             \* the sides orders may have
  OutOfOrder,       \* may the callbacks come in another order than XTP's events?
  MaxDisconnects,   \* bound: how often the connection may break
  MaxCrashes        \* bound: how often the gateway may crash

\* What the constants are; a module that instantiates this one assumes it.
TDGatewayXTPAssumption ==
  Side \subseteq {"Bid", "Ask"} /\ OutOfOrder \in BOOLEAN /\ {MaxDisconnects, MaxCrashes} \subseteq Nat

NoOrder == [orderId |-> Unset]
NoAnswer == [status |-> "none", dealt |-> 0, awaited |-> 0]

VARIABLES
  ordMgr,       \* the order manager
  used,         \* the orders the gateway was given
  rel,          \* rel[id]: where the relation of its client id is
  session,      \* is sessionId_ one that XTP takes?
  request,      \* request[id]: what waits for the query thread
  syncTasks,    \* syncTasks[id]: the order as last queued for the database, or NoOrder
  db,           \* db[id]: its row, or NoOrder
  exch,         \* exch[id]: what XTP knows: status, size, size dealt
  cancel,       \* cancel[id]: where its cancellation is
  stream,       \* stream[id]: the order and trade returns on their way
  answer,       \* answer[id]: the answer on its way, or NoAnswer
  disconnects, crashes

bounds   == <<disconnects, crashes>>
gwVars   == <<ordMgr, used, rel, request, syncTasks, db>>
exchVars == <<exch, cancel, stream, answer>>
vars     == <<gwVars, exchVars, session, bounds>>

NewOrder(id, side, size) ==
  [orderId |-> id, side |-> side, orderSize |-> size, orderStatus |-> Pending,
   dealSize |-> 0, exchOrderId |-> Unset, feeCurrency |-> Unset, statusCode |-> Unset]

Init ==
  /\ ordMgr = EmptyGroup /\ used = {} /\ session = "up"
  /\ rel = [id \in OrderId |-> "none"] /\ request = [id \in OrderId |-> "none"]
  /\ syncTasks = [id \in OrderId |-> NoOrder] /\ db = [id \in OrderId |-> NoOrder]
  /\ exch = [id \in OrderId |-> [status |-> "absent", size |-> 0, dealt |-> 0]]
  /\ cancel = [id \in OrderId |-> "none"] /\ stream = [id \in OrderId |-> << >>]
  /\ answer = [id \in OrderId |-> NoAnswer] /\ disconnects = 0 /\ crashes = 0

-----------------------------------------------------------------------------
\* MapRelOfCliIdAndOrdId::add, remove and load: an entry that is removed can still be found.
addRel(id)    == rel' = [rel EXCEPT ![id] = "open"]
removeRel(id) == rel' = [rel EXCEPT ![id] = "closed"]
loadRel       == rel' = rel

cacheSyncTaskGroup(id, o) == syncTasks' = [syncTasks EXCEPT ![id] = o]

FailedOrder(o) == [o EXCEPT !.orderStatus = Failed, !.statusCode = 1]

\* Order thread.  The client id is related to the order before the request leaves.
OnOrder(id, side, size) ==
  /\ id \notin used /\ used' = used \cup {id} /\ session = "up"
  /\ ordMgr' = add(ordMgr, NewOrder(id, side, size))
  /\ cacheSyncTaskGroup(id, NewOrder(id, side, size))
  /\ addRel(id)
  /\ exch' = [exch EXCEPT ![id] = [status |-> "sent", size |-> size, dealt |-> 0]]
  /\ UNCHANGED <<request, db, cancel, stream, answer, session, bounds>>

\* InsertOrder refuses it: the relation is closed and the manager forgets the order.
OrderFailed(id, side, size) ==
  /\ id \notin used /\ used' = used \cup {id}
  /\ cacheSyncTaskGroup(id, FailedOrder(NewOrder(id, side, size)))
  /\ removeRel(id)
  /\ UNCHANGED <<ordMgr, request, db, exchVars, session, bounds>>

\* Over the limit of the flow control: refused before the manager has seen it.
OrderExceedsFlowCtrl(id, side, size) ==
  /\ id \notin used /\ used' = used \cup {id}
  /\ cacheSyncTaskGroup(id, FailedOrder(NewOrder(id, side, size)))
  /\ UNCHANGED <<ordMgr, rel, request, db, exchVars, session, bounds>>

\* The trade server names an order of its own copy, which has the exchOrderId if the
\* manager has.  Without it, or without a session, the cancellation is refused.
OnCancelOrder(id) ==
  /\ id \in OpenIds(ordMgr) /\ ordMgr.open[id].exchOrderId # Unset /\ session = "up"
  /\ cancel[id] = "none" /\ cancel' = [cancel EXCEPT ![id] = "sent"]
  /\ UNCHANGED <<gwVars, exch, stream, answer, session, bounds>>

-----------------------------------------------------------------------------
\* XTP.  It says what happened while there is a session to say it in.
Says(id, msg) ==
  stream' = IF session = "up" THEN [stream EXCEPT ![id] = Append(@, msg)] ELSE stream

OrderReturn(status, dealt) == [kind |-> "order", status |-> status, dealt |-> dealt]
TradeReturn == [kind |-> "trade", status |-> Created, dealt |-> 1]

ExchTakesOrder(id) ==
  /\ exch[id].status = "sent"
  /\ exch' = [exch EXCEPT ![id].status = "live"]
  /\ Says(id, OrderReturn(ConfirmedByExch, 0))
  /\ UNCHANGED <<gwVars, cancel, answer, session, bounds>>

ExchRefusesOrder(id) ==
  /\ exch[id].status = "sent"
  /\ exch' = [exch EXCEPT ![id].status = "rejected"]
  /\ Says(id, OrderReturn(Failed, 0))
  /\ UNCHANGED <<gwVars, cancel, answer, session, bounds>>

ExchDeals(id) ==
  /\ exch[id].status = "live"
  /\ exch' = [exch EXCEPT ![id].dealt = @ + 1,
                          ![id].status = IF exch[id].dealt + 1 = exch[id].size THEN "filled" ELSE @]
  /\ Says(id, TradeReturn)
  /\ UNCHANGED <<gwVars, cancel, answer, session, bounds>>

ExchCancels(id) ==
  /\ exch[id].status = "live" /\ cancel[id] = "sent"
  /\ exch' = [exch EXCEPT ![id].status = "canceled"]
  /\ cancel' = [cancel EXCEPT ![id] = "done"]
  /\ Says(id, OrderReturn(IF exch[id].dealt = 0 THEN Canceled ELSE PartialFilledCanceled,
                          exch[id].dealt))
  /\ UNCHANGED <<gwVars, answer, session, bounds>>

ExchRefusesCancel(id) ==
  /\ exch[id].status = "filled" /\ cancel[id] = "sent"
  /\ cancel' = [cancel EXCEPT ![id] = IF session = "up" THEN "refused" ELSE "done"]
  /\ UNCHANGED <<gwVars, exch, stream, answer, session, bounds>>

\* The connection breaks: what is on its way is lost, in both directions.
Disconnect ==
  /\ session = "up" /\ disconnects < MaxDisconnects
  /\ session' = "down" /\ disconnects' = disconnects + 1
  /\ stream' = [id \in OrderId |-> << >>] /\ answer' = [id \in OrderId |-> NoAnswer]
  /\ \E lost \in SUBSET {id \in OrderId : exch[id].status = "sent"} :
       exch' = [id \in OrderId |-> IF id \in lost THEN [exch[id] EXCEPT !.status = "lost"]
                                                  ELSE exch[id]]
  /\ cancel' = [id \in OrderId |-> IF cancel[id] = "refused" THEN "done" ELSE cancel[id]]
  /\ UNCHANGED <<gwVars, crashes>>

OnDisconnected ==
  /\ session = "down" /\ session' = "up"
  /\ UNCHANGED <<gwVars, exchVars, bounds>>

-----------------------------------------------------------------------------
\* Callbacks, on XTP's thread.
getOrderId(id) == IF rel[id] \in {"open", "closed"} THEN id ELSE Unset

\* A report names its order by the orderId found; the manager knows its side.
BlankReport(id) ==
  [ReportOf(NewOrder(id, "Bid", 1)) EXCEPT !.orderStatus = Created, !.exchOrderId = id]

\* The order is updated, and queued for the database if anything changed; the relation of
\* its client id is closed when the order has one of the given statuses.
Merged(id, report, ending) ==
  \E new \in {report} : \E om \in {UpdateFromExch(ordMgr, new)} :
    /\ ordMgr' = om
    /\ IF om # ordMgr THEN cacheSyncTaskGroup(id, Lookup(om, new)) ELSE UNCHANGED syncTasks
    /\ IF om # ordMgr /\ Lookup(om, new).orderStatus \in ending THEN removeRel(id) ELSE UNCHANGED rel

\* mutant: an order that ends partly dealt is said to have ended only
ReportOfOrderReturnStatusOnly(id, msg) ==
  [BlankReport(id) EXCEPT !.orderStatus = msg.status,
                          !.statusCode = IF msg.status = Failed THEN 1 ELSE Unset]

ReportOfOrderReturn(id, msg) ==
  [BlankReport(id) EXCEPT !.orderStatus = msg.status, !.dealSize = msg.dealt,
                          !.avgPriced = msg.dealt # 0,
                          !.statusCode = IF msg.status = Failed THEN 1 ELSE Unset]

\* A return that ends the order closes the relation of its client id.
OnOrderEvent(id, msg) ==
  \E new \in {ReportOfOrderReturn(id, msg)} : \E om \in {UpdateFromExch(ordMgr, new)} :
    /\ ordMgr' = om
    /\ IF om # ordMgr THEN cacheSyncTaskGroup(id, Lookup(om, new)) ELSE UNCHANGED syncTasks
    /\ IF msg.status = ConfirmedByExch THEN UNCHANGED rel ELSE removeRel(id)

\* The deal is added to what the manager has; the relation is closed by the last one.
OnTradeEvent(id) ==
  Merged(id, [BlankReport(id) EXCEPT !.lastDealSize = 1, !.lastPriced = TRUE],
         {Filled})

Nth(id) == IF OutOfOrder THEN DOMAIN stream[id] ELSE DOMAIN stream[id] \cap {1}

OnEvent(id) ==
  /\ session = "up"
  /\ \E n \in Nth(id) :
       /\ stream' = [stream EXCEPT ![id] = SubSeq(@, 1, n - 1) \o SubSeq(@, n + 1, Len(@))]
       /\ answer' = [answer EXCEPT ![id].awaited = IF n <= @ THEN @ - 1 ELSE @]
       /\ CASE getOrderId(id) = Unset -> UNCHANGED <<ordMgr, syncTasks, rel>>
            [] getOrderId(id) # Unset /\ stream[id][n].kind = "order" ->
                 OnOrderEvent(id, stream[id][n])
            [] getOrderId(id) # Unset /\ stream[id][n].kind = "trade" -> OnTradeEvent(id)
  /\ UNCHANGED <<used, request, db, exch, cancel, session, bounds>>

\* Found by the exchOrderId, among the closed orders as well, and told to the trade
\* server; nothing else changes.
OnCancelOrderError(id) ==
  /\ session = "up" /\ cancel[id] = "refused"
  /\ cancel' = [cancel EXCEPT ![id] =
                  IF Found(ordMgr, [BlankReport(id) EXCEPT !.orderId = Unset])
                  THEN "told" ELSE "done"]
  /\ UNCHANGED <<gwVars, exch, stream, answer, session, bounds>>

-----------------------------------------------------------------------------
\* secAgoTheOrderNeedToBeSynced have passed: XTP has said whether it took the order,
\* and that has come or is lost.
OldEnough(id) == exch[id].status # "sent" /\ stream[id] = << >>

\* Scheduler: the query thread is given a copy of every old unclosed order.
SyncUnclosedOrders(id) ==
  /\ id \in OpenIds(ordMgr) /\ OldEnough(id) /\ request[id] = "none"
  /\ request' = [request EXCEPT ![id] =
                   IF ordMgr.open[id].exchOrderId = Unset THEN "give up" ELSE "query"]
  /\ UNCHANGED <<ordMgr, used, rel, syncTasks, db, exchVars, session, bounds>>

\* Query thread: an order that has no exchOrderId is taken for one that was never sent.  A
\* request over the limit of the flow control is put back and handled a second later.
GiveUpOrder(id) ==
  /\ request[id] = "give up" /\ request' = [request EXCEPT ![id] = "none"]
  /\ Merged(id, [BlankReport(id) EXCEPT !.exchOrderId = Unset, !.orderStatus = Failed,
                                        !.statusCode = 1], {})
  /\ UNCHANGED <<used, db, exchVars, session, bounds>>

QueryOrder(id) ==
  /\ request[id] = "query" /\ request' = [request EXCEPT ![id] = "none"]
  /\ answer' = IF session = "up" /\ answer[id].status = "none"
               THEN [answer EXCEPT ![id] = [status |-> exch[id].status, dealt |-> exch[id].dealt,
                                            awaited |-> Len(stream[id])]]
               ELSE answer
  /\ UNCHANGED <<ordMgr, used, rel, syncTasks, db, exch, cancel, stream, session, bounds>>

CheckNothing(id) == TRUE   \* mutant: an answer is believed at once

\* The order changed long ago: what was said of it before has come.
CheckIfUpdateOrderInfo(id) == answer[id].awaited = 0

GetOrderStatus(a) ==
  CASE a.status = "live"     -> IF a.dealt = 0 THEN ConfirmedByExch ELSE PartialFilled
    [] a.status = "filled"   -> Filled
    [] a.status = "canceled" -> IF a.dealt = 0 THEN Canceled ELSE PartialFilledCanceled

OnQueryOrderEx(id) ==
  /\ session = "up" /\ answer[id].status # "none"
  /\ answer' = [answer EXCEPT ![id] = NoAnswer]
  /\ IF CheckIfUpdateOrderInfo(id) /\ getOrderId(id) # Unset
     THEN Merged(id, [BlankReport(id) EXCEPT !.orderStatus = GetOrderStatus(answer[id]),
                        !.dealSize = answer[id].dealt, !.avgPriced = answer[id].dealt # 0],
                 {Filled, Canceled, PartialFilledCanceled, Failed})
     ELSE UNCHANGED <<ordMgr, syncTasks, rel>>
  /\ UNCHANGED <<used, request, db, exch, cancel, stream, session, bounds>>

-----------------------------------------------------------------------------
\* Scheduler: what is queued is written.  A row is replaced as TDGateway's RowReplaced says;
\* here the statements of one order come in order.
HandleSyncTaskGroup ==
  /\ \E id \in OrderId : syncTasks[id] # NoOrder
  /\ db' = [id \in OrderId |-> IF syncTasks[id] # NoOrder THEN syncTasks[id] ELSE db[id]]
  /\ syncTasks' = [id \in OrderId |-> NoOrder]
  /\ UNCHANGED <<ordMgr, used, rel, request, exchVars, session, bounds>>

\* initOrdMgr: the rows that are not closed.
Loaded == [open |-> [id \in {x \in OrderId : db[x] # NoOrder /\ ~closed(db[x])} |-> db[id]],
           recent |-> << >>]

\* The process ends anywhere and is started again.  The relation of the client ids is in
\* shared memory and survives, the queues do not.
CrashAndRestart ==
  /\ crashes < MaxCrashes /\ crashes' = crashes + 1
  /\ ordMgr' = Loaded /\ loadRel /\ session' = "up"
  /\ syncTasks' = [id \in OrderId |-> NoOrder] /\ request' = [id \in OrderId |-> "none"]
  /\ stream' = [id \in OrderId |-> << >>] /\ answer' = [id \in OrderId |-> NoAnswer]
  /\ cancel' = [id \in OrderId |-> IF cancel[id] = "refused" THEN "done" ELSE cancel[id]]
  /\ UNCHANGED <<used, db, exch, disconnects>>

-----------------------------------------------------------------------------
Next ==
  \/ \E id \in OrderId :
       \/ \E side \in Side, size \in Size :
            \/ OnOrder(id, side, size) \/ OrderFailed(id, side, size)
            \/ OrderExceedsFlowCtrl(id, side, size)
       \/ OnCancelOrder(id) \/ OnCancelOrderError(id)
       \/ ExchTakesOrder(id) \/ ExchRefusesOrder(id) \/ ExchDeals(id)
       \/ ExchCancels(id) \/ ExchRefusesCancel(id)
       \/ OnEvent(id) \/ OnQueryOrderEx(id)
       \/ SyncUnclosedOrders(id) \/ GiveUpOrder(id) \/ QueryOrder(id)
  \/ Disconnect \/ OnDisconnected \/ HandleSyncTaskGroup \/ CrashAndRestart

\* The scheduler and the query thread run, XTP answers orders and queries and takes the
\* login at last.  Nothing makes it deal or cancel.
Fairness ==
  /\ WF_vars(OnDisconnected) /\ WF_vars(HandleSyncTaskGroup)
  /\ \A id \in OrderId :
       /\ WF_vars(OnEvent(id)) /\ WF_vars(OnQueryOrderEx(id))
       /\ WF_vars(SyncUnclosedOrders(id)) /\ WF_vars(GiveUpOrder(id)) /\ WF_vars(QueryOrder(id))

Spec == Init /\ [][Next]_vars /\ Fairness

-----------------------------------------------------------------------------
Held(id) == id \in OpenIds(ordMgr) \cup RecentIds(ordMgr)
OrderOf(id) == Lookup(ordMgr, BlankReport(id))
OnTheirWay(id) == Cardinality({i \in DOMAIN stream[id] : stream[id][i].kind = "trade"})

\* No deal is counted twice, whatever is lost and whenever the gateway is started again:
\* what was counted and what is still on its way is never more than what was dealt.  This
\* takes returns that come in order.
DealCountedOnce ==
  \A id \in OrderId :
    Held(id) => Abs(OrderOf(id).dealSize) + OnTheirWay(id) <= exch[id].dealt

\* An order that ended at the exchange, or never came there, ends here, and with the size
\* that was dealt: whatever was lost, a query finds it.  Except an order given up because its
\* confirmation was lost ("never sent to the exchange at all", TDGatewayOfXTP.cpp:154), and
\* one whose first row was lost in a crash, which the gateway no longer knows.
GivenUp(id) == Held(id) /\ OrderOf(id).statusCode # Unset
FinishedIsLearnt ==
  \A id \in OrderId :
    exch[id].status \in {"filled", "canceled", "rejected", "lost"} ~>
      /\ id \notin OpenIds(ordMgr)
      /\ \/ Held(id) /\ (GivenUp(id) \/ Abs(OrderOf(id).dealSize) = exch[id].dealt)
         \/ ~Held(id) /\ crashes > 0 /\ (db[id] = NoOrder \/ closed(db[id]))
=============================================================================
