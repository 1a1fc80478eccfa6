------------------------------ MODULE TDGateway ------------------------------
(***************************************************************************)
(* The core of a trade gateway (bqtd-svc-base, the gateways to the crypto  *)
(* exchanges): what it is told about an order by the exchange, and how the *)
(* trade server and the database come to know it.                          *)
(*                                                                         *)
(*   order thread     takes orders and cancellations of the trade server   *)
(*   HTTP callbacks   one per order request, on a thread of its own        *)
(*   WS thread        returns of the exchange and answers to order queries *)
(*   sync thread      asks the exchange about old unclosed orders          *)
(*   scheduler        starts the queries, flushes the sync tasks           *)
(*   DB thread        runs the queued statements one at a time             *)
(*                                                                         *)
(* A return is merged into the order manager under its lock, then sent,    *)
(* then queued as a sync task: three steps, with other threads in between. *)
(* The process may crash between any two steps; what it had sent stays     *)
(* sent, what it had queued is lost.                                       *)
(*                                                                         *)
(* The channel to the trade server is FIFO and the server merges every     *)
(* return by updateByOrderInfoFromTDGW, so sending is modelled as that     *)
(* merge.  The order thread is one step per order: until the request       *)
(* leaves, nobody else can name the order.  Simulated orders, assets and   *)
(* the risk manager's copy of the sync tasks are left out.                 *)
(***************************************************************************)
EXTENDS OrderGroup

CONSTANTS
  Side,         \* the sides orders may have
  MaxQueue,     \* bound: reports in the queue of the WS thread
  MaxCrashes,   \* bound: how often the gateway may crash
  Faults        \* what may go wrong at the exchange, see FaultKind

ASSUME SideAssumption == Side \subseteq {"Bid", "Ask"}
\* break: a connection breaks before its request is answered;
\* refuse: a query is refused for a reason of its own, such as a rate limit.
FaultKind == {"break", "refuse"}
ASSUME FaultAssumption == Faults \subseteq FaultKind
\* The exchange's identifier of an order is taken to be its orderId.
ASSUME ExchIdAssumption == OrderId \subseteq ExchOrderId
ASSUME BoundAssumption == MaxQueue \in Nat \ {0} /\ MaxCrashes \in Nat

WS == 0                       \* the WS thread; thread id is the callback of order id
Thread == {WS} \cup OrderId
NoOrder == [orderId |-> Unset]
Idle == [pc |-> "idle", ret |-> NoOrder]

VARIABLES
  srv,         \* srv[id]: the trade server's copy of the order, once it sent it
  exch,        \* exch[id]: what the exchange knows, a status and a size dealt
  canceling,   \* the orders the exchange was asked to cancel
  up,          \* is the gateway running?
  crashes,     \* how often it crashed
  ordMgr,      \* its order manager
  http,        \* http[id]: where the order request or its answer is
  wsQueue,     \* reports for the WS thread
  syncReq,     \* orders whose query waits for the sync thread
  thread,      \* thread[t]: between merging a return and queueing it
  syncTasks,   \* orders to be flushed
  dbQueue,     \* orders whose statement waits for the DB thread
  db,          \* db[id]: the row of the order, or NoOrder
  misled       \* ghost: orders said to have failed for a reason of the connection

gwVars  == <<ordMgr, thread, syncTasks>>
vars == <<srv, exch, canceling, up, crashes, gwVars, http, wsQueue, syncReq, dbQueue, db,
          misled>>

-----------------------------------------------------------------------------
NewOrder(id, side, size) ==
  [orderId |-> id, side |-> side, orderSize |-> size, orderStatus |-> Created,
   dealSize |-> 0, exchOrderId |-> Unset, feeCurrency |-> Unset, statusCode |-> Unset]

Known(o) == o # NoOrder

Init ==
  /\ srv = [id \in OrderId |-> NoOrder] /\ db = [id \in OrderId |-> NoOrder]
  /\ exch = [id \in OrderId |-> [status |-> "absent", dealt |-> 0]]
  /\ http = [id \in OrderId |-> "none"]
  /\ thread = [t \in Thread |-> Idle]
  /\ ordMgr = EmptyGroup
  /\ up = TRUE /\ crashes = 0 /\ misled = {}
  /\ canceling = {} /\ syncReq = {}
  /\ wsQueue = << >> /\ syncTasks = << >> /\ dbQueue = << >>

\* What the trade server makes of a return about an order it sent.
Receive(copy, ret) == updateByOrderInfoFromTDGW(copy, ReportOf(ret))

-----------------------------------------------------------------------------
\* Order thread.  Beyond the flow control the order fails at once and is
\* never managed.
RefuseOrder(id, side, size) ==
  LET o == [NewOrder(id, side, size) EXCEPT !.orderStatus = Failed, !.statusCode = 1]
  IN  /\ up /\ ~Known(srv[id])
      /\ srv' = [srv EXCEPT ![id] = Receive(NewOrder(id, side, size), o)]
      /\ syncTasks' = Append(syncTasks, o)
      /\ UNCHANGED <<exch, canceling, up, crashes, ordMgr, thread, http, wsQueue,
                     syncReq, dbQueue, db, misled>>

\* The order is managed before it is requested, so that its returns find it.
OnOrder(id, side, size) ==
  LET o == [NewOrder(id, side, size) EXCEPT !.orderStatus = Pending]
  IN  /\ up /\ ~Known(srv[id]) /\ CanAdd(ordMgr, o)
      /\ ordMgr' = add(ordMgr, o)
      /\ srv' = [srv EXCEPT ![id] = Receive(NewOrder(id, side, size), o)]
      /\ syncTasks' = Append(syncTasks, o)
      /\ http' = [http EXCEPT ![id] = "request"]
      /\ UNCHANGED <<exch, canceling, up, crashes, thread, wsQueue, syncReq, dbQueue,
                     db, misled>>

\* The request could not be made: added, announced, and taken back.
OnOrderNotSent(id, side, size) ==
  LET o == [NewOrder(id, side, size) EXCEPT !.orderStatus = Pending]
      failed == [o EXCEPT !.orderStatus = Failed, !.statusCode = 1]
  IN  /\ up /\ ~Known(srv[id]) /\ CanAdd(ordMgr, o)
      /\ ordMgr' = remove(add(ordMgr, o), id)
      /\ srv' = [srv EXCEPT ![id] = Receive(Receive(NewOrder(id, side, size), o), failed)]
      /\ syncTasks' = syncTasks \o <<o, failed>>
      /\ UNCHANGED <<exch, canceling, up, crashes, thread, http, wsQueue, syncReq,
                     dbQueue, db, misled>>

\* A cancellation changes nothing here, it is passed on; when it is refused
\* (flow control, exchange) the trade server is told, which changes nothing.
OnCancelOrder(id) ==
  /\ up /\ Known(srv[id]) /\ ~closed(srv[id]) /\ http[id] # "none"
  /\ canceling' = canceling \cup {id}
  /\ UNCHANGED <<srv, exch, up, crashes, gwVars, http, wsQueue, syncReq, dbQueue, db,
                 misled>>

-----------------------------------------------------------------------------

\* What is merged by thread t: the order manager is updated and t goes on
\* with a copy of the order, unless the report changes nothing.
Merge(t, new) ==
  /\ ordMgr' = UpdateFromExch(ordMgr, new)
  /\ thread' = [thread EXCEPT ![t] =
       IF Found(ordMgr, new) /\ IsSomeFieldOfOrderUpdated(Lookup(ordMgr, new), new)
       THEN [pc |-> "send", ret |-> updateByOrderInfoFromExch(Lookup(ordMgr, new), new)]
       ELSE Idle]

Failure(id) ==
  [ReportOf(NewOrder(id, "Bid", 1)) EXCEPT !.orderStatus = Failed, !.statusCode = 1]

\* HTTP callback: only an answer that says failure is of interest.  An empty
\* answer cannot be parsed and says failure.
HandleRspOfOrder(id) ==
  /\ up /\ thread[id] = Idle
  /\ \/ http[id] = "accepted" /\ UNCHANGED <<ordMgr, thread, misled>>
     \/ http[id] \in {"refused", "broken"} /\ Merge(id, Failure(id))
  /\ http' = [http EXCEPT ![id] = "done"]
  /\ UNCHANGED <<srv, exch, canceling, up, crashes, syncTasks, wsQueue, syncReq,
                 dbQueue, db, misled>>

\* WS thread: handleOrder and handleSyncUnclosedOrder do the same.
HandleWS ==
  /\ up /\ thread[WS] = Idle /\ wsQueue # << >>
  /\ Merge(WS, Head(wsQueue))
  /\ wsQueue' = Tail(wsQueue)
  /\ UNCHANGED <<srv, exch, canceling, up, crashes, syncTasks, http, syncReq, dbQueue,
                 db, misled>>

SendRetLast(t) ==   \* mutant: queued first, sent afterwards
  \/ /\ thread[t].pc = "send"
     /\ syncTasks' = Append(syncTasks, thread[t].ret)
     /\ thread' = [thread EXCEPT ![t].pc = "late"]
     /\ UNCHANGED <<srv, exch, canceling, up, crashes, ordMgr, http, wsQueue, syncReq,
                    dbQueue, db, misled>>
  \/ /\ thread[t].pc = "late"
     /\ srv' = [srv EXCEPT ![thread[t].ret.orderId] = Receive(@, thread[t].ret)]
     /\ thread' = [thread EXCEPT ![t] = Idle]
     /\ UNCHANGED <<exch, canceling, up, crashes, ordMgr, syncTasks, http, wsQueue,
                    syncReq, dbQueue, db, misled>>

SendRet(t) ==
  /\ thread[t].pc = "send"
  /\ LET ret == thread[t].ret
     IN  srv' = [srv EXCEPT ![ret.orderId] = Receive(@, ret)]
  /\ thread' = [thread EXCEPT ![t].pc = "cache"]
  /\ UNCHANGED <<exch, canceling, up, crashes, ordMgr, syncTasks, http, wsQueue,
                 syncReq, dbQueue, db, misled>>

CacheSyncTaskIfClosed(t) ==   \* mutant: only the end of an order is stored
  /\ thread[t].pc = "cache"
  /\ syncTasks' = IF closed(thread[t].ret) THEN Append(syncTasks, thread[t].ret) ELSE syncTasks
  /\ thread' = [thread EXCEPT ![t] = Idle]
  /\ UNCHANGED <<srv, exch, canceling, up, crashes, ordMgr, http, wsQueue, syncReq,
                 dbQueue, db, misled>>

CacheSyncTask(t) ==
  /\ thread[t].pc = "cache"
  /\ syncTasks' = Append(syncTasks, thread[t].ret)
  /\ thread' = [thread EXCEPT ![t] = Idle]
  /\ UNCHANGED <<srv, exch, canceling, up, crashes, ordMgr, http, wsQueue, syncReq,
                 dbQueue, db, misled>>

-----------------------------------------------------------------------------
\* The exchange, as the gateway depends on it: it takes or refuses a request,
\* deals, and cancels when asked to.
StatusAtExch(e) ==
  CASE e.status \in {"absent", "rejected"} -> Failed
    [] e.status = "live"     -> IF e.dealt = 0 THEN ConfirmedByExch ELSE PartialFilled
    [] e.status = "filled"   -> Filled
    [] e.status = "canceled" -> IF e.dealt = 0 THEN Canceled ELSE PartialFilledCanceled
    [] e.status = "expired"  -> Failed

FinishedAtExch(id) == exch[id].status \in {"filled", "canceled", "expired", "rejected"}

ReturnOf(id, e) ==
  [orderId |-> id, exchOrderId |-> id, orderStatus |-> StatusAtExch(e),
   dealSize |-> e.dealt, avgPriced |-> e.dealt # 0, lastDealSize |-> 0,
   lastPriced |-> FALSE, feeCurrency |-> Unset, statusCode |-> Unset]

\* A return reaches the queue of the WS thread or is lost with the connection.
Push(report) ==
  \/ up /\ Len(wsQueue) < MaxQueue /\ wsQueue' = Append(wsQueue, report)
  \/ wsQueue' = wsQueue

\* The order changes at the exchange, which says so.
Moves(id, e) ==
  /\ exch' = [exch EXCEPT ![id] = e]
  /\ Push(ReturnOf(id, e))
  /\ UNCHANGED <<srv, canceling, up, crashes, gwVars, syncReq, dbQueue, db, misled>>

\* "lost": nobody is left to read the answer, the process has crashed.
ExchTakesOrder(id) ==
  /\ http[id] \in {"request", "lost"}
  /\ http' = [http EXCEPT ![id] = IF @ = "lost" THEN "done" ELSE "accepted"]
  /\ Moves(id, [status |-> "live", dealt |-> 0])

ExchRefusesOrder(id) ==
  /\ http[id] \in {"request", "lost"}
  /\ http' = [http EXCEPT ![id] = IF @ = "lost" THEN "done" ELSE "refused"]
  /\ exch' = [exch EXCEPT ![id].status = "rejected"]
  /\ UNCHANGED <<srv, canceling, up, crashes, gwVars, wsQueue, syncReq, dbQueue, db,
                 misled>>

\* The connection breaks before the exchange has the request, or after.
ConnectionBreaks(id) ==
  /\ "break" \in Faults /\ http[id] \in {"request", "accepted", "refused"}
  /\ http' = [http EXCEPT ![id] = "broken"]
  /\ misled' = misled \cup {id}
  /\ UNCHANGED <<srv, exch, canceling, up, crashes, gwVars, wsQueue, syncReq, dbQueue, db>>

ExchDeals(id) ==
  /\ exch[id].status = "live"
  /\ LET dealt == exch[id].dealt + 1
     IN  Moves(id, [status |-> IF dealt = srv[id].orderSize THEN "filled" ELSE "live",
                    dealt  |-> dealt])
  /\ UNCHANGED http

ExchCancels(id) ==
  /\ exch[id].status = "live" /\ id \in canceling
  /\ Moves(id, [exch[id] EXCEPT !.status = "canceled"])
  /\ UNCHANGED http

ExchExpires(id) ==
  /\ exch[id].status = "live"
  /\ Moves(id, [exch[id] EXCEPT !.status = "expired"])
  /\ UNCHANGED http

-----------------------------------------------------------------------------
OldEnoughAnyway(id) == TRUE   \* mutant: young orders are queried as well

\* secAgoTheOrderNeedToBeSynced: an order is not asked about while its
\* request may still be on its way (30 s in every configuration).
OldEnough(id) == http[id] \notin {"request", "lost"}

SyncUnclosedOrders ==
  /\ up
  /\ syncReq' = syncReq \cup {id \in OpenIds(ordMgr) : OldEnough(id)}
  /\ syncReq' # syncReq
  /\ UNCHANGED <<srv, exch, canceling, up, crashes, gwVars, http, wsQueue, dbQueue, db,
                 misled>>

\* Sync thread: the answer goes through the queue of the WS thread.
QueryOrder(id) ==
  /\ up /\ id \in syncReq /\ Len(wsQueue) < MaxQueue
  /\ syncReq' = syncReq \ {id}
  /\ wsQueue' = Append(wsQueue,
       IF exch[id].status \in {"absent", "rejected"} THEN Failure(id)
       ELSE ReturnOf(id, exch[id]))
  /\ UNCHANGED <<srv, exch, canceling, up, crashes, gwVars, http, dbQueue, db, misled>>

\* Any code the exchange gives stands for failure until somebody has entered
\* it in the table of external codes, the default being -1.
QueryRefused(id) ==
  /\ "refuse" \in Faults
  /\ up /\ id \in syncReq /\ Len(wsQueue) < MaxQueue
  /\ syncReq' = syncReq \ {id}
  /\ wsQueue' = Append(wsQueue, Failure(id))
  /\ misled' = misled \cup {id}
  /\ UNCHANGED <<srv, exch, canceling, up, crashes, gwVars, http, dbQueue, db>>

QueryFails(id) ==
  /\ up /\ id \in syncReq
  /\ syncReq' = syncReq \ {id}
  /\ UNCHANGED <<srv, exch, canceling, up, crashes, gwVars, http, wsQueue, dbQueue, db,
                 misled>>

\* Scheduler: the sync tasks are handed to the DB thread, in their order.
HandleSyncTaskGroup ==
  /\ up /\ syncTasks # << >>
  /\ dbQueue' = dbQueue \o syncTasks
  /\ syncTasks' = << >>
  /\ UNCHANGED <<srv, exch, canceling, up, crashes, ordMgr, thread, http, wsQueue,
                 syncReq, db, misled>>

\* uspOrderInfoUpdate: the row of a known order is replaced when the status
\* advances and was not final, or when a partial deal has grown.
RowReplaced(row, o) ==
  \/ o.orderStatus > row.orderStatus /\ ~closed(row)
  \/ /\ o.orderStatus = row.orderStatus /\ o.orderStatus = PartialFilled
     /\ Abs(o.dealSize) > Abs(row.dealSize)

ExecSQL ==
  /\ up /\ dbQueue # << >>
  /\ LET o == Head(dbQueue)
         row == db[o.orderId]
     IN  db' = IF ~Known(row) \/ RowReplaced(row, o) THEN [db EXCEPT ![o.orderId] = o] ELSE db
  /\ dbQueue' = Tail(dbQueue)
  /\ UNCHANGED <<srv, exch, canceling, up, crashes, gwVars, http, wsQueue, syncReq, misled>>

-----------------------------------------------------------------------------
\* A request that was on its way may still arrive.
Crash ==
  /\ up /\ crashes < MaxCrashes
  /\ up' = FALSE /\ crashes' = crashes + 1
  /\ ordMgr' = EmptyGroup /\ thread' = [t \in Thread |-> Idle]
  /\ wsQueue' = << >> /\ syncTasks' = << >> /\ dbQueue' = << >> /\ syncReq' = {}
  /\ \E arriving \in SUBSET {id \in OrderId : http[id] = "request"} :
       http' = [id \in OrderId |-> IF id \in arriving THEN "lost"
                                  ELSE IF http[id] = "none" THEN "none" ELSE "done"]
  /\ UNCHANGED <<srv, exch, canceling, db, misled>>

RestartUndealt ==   \* mutant: partly filled orders are not loaded
  LET unclosed == {id \in OrderId : Known(db[id]) /\ db[id].orderStatus < PartialFilled}
  IN  /\ ~up /\ up' = TRUE
      /\ ordMgr' = [open |-> [id \in unclosed |-> db[id]], recent |-> << >>]
      /\ UNCHANGED <<srv, exch, canceling, crashes, thread, syncTasks, http, wsQueue,
                     syncReq, dbQueue, db, misled>>

\* initOrdMgr: the orders the database knows and does not know closed.
Restart ==
  LET unclosed == {id \in OrderId : Known(db[id]) /\ ~closed(db[id])}
  IN  /\ ~up /\ up' = TRUE
      /\ ordMgr' = [open |-> [id \in unclosed |-> db[id]], recent |-> << >>]
      /\ UNCHANGED <<srv, exch, canceling, crashes, thread, syncTasks, http, wsQueue,
                     syncReq, dbQueue, db, misled>>

-----------------------------------------------------------------------------
Next ==
  \/ \E id \in OrderId, side \in Side, size \in Size :
       \/ RefuseOrder(id, side, size)
       \/ OnOrder(id, side, size)
       \/ OnOrderNotSent(id, side, size)
  \/ \E id \in OrderId :
       \/ OnCancelOrder(id) \/ HandleRspOfOrder(id)
       \/ ExchTakesOrder(id) \/ ExchRefusesOrder(id) \/ ConnectionBreaks(id)
       \/ ExchDeals(id) \/ ExchCancels(id) \/ ExchExpires(id)
       \/ QueryOrder(id) \/ QueryRefused(id) \/ QueryFails(id)
  \/ \E t \in Thread : SendRet(t) \/ CacheSyncTask(t)
  \/ HandleWS \/ SyncUnclosedOrders \/ HandleSyncTaskGroup \/ ExecSQL
  \/ Crash \/ Restart

Spec == Init /\ [][Next]_vars

\* Every thread goes on, the scheduler runs its tasks, a crashed gateway is
\* started again, an answer of the exchange is handled, and a query that is
\* tried again and again succeeds in the end.
Fairness ==
  /\ \A t \in Thread : WF_vars(SendRet(t)) /\ WF_vars(CacheSyncTask(t))
  /\ WF_vars(HandleWS) /\ WF_vars(SyncUnclosedOrders)
  /\ WF_vars(HandleSyncTaskGroup) /\ WF_vars(ExecSQL) /\ WF_vars(Restart)
  /\ \A id \in OrderId : SF_vars(QueryOrder(id))

FairSpec == Spec /\ Fairness

-----------------------------------------------------------------------------
\* Types; every copy of an order has deal sizes of the sign of its side,
\* although the exchange reports sizes without a sign.
TypeOK ==
  /\ srv \in [OrderId -> Order \cup {NoOrder}] /\ db \in [OrderId -> Order \cup {NoOrder}]
  /\ \A id \in OrderId :
       exch[id].dealt \in 0 .. (IF Known(srv[id]) THEN srv[id].orderSize ELSE 0)
  /\ IsGroup(ordMgr) /\ up \in BOOLEAN /\ crashes \in 0 .. MaxCrashes
  /\ \A t \in Thread : thread[t].pc \in {"idle", "send", "cache"}
  /\ \A id \in OrderId : /\ Known(srv[id]) => HasSignOfSide(srv[id])
                         /\ Known(db[id]) => HasSignOfSide(db[id])
  /\ Len(wsQueue) <= MaxQueue /\ wsQueue \in Seq(Report)

\* An order the gateway, the trade server or the database holds closed is
\* finished at the exchange or will never be there, "the order is certainly
\* finished here" (HttpCliOfExch.cpp:47), unless a connection that broke or a
\* query refused for another reason was taken for the failure of the order.
NeverLive(id) ==
  \/ FinishedAtExch(id)
  \/ exch[id].status = "absent" /\ http[id] \notin {"request", "lost"}
ClosedIsFinished ==
  \A id \in OrderId :
    \/ id \in RecentIds(ordMgr)
    \/ Known(srv[id]) /\ closed(srv[id])
    \/ Known(db[id]) /\ closed(db[id])
    => NeverLive(id) \/ id \in misled

\* The database never knows more than the trade server was told: an order
\* closed there is not loaded after a crash, so the server would never learn
\* of it.  (The return is sent before its sync task is queued.)
DBNotAheadOfSrv ==
  \A id \in OrderId :
    Known(db[id]) =>
      /\ Abs(db[id].dealSize) <= Abs(srv[id].dealSize)
      /\ closed(db[id]) => closed(srv[id])

\* Once every thread is idle and the queues are empty, the trade server and
\* the order manager agree on every order it has, unless the gateway lost
\* its memory meanwhile: sending is not atomic with merging
\* (WSCliOfExch.cpp:209), yet no return is overtaken for good.
Agree(a, b) == a.orderStatus = b.orderStatus /\ a.dealSize = b.dealSize
Resting == \A t \in Thread : thread[t] = Idle
SrvAgreesAtRest ==
  Resting /\ crashes = 0 =>
    /\ \A id \in OpenIds(ordMgr) : Agree(srv[id], ordMgr.open[id])
    /\ \A i \in DOMAIN ordMgr.recent :
         Agree(srv[ordMgr.recent[i].orderId], ordMgr.recent[i])

\* The same between the database and the trade server, but for an order taken
\* for failed that deals nevertheless: the row of a closed order keeps the size
\* it has, while the trade server counts the deals.
DBAgreesAtRest ==
  Resting /\ crashes = 0 /\ syncTasks = << >> /\ dbQueue = << >> =>
    \A id \in OrderId \ misled : Known(srv[id]) => Agree(srv[id], db[id])

\* Sending and storing lose nothing and overtake nothing for good.
AgreesAtRest == SrvAgreesAtRest /\ DBAgreesAtRest

\* An order the database knows that is finished at the exchange is in the
\* end known closed by the trade server and by the database, although
\* returns are lost and the gateway may crash.
FinishedIsLearnt ==
  \A id \in OrderId :
    (Known(db[id]) /\ FinishedAtExch(id))
      ~> (Known(db[id]) /\ closed(db[id]) /\ closed(srv[id]))
=============================================================================
