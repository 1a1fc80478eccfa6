---------------------------- MODULE TDGatewayCTP ----------------------------
(***************************************************************************)
(* The core of the gateway to CTP (bqtd-ctp on bqtd-svc-base-cn).  CTP     *)
(* reports a deal by a trade return, which says how much the last deal was *)
(* and is added to what the order manager has; and it answers queries,     *)
(* which say how much was dealt in all.  A deal may therefore be learnt    *)
(* twice, and a return may never come: CTP is asked to resume its private  *)
(* stream at the present (THOST_TERT_QUICK), so what it says while the     *)
(* connection is down is lost.                                             *)
(*                                                                         *)
(* CheckIfUpdateOrderInfo is to keep the two apart: an answer that is more *)
(* recent than the order is believed only when one was more recent for     *)
(* secAgoTheOrderCouldBeSync seconds already, long enough for the returns  *)
(* of that time to have come.  Time is modelled by what it is meant to     *)
(* ensure: the entry of an order becomes ripe once every return that was   *)
(* on its way when the entry was made has come or is lost.                 *)
(*                                                                         *)
(* Callbacks of CTP run on one thread, queries are sent by another, which  *)
(* also gives up orders without an exchOrderId; each merges into the order *)
(* manager under its lock.  Sending and storing are as in TDGateway and    *)
(* left out, as are the client ids (every return finds its order) and the  *)
(* returns that are handled but change nothing (AllTraded,                 *)
(* PartTradedNotQueueing).  A deal is one lot.                             *)
(***************************************************************************)
EXTENDS OrderGroup

CONSTANTS
  Side,      \* the sides orders may have
  MayLose,   \* the kinds of returns the connection may lose
  Quiet      \* no order deals while it has an entry in the timer

ASSUME SideAssumption == Side \subseteq {"Bid", "Ask"}
ASSUME MayLoseAssumption == MayLose \subseteq {"order", "trade"}
ASSUME QuietAssumption == Quiet \in BOOLEAN

VARIABLES
  ordMgr,     \* the order manager
  used,       \* the orders the gateway has seen
  exch,       \* exch[id]: what CTP knows: status, size, size dealt
  canceling,  \* the orders CTP was asked to cancel
  returns,    \* returns[id]: order returns on their way
  trades,     \* trades[id]: number of trade returns on their way
  request,    \* request[id]: what waits for the query thread
  answer,     \* answer[id]: the answer on its way, or NoAnswer
  timer       \* timer[id]: its entry in orderId2UpdateTimeGroup

gwVars   == <<ordMgr, used, request, timer>>
exchVars == <<exch, canceling>>
vars == <<gwVars, exchVars, returns, trades, answer>>

NoAnswer == [status |-> "none", dealt |-> 0]
NoEntry  == [state |-> "none", awaited |-> 0]

NewOrder(id, side, size) ==
  [orderId |-> id, side |-> side, orderSize |-> size, orderStatus |-> Pending,
   dealSize |-> 0, exchOrderId |-> Unset, feeCurrency |-> Unset, statusCode |-> Unset]

Init ==
  /\ ordMgr = EmptyGroup /\ used = {} /\ canceling = {}
  /\ exch = [id \in OrderId |-> [status |-> "absent", size |-> 0, dealt |-> 0]]
  /\ returns = [id \in OrderId |-> {}] /\ trades = [id \in OrderId |-> 0]
  /\ request = [id \in OrderId |-> "none"] /\ answer = [id \in OrderId |-> NoAnswer]
  /\ timer = [id \in OrderId |-> NoEntry]

\* A report names its order by the orderId found for the client id; the
\* order manager knows its side.
BlankReport(id) ==
  [ReportOf(NewOrder(id, "Bid", 1)) EXCEPT !.orderStatus = Created]

FailedReport(id) == [BlankReport(id) EXCEPT !.orderStatus = Failed, !.statusCode = 1]

-----------------------------------------------------------------------------
\* Order thread.  The request has left when the step ends.
OnOrder(id, side, size) ==
  /\ id \notin used /\ used' = used \cup {id}
  /\ ordMgr' = add(ordMgr, NewOrder(id, side, size))
  /\ exch' = [exch EXCEPT ![id] = [status |-> "sent", size |-> size, dealt |-> 0]]
  /\ UNCHANGED <<canceling, returns, trades, request, answer, timer>>

\* An order without exchOrderId cannot be cancelled.
OnCancelOrder(id) ==
  /\ id \in OpenIds(ordMgr) /\ ordMgr.open[id].exchOrderId # Unset
  /\ canceling' = canceling \cup {id}
  /\ UNCHANGED <<gwVars, exch, returns, trades, answer>>

-----------------------------------------------------------------------------
\* CTP.  A return is put on its way with every change.
ExchTakesOrder(id) ==
  /\ exch[id].status = "sent"
  /\ exch' = [exch EXCEPT ![id].status = "live"]
  /\ returns' = [returns EXCEPT ![id] = @ \cup {"confirmed"}]
  /\ UNCHANGED <<gwVars, canceling, trades, answer>>

ExchRefusesOrder(id) ==
  /\ exch[id].status = "sent"
  /\ exch' = [exch EXCEPT ![id].status = "rejected"]
  /\ returns' = [returns EXCEPT ![id] = @ \cup {"rejected"}]
  /\ UNCHANGED <<gwVars, canceling, trades, answer>>

ExchDeals(id) ==
  /\ exch[id].status = "live"
  /\ Quiet => timer[id] = NoEntry
  /\ LET dealt == exch[id].dealt + 1
     IN  exch' = [exch EXCEPT ![id].dealt = dealt,
                    ![id].status = IF dealt = exch[id].size THEN "filled" ELSE "live"]
  /\ trades' = [trades EXCEPT ![id] = @ + 1]
  /\ UNCHANGED <<gwVars, canceling, returns, answer>>

\* Only a cancellation of an order without deals is told by a return the
\* gateway heeds; the other is learnt by a query.
ExchCancels(id) ==
  /\ exch[id].status = "live" /\ id \in canceling
  /\ exch' = [exch EXCEPT ![id].status = "canceled"]
  /\ returns' = [returns EXCEPT ![id] =
                   IF exch[id].dealt = 0 THEN @ \cup {"canceled"} ELSE @]
  /\ UNCHANGED <<gwVars, canceling, trades, answer>>

-----------------------------------------------------------------------------
\* A return leaves its stream, to be handled or to be lost.
OrderReturnLeaves(id, return) ==
  /\ return \in returns[id]
  /\ returns' = [returns EXCEPT ![id] = @ \ {return}]
  /\ UNCHANGED <<exchVars, used, trades, request, answer, timer>>

\* Trade returns come in their order, those an entry waits for come first.
TradeReturnLeaves(id) ==
  /\ trades[id] > 0
  /\ trades' = [trades EXCEPT ![id] = @ - 1]
  /\ timer' = [timer EXCEPT ![id].awaited = IF @ = 0 THEN 0 ELSE @ - 1]
  /\ UNCHANGED <<exchVars, used, returns, request, answer>>

LoseOrderReturn(id, return) ==
  "order" \in MayLose /\ OrderReturnLeaves(id, return) /\ UNCHANGED ordMgr

LoseTradeReturn(id) ==
  "trade" \in MayLose /\ TradeReturnLeaves(id) /\ UNCHANGED ordMgr

\* Callbacks.  The confirmation and the cancellation carry the exchOrderId,
\* in case they come out of order.
StatusOfReturn ==
  [confirmed |-> ConfirmedByExch, canceled |-> Canceled, rejected |-> Failed]

OnRtnOrder(id, return) ==
  /\ return \in {"confirmed", "canceled"} /\ OrderReturnLeaves(id, return)
  /\ ordMgr' = UpdateFromExch(ordMgr,
       [BlankReport(id) EXCEPT !.orderStatus = StatusOfReturn[return], !.exchOrderId = id])

OnRspOrderInsert(id) ==
  /\ OrderReturnLeaves(id, "rejected")
  /\ ordMgr' = UpdateFromExch(ordMgr, FailedReport(id))

OnRtnTrade(id) ==
  /\ TradeReturnLeaves(id)
  /\ ordMgr' = UpdateFromExch(ordMgr,
       [BlankReport(id) EXCEPT !.exchOrderId = id, !.lastDealSize = 1, !.lastPriced = TRUE])

-----------------------------------------------------------------------------

\* secAgoTheOrderNeedToBeSynced (60 s): CTP has answered the request, and the
\* answer has come or is lost.
OldEnough(id) ==
  exch[id].status # "sent" /\ returns[id] \cap {"confirmed", "rejected"} = {}

\* Scheduler: the query thread is given a copy of every old unclosed order.
SyncUnclosedOrders(id) ==
  /\ id \in OpenIds(ordMgr) /\ OldEnough(id) /\ request[id] = "none"
  /\ request' = [request EXCEPT ![id] =
                   IF ordMgr.open[id].exchOrderId = Unset THEN "give up" ELSE "query"]
  /\ UNCHANGED <<ordMgr, used, timer, exchVars, returns, trades, answer>>

\* Query thread: an order that has no exchOrderId is taken for one that was
\* never sent.
GiveUpOrder(id) ==
  /\ request[id] = "give up"
  /\ ordMgr' = UpdateFromExch(ordMgr, FailedReport(id))
  /\ request' = [request EXCEPT ![id] = "none"]
  /\ UNCHANGED <<used, timer, exchVars, returns, trades, answer>>

QueryOrder(id) ==
  /\ request[id] = "query" /\ answer[id] = NoAnswer
  /\ request' = [request EXCEPT ![id] = "none"]
  /\ answer' = [answer EXCEPT ![id] = [status |-> exch[id].status, dealt |-> exch[id].dealt]]
  /\ UNCHANGED <<ordMgr, used, timer, exchVars, returns, trades>>

QueryFails(id) ==
  /\ request[id] = "query"
  /\ request' = [request EXCEPT ![id] = "none"]
  /\ UNCHANGED <<ordMgr, used, timer, exchVars, returns, trades, answer>>

\* secAgoTheOrderCouldBeSync (60 s) have passed since the entry was made.
TimePasses(id) ==
  /\ timer[id].state = "seen" /\ timer[id].awaited = 0
  /\ timer' = [timer EXCEPT ![id].state = "ripe"]
  /\ UNCHANGED <<ordMgr, used, request, exchVars, returns, trades, answer>>

-----------------------------------------------------------------------------

GetOrderStatus(a) ==
  CASE a.status = "live"     -> IF a.dealt = 0 THEN ConfirmedByExch ELSE PartialFilled
    [] a.status = "filled"   -> Filled
    [] a.status = "canceled" -> IF a.dealt = 0 THEN Canceled ELSE PartialFilledCanceled

\* What is known of the order by the answer; the limit price stands for the
\* average price, so there always is one.
AnswerReport(id) ==
  [BlankReport(id) EXCEPT !.exchOrderId = id, !.orderStatus = GetOrderStatus(answer[id]),
                          !.dealSize = answer[id].dealt, !.avgPriced = TRUE]

\* Only an order under way is compared.
MoreRecent(id) ==
  id \in OpenIds(ordMgr) /\ compAndCheckIfUpdate(ordMgr.open[id], AnswerReport(id))

CheckAtOnce(id) ==   \* mutant: the second answer is believed without delay
  CASE ~MoreRecent(id)            -> [update |-> FALSE, entry |-> NoEntry]
    [] MoreRecent(id) /\ timer[id] = NoEntry ->
         [update |-> FALSE, entry |-> [state |-> "seen", awaited |-> trades[id]]]
    [] OTHER -> [update |-> TRUE, entry |-> NoEntry]

CheckAndForget(id) ==   \* mutant: an entry that is not ripe is dropped
  IF MoreRecent(id) /\ timer[id] = NoEntry
  THEN [update |-> FALSE, entry |-> [state |-> "seen", awaited |-> trades[id]]]
  ELSE [update |-> MoreRecent(id) /\ timer[id].state = "ripe", entry |-> NoEntry]

\* The entry is made by the first answer that is more recent, dropped by one
\* that is not, and used up by the update.
CheckIfUpdateOrderInfo(id) ==
  CASE ~MoreRecent(id)            -> [update |-> FALSE, entry |-> NoEntry]
    [] MoreRecent(id) /\ timer[id] = NoEntry ->
         [update |-> FALSE, entry |-> [state |-> "seen", awaited |-> trades[id]]]
    [] MoreRecent(id) /\ timer[id].state = "seen" ->
         [update |-> FALSE, entry |-> timer[id]]
    [] MoreRecent(id) /\ timer[id].state = "ripe" ->
         [update |-> TRUE, entry |-> NoEntry]

OnRspQryOrder(id) ==
  /\ answer[id] # NoAnswer
  /\ LET check == CheckIfUpdateOrderInfo(id)
     IN  /\ timer' = [timer EXCEPT ![id] = check.entry]
         /\ ordMgr' = IF check.update THEN UpdateFromExch(ordMgr, AnswerReport(id)) ELSE ordMgr
  /\ answer' = [answer EXCEPT ![id] = NoAnswer]
  /\ UNCHANGED <<used, request, exchVars, returns, trades>>

-----------------------------------------------------------------------------
Next ==
  \E id \in OrderId :
    \/ \E side \in Side, size \in Size : OnOrder(id, side, size)
    \/ OnCancelOrder(id)
    \/ ExchTakesOrder(id) \/ ExchRefusesOrder(id) \/ ExchDeals(id) \/ ExchCancels(id)
    \/ \E return \in DOMAIN StatusOfReturn :
         LoseOrderReturn(id, return) \/ OnRtnOrder(id, return)
    \/ LoseTradeReturn(id) \/ OnRspOrderInsert(id) \/ OnRtnTrade(id)
    \/ SyncUnclosedOrders(id) \/ GiveUpOrder(id) \/ QueryOrder(id) \/ QueryFails(id)
    \/ TimePasses(id) \/ OnRspQryOrder(id)

Spec == Init /\ [][Next]_vars

\* The scheduler runs, time passes, callbacks are called, and of the queries
\* that are sent again and again one is answered.  Nothing makes CTP deal.
Fairness ==
  \A id \in OrderId :
    /\ WF_vars(SyncUnclosedOrders(id)) /\ WF_vars(GiveUpOrder(id))
    /\ SF_vars(QueryOrder(id)) /\ WF_vars(OnRspQryOrder(id)) /\ WF_vars(TimePasses(id))
    /\ WF_vars(OnRtnTrade(id)) /\ WF_vars(OnRspOrderInsert(id))
    /\ \A return \in DOMAIN StatusOfReturn : WF_vars(OnRtnOrder(id, return))

FairSpec == Spec /\ Fairness

-----------------------------------------------------------------------------
Held(id) == id \in OpenIds(ordMgr) \cup RecentIds(ordMgr)
OrderOf(id) == Lookup(ordMgr, BlankReport(id))

\* Types; a deal size has the sign of its side and stays within the order:
\* a trade return is added without a check.
TypeOK ==
  /\ IsGroup(ordMgr)
  /\ \A id \in OrderId :
       /\ timer[id].awaited \in 0 .. trades[id]
       /\ exch[id].dealt \in 0 .. exch[id].size
       /\ Held(id) => /\ HasSignOfSide(OrderOf(id))
                      /\ Abs(OrderOf(id).dealSize) <= OrderOf(id).orderSize

\* No deal is counted twice: what was counted and what is still on its way
\* is never more than what was dealt.
DealCountedOnce ==
  \A id \in OrderId :
    Held(id) => Abs(OrderOf(id).dealSize) + trades[id] <= exch[id].dealt

\* A closed order is finished at the exchange: "an order without exchOrderId
\* was never sent to the exchange at all" (TDGatewayOfCTP.cpp:137).
ClosedIsFinished ==
  \A id \in RecentIds(ordMgr) :
    exch[id].status \in {"filled", "canceled", "rejected"}

\* Of the orders the gateway did not give up (those have a statusCode, as the
\* rejected ones) this is true whatever is lost and whenever a query is sent.
GivenUp(id) == OrderOf(id).statusCode # Unset

\* The gateway ends up with every deal of an order that is finished at the
\* exchange, and with the order closed, although returns are lost; only an
\* order that was given up is never asked about again.
LostDealIsFound ==
  \A id \in OrderId :
    exch[id].status \in {"filled", "canceled"} ~>
      /\ id \in RecentIds(ordMgr)
      /\ GivenUp(id) \/ Abs(OrderOf(id).dealSize) = exch[id].dealt
=============================================================================
