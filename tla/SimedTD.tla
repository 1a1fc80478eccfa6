------------------------------ MODULE SimedTD ------------------------------
(***************************************************************************)
(* A gateway in simulated mode (SimedOrderInfoHandler; the code of          *)
(* bqtd-svc-base and of bqtd-svc-base-cn differs in fees and one status     *)
(* code).  An order says itself how it is to end: the status and the parts  *)
(* that are dealt, in order.  One thread handles orders and cancellations;  *)
(* between two deals it sleeps, so each deal is a step.  The trade server   *)
(* merges what it is told.                                                  *)
(***************************************************************************)
EXTENDS OrderGroup, FiniteSets, SequencesExt

CONSTANTS
  SimOrder,   \* the orders a client places, records of Order with status Pending
  InfoOf,     \* InfoOf[id]: the SimedTDInfo in the order's extData
  Whole,      \* filledPer = Whole deals the whole order; a natural number, not 0
  UnknownSymbol   \* orders whose symbol is not in the table of symbols

ASSUME SimAssumption ==
  /\ SimOrder \subseteq Order /\ Whole \in Nat \ {0}
  /\ \A o \in SimOrder : InfoOf[o.orderId] \in [orderStatus : OrderStatus, transDetailGroup : Seq(Int)]

NoOrder == [orderId |-> Unset]

VARIABLES
  simRequests,   \* the requests of thread 0 of the dispatcher, oldest first
  ordReq,        \* the order the thread is dealing, with the deals left; NoOrder when there is none
  simOrdMgr,     \* the gateway's order manager
  simReturns,    \* returns on their way to the trade server
  simSrv,        \* the trade server's order manager
  asked,         \* the requests sent so far
  canceled       \* orders that were under way when their cancellation was handled

simVars == <<simRequests, ordReq, simOrdMgr, simReturns, simSrv, asked, canceled>>

Total(details) == FoldSeq(+, 0, details)

\* checkIfSimedTDInfoValid; slippages are always valid here.
simedTDInfoIsValid(info) ==
  \/ info.orderStatus \in {ConfirmedByExch, Failed} /\ info.transDetailGroup = << >>
  \/ info.orderStatus = Filled /\ info.transDetailGroup # << >> /\ Total(info.transDetailGroup) = Whole
  \/ info.orderStatus = PartialFilled /\ info.transDetailGroup # << >>
     /\ Total(info.transDetailGroup) < Whole

SimInit ==
  /\ simRequests = << >> /\ ordReq = NoOrder
  /\ simOrdMgr = EmptyGroup /\ simReturns = << >> /\ simSrv = EmptyGroup
  /\ asked = {} /\ canceled = {}

\* The trade server adds an order to its own manager, and sends it on later.
PlaceOrder(o) ==
  /\ ~Found(simSrv, ReportOf(o))
  /\ simSrv' = add(simSrv, o)
  /\ UNCHANGED <<simRequests, ordReq, simOrdMgr, simReturns, canceled, asked>>

ForwardOrder(o) ==
  /\ Found(simSrv, ReportOf(o)) /\ <<"order", o.orderId>> \notin asked
  /\ simRequests' = Append(simRequests, <<"order", o.orderId>>)
  /\ asked' = asked \cup {<<"order", o.orderId>>}
  /\ UNCHANGED <<ordReq, simOrdMgr, simReturns, simSrv, canceled>>

\* A cancellation may overtake its order; each is sent once.
CancelOrder(o) ==
  /\ Found(simSrv, ReportOf(o)) /\ <<"cancel", o.orderId>> \notin asked
  /\ simRequests' = Append(simRequests, <<"cancel", o.orderId>>)
  /\ asked' = asked \cup {<<"cancel", o.orderId>>}
  /\ UNCHANGED <<ordReq, simOrdMgr, simReturns, simSrv, canceled>>

Request(kind, id) == ordReq = NoOrder /\ simRequests # << >> /\ Head(simRequests) = <<kind, id>>
Handled == simRequests' = Tail(simRequests)
Return(reports) == simReturns' = simReturns \o reports

Ended(o, status, code) == [ReportOf(o) EXCEPT !.orderStatus = status, !.statusCode = code]

\* handleMsgIdOnOrder and simOnOrder for an order that is refused: its SimedTDInfo is not
\* valid, its symbol is unknown, or it asks for Failed.  It was added, so it is removed.
SimOnOrderRefused(o) ==
  /\ Request("order", o.orderId)
  /\ \/ ~simedTDInfoIsValid(InfoOf[o.orderId])
     \/ InfoOf[o.orderId].orderStatus = Failed
     \/ o.orderId \in UnknownSymbol
  /\ simOrdMgr' = remove(add(simOrdMgr, o), o.orderId)
  /\ Return(<<ReportOf(o), Ended(o, Failed, 1)>>)
  /\ Handled /\ UNCHANGED <<ordReq, simSrv, asked, canceled>>

\* simOnOrderConfirmedByExch: the report that confirms the order.
ConfirmedReport(o, exchOrderId) ==
  [ReportOf(o) EXCEPT !.orderStatus = ConfirmedByExch, !.exchOrderId = exchOrderId,
                      !.feeCurrency = 1]

\* An order that is confirmed; what is left to deal is kept in ordReq.
SimOnOrder(o, exchOrderId) ==
  /\ Request("order", o.orderId)
  /\ simedTDInfoIsValid(InfoOf[o.orderId]) /\ InfoOf[o.orderId].orderStatus # Failed
  /\ o.orderId \notin UnknownSymbol
  /\ LET confirmed == UpdateFromExch(add(simOrdMgr, o), ConfirmedReport(o, exchOrderId))
     IN  /\ simOrdMgr' = confirmed
         /\ Return(<<ReportOf(o), ReportOf(Lookup(confirmed, ReportOf(o)))>>)
  /\ ordReq' = IF InfoOf[o.orderId].transDetailGroup = << >> THEN NoOrder
               ELSE [orderId |-> o.orderId, side |-> o.side, orderSize |-> o.orderSize,
                     dealSize |-> 0, transDetailGroup |-> InfoOf[o.orderId].transDetailGroup]
  /\ Handled /\ UNCHANGED <<simSrv, asked, canceled>>

\* The deal at the head of those left: its size has the sign of the side and is added to
\* what was dealt before.
LastDealSize(req) ==
  LET size == (req.orderSize * Head(req.transDetailGroup)) \div Whole
  IN  IF req.side = "Bid" THEN size ELSE 0 - size
TotalDealSizeOnlyLast(req) == LastDealSize(req)   \* mutant: the deals are not added up
TotalDealSize(req) == req.dealSize + LastDealSize(req)

\* simOnOrderFilled and simOnOrderPartialFilled: the report of one deal.
DealReport(req) ==
  [orderId |-> req.orderId, exchOrderId |-> Unset,
   orderStatus |-> IF Len(req.transDetailGroup) = 1 /\ InfoOf[req.orderId].orderStatus = Filled
                   THEN Filled ELSE PartialFilled,
   dealSize |-> TotalDealSize(req), avgPriced |-> TotalDealSize(req) # 0,
   lastDealSize |-> LastDealSize(req), lastPriced |-> TRUE,
   feeCurrency |-> 1, statusCode |-> Unset]

\* The report is merged, and what the manager holds then is returned, changed or not.
SimDeal ==
  /\ ordReq # NoOrder
  /\ LET dealt == UpdateFromExch(simOrdMgr, DealReport(ordReq))
     IN  /\ simOrdMgr' = dealt
         /\ Return(<<ReportOf(Lookup(dealt, DealReport(ordReq)))>>)
  /\ ordReq' = IF Len(ordReq.transDetailGroup) = 1 THEN NoOrder
               ELSE [ordReq EXCEPT !.dealSize = TotalDealSize(ordReq), !.transDetailGroup = Tail(@)]
  /\ UNCHANGED <<simRequests, simSrv, asked, canceled>>

StatusIfCanceled(o) == IF o.dealSize = 0 THEN Canceled ELSE PartialFilledCanceled

\* simOnCancelOrder: only orders under way are looked for; one that was not placed yet or
\* has ended answers the cancellation with a failure that nobody's order manager hears of.
SimOnCancelOrder(id) ==
  /\ Request("cancel", id)
  /\ IF id \in OpenIds(simOrdMgr)
     THEN /\ simOrdMgr' = remove(simOrdMgr, id)
          /\ Return(<<[ReportOf(simOrdMgr.open[id]) EXCEPT
                         !.orderStatus = StatusIfCanceled(simOrdMgr.open[id])]>>)
          /\ canceled' = canceled \cup {id}
     ELSE UNCHANGED <<simOrdMgr, simReturns, canceled>>
  /\ Handled /\ UNCHANGED <<ordReq, simSrv, asked>>

SrvOnReturn ==
  /\ simReturns # << >>
  /\ simSrv' = UpdateFromTDGW(simSrv, Head(simReturns))
  /\ simReturns' = Tail(simReturns)
  /\ UNCHANGED <<simRequests, ordReq, simOrdMgr, asked, canceled>>

SimNext ==
  \/ \E o \in SimOrder :
       \/ PlaceOrder(o) \/ ForwardOrder(o) \/ CancelOrder(o) \/ SimOnOrderRefused(o)
       \/ \E e \in ExchOrderId : SimOnOrder(o, e)
       \/ SimOnCancelOrder(o.orderId)
  \/ SimDeal \/ SrvOnReturn

-----------------------------------------------------------------------------
\* What the client asked for: the status and the size its order is to end with.
AskedFor(o) ==
  LET info == InfoOf[o.orderId]
      size == Signed(o.side, (o.orderSize * Total(info.transDetailGroup)) \div Whole)
  IN  CASE ~simedTDInfoIsValid(info) \/ o.orderId \in UnknownSymbol -> <<Failed, 0>>
        [] OTHER -> IF o.orderId \in canceled
                    THEN <<IF size = 0 THEN Canceled ELSE PartialFilledCanceled, size>>
                    ELSE <<info.orderStatus, size>>

HandledEntirely(id) ==
  /\ <<"order", id>> \in asked /\ <<"order", id>> \notin ToSet(simRequests)
  /\ ordReq.orderId # id /\ simReturns = << >>

DealsArePositive(o) == \A i \in DOMAIN InfoOf[o.orderId].transDetailGroup :
                         InfoOf[o.orderId].transDetailGroup[i] > 0

\* Once the trade server has heard everything about an order, its order has the status and
\* the size the client asked the simulation for (with its cancellation counted in, when it
\* found the order under way); the deals of one order are never mixed with another's
\* cancellation or confirmation.  Parts that are not positive pass the check of the
\* SimedTDInfo and are excepted.
SimedEndsAsAsked ==
  \A o \in SimOrder : HandledEntirely(o.orderId) /\ DealsArePositive(o) =>
    LET known == Lookup(simSrv, ReportOf(o))
    IN  <<known.orderStatus, known.dealSize>> = AskedFor(o)
=============================================================================
