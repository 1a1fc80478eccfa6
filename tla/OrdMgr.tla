------------------------------- MODULE OrdMgr -------------------------------
(***************************************************************************)
(* One OrdMgr and whoever drives it: orders are added once each, may be    *)
(* removed (the exchange or a risk check refused them), and reports arrive *)
(* in any order, more than once, late or not at all.  In a trade gateway   *)
(* the reports come from the exchange (ReportFromTDGW is empty), in every  *)
(* other process from the gateway (ReportFromExch is empty).  The sender   *)
(* is every sequence of reports, including ones that contradict each other.*)
(***************************************************************************)
EXTENDS OrderGroup

CONSTANTS
  ReportFromExch,   \* the reports the exchange may send
  ReportFromTDGW,   \* the reports a gateway may send
  MaxDealSize       \* bound: trade returns beyond this total are not explored

ASSUME ReportAssumption ==
  ReportFromExch \subseteq Report /\ ReportFromTDGW \subseteq Report

VARIABLES
  ordMgr,   \* the two containers
  used      \* orderIds given to add so far: the strategy engine numbers orders afresh

vars == <<ordMgr, used>>

NewOrder == [orderId : OrderId, side : {"Bid", "Ask"}, orderSize : Size,
             orderStatus : {Pending}, dealSize : {0}, exchOrderId : {Unset},
             feeCurrency : {Unset}, statusCode : {Unset}]

Init == ordMgr = EmptyGroup /\ used = {}

AddOrder(o) ==
  /\ o.orderId \notin used
  /\ CanAdd(ordMgr, o)
  /\ ordMgr' = add(ordMgr, o)
  /\ used' = used \cup {o.orderId}

RemoveOrder(id) ==
  /\ id \in OpenIds(ordMgr)
  /\ ordMgr' = remove(ordMgr, id)
  /\ UNCHANGED used

OnReportFromExch(new) ==
  /\ Found(ordMgr, new)
  /\ Abs(DealSizeFromExch(Lookup(ordMgr, new), new)) <= MaxDealSize
  /\ ordMgr' = UpdateFromExch(ordMgr, new)
  /\ UNCHANGED used

\* A gateway sends the sizes with the sign of the order's side.
OnReportFromTDGW(new) ==
  /\ Found(ordMgr, new)
  /\ new.dealSize = Signed(Lookup(ordMgr, new).side, new.dealSize)
  /\ ordMgr' = UpdateFromTDGW(ordMgr, new)
  /\ UNCHANGED used

Next ==
  \/ \E o \in NewOrder : AddOrder(o)
  \/ \E id \in OrderId : RemoveOrder(id)
  \/ \E new \in ReportFromExch : OnReportFromExch(new)
  \/ \E new \in ReportFromTDGW : OnReportFromTDGW(new)

Spec == Init /\ [][Next]_vars

-----------------------------------------------------------------------------
\* What an order looks like in the manager, wherever it is held.
Held(id) == id \in OpenIds(ordMgr) \cup RecentIds(ordMgr)

OrderOf(om, id) ==
  IF id \in OpenIds(om) THEN om.open[id]
  ELSE LET i == CHOOSE i \in DOMAIN om.recent : om.recent[i].orderId = id
       IN  om.recent[i]

\* Types; a deal size has the sign of its side wherever the order is held.
TypeOK ==
  /\ IsGroup(ordMgr) /\ used \in SUBSET OrderId
  /\ \A id \in OrderId :
       Held(id) => HasSignOfSide(OrderOf(ordMgr, id))

\* The two containers never hold the same order, neither holds an order
\* twice, and an order under way is never a closed one: a report that closes
\* an order always moves it (OrdMgr.hpp, the branch on closed()).
OneHome ==
  /\ OpenIds(ordMgr) \cap RecentIds(ordMgr) = {}
  /\ \A id \in OpenIds(ordMgr) : ordMgr.open[id].orderId = id
  /\ \A i, j \in DOMAIN ordMgr.recent :
       ordMgr.recent[i].orderId = ordMgr.recent[j].orderId => i = j
OpenIsUnclosed == \A id \in OpenIds(ordMgr) : ~closed(ordMgr.open[id])

\* The recently closed orders stay within their bound whatever closes.
RecentBounded == Len(ordMgr.recent) <= MaxClosed

\* The position an order under way still freezes is never negative, also
\* when the exchange reports too many or duplicated deals: an overfilled
\* order is closed by the very report that overfills it.
FrozenNotNegative ==
  \A id \in OpenIds(ordMgr) : getUndealedSize(ordMgr.open[id]) >= 0

\* What a gateway reports never changes it: outside the gateways a closed
\* order keeps its status however late or often a report comes.  (The step
\* that changes it is never one of a gateway's reports.)
ClosedStatusKeptByTDGW ==
  [][(\E id \in RecentIds(ordMgr) \cap RecentIds(ordMgr') :
        /\ closed(OrderOf(ordMgr, id))
        /\ OrderOf(ordMgr', id).orderStatus # OrderOf(ordMgr, id).orderStatus)
     => ~ \E new \in ReportFromTDGW : OnReportFromTDGW(new)]_vars

\* The manager implements the life of an order: however late, duplicated or
\* reordered the reports are, a closed order is never under way again, a
\* size dealt is never taken back, and a closed order is forgotten only
\* when the recent ones are full.
Phase ==
  [id \in OrderId |-> CASE id \in OpenIds(ordMgr) -> "live"
                       [] id \in RecentIds(ordMgr) \ OpenIds(ordMgr) -> "done"
                       [] ~Held(id) -> IF id \in used THEN "gone" ELSE "absent"]
Dealt ==
  [id \in OrderId |-> IF Held(id) THEN Abs(OrderOf(ordMgr, id).dealSize) ELSE 0]

Life == INSTANCE OrderLifecycle
          WITH Id <- OrderId, Capacity <- MaxClosed, phase <- Phase, dealt <- Dealt

ImplementsLifecycle == Life!LifecycleSpec
=============================================================================
