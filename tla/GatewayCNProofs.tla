--------------------------- MODULE GatewayCNProofs ---------------------------
(***************************************************************************)
(* No deal is counted twice by the gateways to CTP and to XTP, although    *)
(* both learn a deal from its trade return and from the answer to a query, *)
(* for every set of orders and sizes and every bound.                      *)
(*                                                                         *)
(* CTP believes an answer when no return is on its way: what is held, and  *)
(* what its returns still bring, is never more than was dealt (CTPInv).    *)
(* XTP believes it when what was on its way when it was given has come, so *)
(* every claim about what was dealt has a place among the messages on      *)
(* their way: of an order return its own, of an answer the place it awaits,*)
(* of what is held the first.  A claim, and the trade returns that come    *)
(* after its place, are never more than was dealt (XTPInv).                *)
(***************************************************************************)
EXTENDS MCGatewayCN, OrderGroupProofs

\* CTP's and XTP's identifier of an order is taken to be its orderId.
ExchIdIsOrderId == OrderId \subseteq ExchOrderId

AtExch == {"live", "filled", "canceled"}

-----------------------------------------------------------------------------
\* CTP.  What is on its way and what waits is about an order CTP took, the
\* answer says no more than was dealt, and an entry of the timer counts the
\* trade returns on their way.
Taken(id) == exch[id].status \in AtExch

TypedCTP ==
  /\ used \subseteq OrderId
  /\ exch \in [OrderId -> [status : AtExch \cup {"absent", "sent", "rejected"},
                           size : Nat, dealt : Nat]]
  /\ returns \in [OrderId -> SUBSET {"confirmed", "canceled", "rejected"}]
  /\ trades \in [OrderId -> Nat]
  /\ request \in [OrderId -> {"none", "give up", "query"}]
  /\ answer \in [OrderId -> [status : AtExch \cup {"none"}, dealt : Nat]]
  /\ timer \in [OrderId -> [state : {"none", "seen", "ripe"}, awaited : Nat]]

HeldCTP == GoodGroup(ordMgr) /\ HeldIds(ordMgr) \subseteq used

Unseen(id) ==
  /\ exch[id].status = "absent" /\ trades[id] = 0 /\ returns[id] = {}
  /\ request[id] = "none" /\ answer[id] = NoAnswer /\ timer[id] = NoEntry

UnderWay(id) ==
  /\ "confirmed" \in returns[id] \/ "canceled" \in returns[id] => Taken(id)
  /\ trades[id] > 0 => Taken(id)
  /\ request[id] = "query" => Taken(id)
  /\ answer[id].status # "none" => Taken(id) /\ answer[id].dealt <= exch[id].dealt
  /\ answer[id].status = "none" => answer[id] = NoAnswer

Counted(id) ==
  /\ timer[id].state = "none" => timer[id] = NoEntry
  /\ timer[id].state # "none" => timer[id].awaited = trades[id]
  /\ timer[id].state = "ripe" => trades[id] = 0

CopyOK(id) ==
  id \in HeldIds(ordMgr) =>
    /\ Abs(CopyOf(ordMgr, id).dealSize) + trades[id] <= exch[id].dealt
    /\ ~closed(CopyOf(ordMgr, id)) /\ CopyOf(ordMgr, id).exchOrderId # Unset => Taken(id)

OrderOK(id) == (id \notin used => Unseen(id)) /\ UnderWay(id) /\ Counted(id) /\ CopyOK(id)

CTPInv == TypedCTP /\ HeldCTP /\ \A id \in OrderId : OrderOK(id)

LEMMA Frame ==
  ASSUME CTPInv, NEW x \in OrderId,
         exch'[x] = exch[x], trades'[x] = trades[x], returns'[x] = returns[x],
         request'[x] = request[x], answer'[x] = answer[x], timer'[x] = timer[x],
         x \notin used' => x \notin used,
         x \in HeldIds(ordMgr') =>
           x \in HeldIds(ordMgr) /\ CopyOf(ordMgr', x) = CopyOf(ordMgr, x)
  PROVE  OrderOK(x)'
BY DEF CTPInv, OrderOK, Unseen, UnderWay, Counted, CopyOK, Taken

\* An order is sent.
LEMMA OnOrderKeeps ==
  ASSUME CTPInv, NEW id \in OrderId, NEW side \in Side, NEW size \in Size, OnOrder(id, side, size)
  PROVE  CTPInv'
<1> DEFINE o == NewOrder(id, side, size)
<1>1. o \in Order /\ o.orderId = id /\ o.dealSize = 0 /\ o.exchOrderId = Unset /\ ~closed(o) /\ Sound(o)
  <2>1. side \in {"Bid", "Ask"} /\ size \in Nat
    BY SideAssumption, SizeAssumption
  <2> QED BY <2>1 DEF NewOrder, Order, OrderStatus, Pending, closed, Filled, Sound, Signed, Abs, Unset
<1>2. /\ id \notin used /\ used' = used \cup {id} /\ ordMgr' = add(ordMgr, o)
      /\ exch' = [exch EXCEPT ![id] = [status |-> "sent", size |-> size, dealt |-> 0]]
      /\ returns' = returns /\ trades' = trades /\ request' = request /\ answer' = answer
      /\ timer' = timer
  BY DEF OnOrder
<1> HIDE DEF o
<1>3. id \notin HeldIds(ordMgr) /\ GoodGroup(ordMgr)
  BY <1>2 DEF CTPInv, HeldCTP
<1>4. /\ GoodGroup(ordMgr') /\ HeldIds(ordMgr') = HeldIds(ordMgr) \cup {id}
      /\ CopyOf(ordMgr', id) = o
      /\ \A x \in HeldIds(ordMgr) : CopyOf(ordMgr', x) = CopyOf(ordMgr, x)
  BY <1>1, <1>2, <1>3, AddCopies
<1>5. TypedCTP' /\ HeldCTP'
  BY <1>2, <1>4, SizeAssumption DEF CTPInv, TypedCTP, HeldCTP
<1>6. OrderOK(id)'
  <2>1. Unseen(id) /\ UnderWay(id) /\ Counted(id)
    BY <1>2 DEF CTPInv, OrderOK
  <2>2. exch'[id].dealt = 0
    BY <1>2 DEF CTPInv, TypedCTP
  <2> QED BY <1>1, <1>2, <1>4, <2>1, <2>2
          DEF OrderOK, Unseen, UnderWay, Counted, CopyOK, NoEntry, NoAnswer, Abs
<1>7. ASSUME NEW x \in OrderId, x # id PROVE OrderOK(x)'
  BY <1>2, <1>4, <1>7, Frame DEF CTPInv, TypedCTP
<1> QED BY <1>5, <1>6, <1>7 DEF CTPInv

\* CTP's own steps: it says what it takes, deals only when there is no entry
\* in the timer, and what it deals is on its way.
LEMMA ExchKeeps ==
  ASSUME Quiet, CTPInv, NEW id \in OrderId,
         ExchTakesOrder(id) \/ ExchRefusesOrder(id) \/ ExchDeals(id) \/ ExchCancels(id)
  PROVE  CTPInv'
<1> DEFINE Effect(e, t, r) ==
             /\ ordMgr' = ordMgr /\ used' = used /\ request' = request /\ answer' = answer
             /\ timer' = timer
             /\ exch' = [exch EXCEPT ![id] = e] /\ trades' = [trades EXCEPT ![id] = t]
             /\ returns' = [returns EXCEPT ![id] = r]
<1>0. /\ exch \in [OrderId -> [status : AtExch \cup {"absent", "sent", "rejected"},
                               size : Nat, dealt : Nat]]
      /\ returns \in [OrderId -> SUBSET {"confirmed", "canceled", "rejected"}]
      /\ trades \in [OrderId -> Nat]
  BY DEF CTPInv, TypedCTP
<1>1. PICK e, t, r :
        /\ Effect(e, t, r)
        /\ e \in [status : AtExch \cup {"absent", "sent", "rejected"}, size : Nat, dealt : Nat]
        /\ t \in Nat /\ r \in SUBSET {"confirmed", "canceled", "rejected"}
        /\ exch[id].status \in {"sent", "live"}
        /\ Taken(id) => e.status \in AtExch
        /\ \/ t = trades[id] /\ e.dealt = exch[id].dealt
           \/ /\ t = trades[id] + 1 /\ e.dealt = exch[id].dealt + 1
              /\ timer[id] = NoEntry /\ Taken(id)
        /\ "confirmed" \in r \/ "canceled" \in r =>
             "confirmed" \in returns[id] \/ "canceled" \in returns[id] \/ e.status \in AtExch
  <2>1. CASE ExchTakesOrder(id)
    <3> DEFINE e == [exch[id] EXCEPT !.status = "live"]
               r == returns[id] \cup {"confirmed"}
    <3>1. Effect(e, trades[id], r) /\ exch[id].status = "sent"
      BY <1>0, <2>1 DEF ExchTakesOrder, gwVars
    <3>2. e \in [status : AtExch \cup {"absent", "sent", "rejected"}, size : Nat, dealt : Nat]
          /\ e.status = "live" /\ e.dealt = exch[id].dealt
      BY <1>0 DEF AtExch
    <3>3. r \in SUBSET {"confirmed", "canceled", "rejected"}
      BY <1>0
    <3> HIDE DEF Effect, e
    <3> QED BY <1>0, <3>1, <3>2, <3>3 DEF AtExch
  <2>2. CASE ExchRefusesOrder(id)
    <3> DEFINE e == [exch[id] EXCEPT !.status = "rejected"]
               r == returns[id] \cup {"rejected"}
    <3>1. Effect(e, trades[id], r) /\ exch[id].status = "sent"
      BY <1>0, <2>2 DEF ExchRefusesOrder, gwVars
    <3>2. e \in [status : AtExch \cup {"absent", "sent", "rejected"}, size : Nat, dealt : Nat]
          /\ e.status = "rejected" /\ e.dealt = exch[id].dealt
      BY <1>0 DEF AtExch
    <3>3. r \in SUBSET {"confirmed", "canceled", "rejected"}
      BY <1>0
    <3> HIDE DEF Effect, e
    <3> QED BY <1>0, <3>1, <3>2, <3>3 DEF AtExch, Taken
  <2>3. CASE ExchDeals(id)
    <3> DEFINE n == exch[id].dealt + 1
               s == IF n = exch[id].size THEN "filled" ELSE "live"
               e == [exch[id] EXCEPT !.dealt = n, !.status = s]
    <3>1. /\ Effect(e, trades[id] + 1, returns[id])
          /\ exch[id].status = "live" /\ timer[id] = NoEntry
      BY <1>0, <2>3 DEF ExchDeals, gwVars
    <3>2. e \in [status : AtExch \cup {"absent", "sent", "rejected"}, size : Nat, dealt : Nat]
          /\ e.status \in {"live", "filled"} /\ e.dealt = n
      <4>1. n \in Nat /\ s \in {"live", "filled"}
        BY <1>0
      <4> HIDE DEF n, s
      <4> QED BY <1>0, <4>1 DEF AtExch
    <3> HIDE DEF Effect, e
    <3> QED BY <1>0, <3>1, <3>2 DEF AtExch, Taken
  <2>4. CASE ExchCancels(id)
    <3> DEFINE e == [exch[id] EXCEPT !.status = "canceled"]
               r == IF exch[id].dealt = 0 THEN returns[id] \cup {"canceled"} ELSE returns[id]
    <3>1. Effect(e, trades[id], r) /\ exch[id].status = "live"
      BY <1>0, <2>4 DEF ExchCancels, gwVars
    <3>2. e \in [status : AtExch \cup {"absent", "sent", "rejected"}, size : Nat, dealt : Nat]
          /\ e.status = "canceled" /\ e.dealt = exch[id].dealt
      BY <1>0 DEF AtExch
    <3>3. r \in SUBSET {"confirmed", "canceled", "rejected"}
      BY <1>0
    <3> HIDE DEF Effect, e
    <3> QED BY <1>0, <3>1, <3>2, <3>3 DEF AtExch
  <2> QED BY <2>1, <2>2, <2>3, <2>4
<1>2. TypedCTP' /\ HeldCTP'
  BY <1>1 DEF CTPInv, TypedCTP, HeldCTP
<1>3. id \in used /\ UnderWay(id) /\ Counted(id) /\ CopyOK(id)
  BY <1>1 DEF CTPInv, OrderOK, Unseen
<1>4. exch'[id] = e /\ trades'[id] = t /\ returns'[id] = r
  BY <1>0, <1>1
<1>5. OrderOK(id)'
  <2>1. /\ trades[id] \in Nat /\ exch[id].dealt \in Nat /\ e.dealt \in Nat
        /\ answer[id].dealt \in Nat /\ timer[id].awaited \in Nat
    BY <1>1 DEF CTPInv, TypedCTP
  <2>2. id \in HeldIds(ordMgr) => Abs(CopyOf(ordMgr, id).dealSize) \in Int
    BY CopyIs DEF CTPInv, HeldCTP, Order, Abs
  <2>3. CopyOK(id)'
    BY <1>1, <1>3, <1>4, <2>1, <2>2 DEF CopyOK, Taken
  <2>4. UnderWay(id)'
    BY <1>1, <1>3, <1>4, <2>1 DEF UnderWay, Taken
  <2>5. Counted(id)'
    BY <1>1, <1>3, <1>4 DEF Counted, NoEntry
  <2> QED BY <1>1, <1>3, <2>3, <2>4, <2>5 DEF OrderOK
<1>6. ASSUME NEW x \in OrderId, x # id PROVE OrderOK(x)'
  BY <1>0, <1>1, <1>6, Frame
<1> QED BY <1>2, <1>5, <1>6 DEF CTPInv

\* What is said of an order is merged: how the copy changes.
LEMMA MergedCopy ==
  ASSUME CTPInv, NEW id \in OrderId, NEW new \in Report, new.orderId = id,
         new.dealSize \in Nat, new.lastDealSize \in Nat, ordMgr' = UpdateFromExch(ordMgr, new)
  PROVE  /\ GoodGroup(ordMgr') /\ HeldIds(ordMgr') \subseteq HeldIds(ordMgr)
         /\ \A x \in HeldIds(ordMgr') : x # id => CopyOf(ordMgr', x) = CopyOf(ordMgr, x)
         /\ id \in HeldIds(ordMgr') =>
              LET o == CopyOf(ordMgr, id)
                  p == CopyOf(ordMgr', id) IN
              /\ Abs(o.dealSize) \in Nat /\ Abs(p.dealSize) \in Nat
              /\ IF IsRtnTrade(new) THEN Abs(p.dealSize) = Abs(o.dealSize) + new.lastDealSize
                                    ELSE Abs(p.dealSize) \in {Abs(o.dealSize), new.dealSize}
              /\ p.exchOrderId # Unset => o.exchOrderId # Unset \/ new.exchOrderId # Unset
              /\ ~closed(p) /\ ~IsRtnTrade(new) => ~closed(o) /\ new.orderStatus < Filled
BY MergeCopies DEF CTPInv, HeldCTP

\* A report that says nothing of an order but its orderId.
LEMMA BlankIs ==
  ASSUME NEW id \in OrderId
  PROVE  /\ BlankReport(id) \in Report
         /\ BlankReport(id).orderId = id /\ BlankReport(id).exchOrderId = Unset
         /\ BlankReport(id).dealSize = 0 /\ BlankReport(id).lastDealSize = 0
<1> DEFINE o == NewOrder(id, "Bid", 1)
           r == ReportOf(o)
<1>1. o.orderId = id /\ o.exchOrderId = Unset /\ o.dealSize = 0 /\ o.orderStatus = Pending
      /\ o.feeCurrency = Unset /\ o.statusCode = Unset
  BY DEF NewOrder
<1> HIDE DEF o
<1>2. Pending \in OrderStatus /\ Created \in OrderStatus
  BY DEF OrderStatus
<1>3. r \in Report /\ r.orderId = id /\ r.dealSize = 0 /\ r.lastDealSize = 0 /\ r.exchOrderId = Unset
  BY <1>1, <1>2, ReportGood
<1>4. BlankReport(id) = [r EXCEPT !.orderStatus = Created]
  BY DEF BlankReport, o
<1> HIDE DEF r
<1> QED BY <1>2, <1>3, <1>4 DEF Report

\* What an order return, a trade return and an answer add to such a report.
OrderReturnFrom(b, st, x) == [b EXCEPT !.orderStatus = st, !.exchOrderId = x]
TradeReturnFrom(b, x) == [b EXCEPT !.exchOrderId = x, !.lastDealSize = 1, !.lastPriced = TRUE]
AnswerFrom(b, x, st, n) ==
  [b EXCEPT !.exchOrderId = x, !.orderStatus = st, !.dealSize = n, !.avgPriced = TRUE]

LEMMA ReportFrom ==
  ASSUME NEW b \in Report, b.dealSize = 0, b.lastDealSize = 0, NEW x \in ExchOrderId,
         NEW st \in OrderStatus, NEW n \in Nat
  PROVE  /\ OrderReturnFrom(b, st, x) \in Report
         /\ OrderReturnFrom(b, st, x).orderId = b.orderId
         /\ OrderReturnFrom(b, st, x).dealSize = 0 /\ OrderReturnFrom(b, st, x).lastDealSize = 0
         /\ TradeReturnFrom(b, x) \in Report /\ TradeReturnFrom(b, x).orderId = b.orderId
         /\ TradeReturnFrom(b, x).dealSize = 0 /\ TradeReturnFrom(b, x).lastDealSize = 1
         /\ AnswerFrom(b, x, st, n) \in Report /\ AnswerFrom(b, x, st, n).orderId = b.orderId
         /\ AnswerFrom(b, x, st, n).dealSize = n /\ AnswerFrom(b, x, st, n).lastDealSize = 0
<1>1. /\ OrderReturnFrom(b, st, x) \in Report
      /\ OrderReturnFrom(b, st, x).orderId = b.orderId
      /\ OrderReturnFrom(b, st, x).dealSize = 0 /\ OrderReturnFrom(b, st, x).lastDealSize = 0
  BY DEF Report, OrderReturnFrom
<1> DEFINE t == TRUE
           k == 1
           r == [b EXCEPT !.exchOrderId = x, !.lastDealSize = k, !.lastPriced = t]
           a == [b EXCEPT !.exchOrderId = x, !.orderStatus = st, !.dealSize = n, !.avgPriced = t]
<1>2. t \in BOOLEAN /\ n \in Int /\ k \in Int
  OBVIOUS
<1>3. r = TradeReturnFrom(b, x) /\ a = AnswerFrom(b, x, st, n)
  BY DEF TradeReturnFrom, AnswerFrom
<1> HIDE DEF t, k
<1>4. r \in Report /\ r.orderId = b.orderId /\ r.dealSize = 0 /\ r.lastDealSize = k
  BY <1>2 DEF Report
<1>5. a \in Report /\ a.orderId = b.orderId /\ a.dealSize = n /\ a.lastDealSize = 0
  BY <1>2 DEF Report
<1> HIDE DEF r, a
<1> QED BY <1>1, <1>3, <1>4, <1>5 DEF k

LEMMA FailedIs ==
  ASSUME NEW id \in OrderId
  PROVE  /\ FailedReport(id) \in Report /\ FailedReport(id).orderId = id
         /\ FailedReport(id).dealSize = 0 /\ FailedReport(id).lastDealSize = 0
         /\ FailedReport(id).orderStatus = Failed /\ FailedReport(id).exchOrderId = Unset
<1> DEFINE b == BlankReport(id)
<1>1. /\ b \in Report /\ b.orderId = id /\ b.dealSize = 0 /\ b.lastDealSize = 0
      /\ b.exchOrderId = Unset
  BY BlankIs
<1>2. FailedReport(id) = [b EXCEPT !.orderStatus = Failed, !.statusCode = 1]
  BY DEF FailedReport
<1> HIDE DEF b
<1> QED BY <1>1, <1>2 DEF Report, OrderStatus

\* The answer to a query.
LEMMA AnswerIs ==
  ASSUME TypedCTP, NEW id \in OrderId, ExchIdIsOrderId, answer[id].status \in AtExch
  PROVE  /\ AnswerReport(id) \in Report /\ AnswerReport(id).orderId = id
         /\ AnswerReport(id).dealSize = answer[id].dealt /\ answer[id].dealt \in Nat
         /\ AnswerReport(id).lastDealSize = 0
<1>1. /\ BlankReport(id) \in Report /\ BlankReport(id).orderId = id
      /\ BlankReport(id).dealSize = 0 /\ BlankReport(id).lastDealSize = 0 /\ id \in ExchOrderId
  BY BlankIs DEF ExchIdIsOrderId
<1>2. GetOrderStatus(answer[id]) \in OrderStatus
  BY DEF GetOrderStatus, AtExch, OrderStatus
<1>3. answer[id].dealt \in Nat
  BY DEF TypedCTP
<1>4. AnswerReport(id) = AnswerFrom(BlankReport(id), id, GetOrderStatus(answer[id]), answer[id].dealt)
  BY DEF AnswerReport, AnswerFrom
<1> QED BY <1>1, <1>2, <1>3, <1>4, ReportFrom

-----------------------------------------------------------------------------
\* What merging needs of a report to keep what CTP's copy is to be.
LEMMA MergeKeepsCopy ==
  ASSUME CTPInv, NEW id \in OrderId, NEW new \in Report, new.orderId = id,
         new.dealSize \in Nat, new.lastDealSize \in Nat, ordMgr' = UpdateFromExch(ordMgr, new),
         exch' = exch, NEW t \in Nat, trades'[id] = t, t <= trades[id],
         new.lastDealSize + t <= trades[id],
         new.dealSize = 0 \/ new.dealSize + t <= exch[id].dealt,
         new.exchOrderId # Unset \/ IsRtnTrade(new) => Taken(id) \/ id \notin HeldIds(ordMgr)
  PROVE  CopyOK(id)'
<1> SUFFICES ASSUME id \in HeldIds(ordMgr')
             PROVE  /\ Abs(CopyOf(ordMgr', id).dealSize) + t <= exch[id].dealt
                    /\ ~closed(CopyOf(ordMgr', id)) /\ CopyOf(ordMgr', id).exchOrderId # Unset
                         => Taken(id)
  BY DEF CopyOK, Taken
<1> DEFINE o == CopyOf(ordMgr, id)
           p == CopyOf(ordMgr', id)
<1>1. /\ id \in HeldIds(ordMgr)
      /\ Abs(o.dealSize) \in Nat /\ Abs(p.dealSize) \in Nat
      /\ IF IsRtnTrade(new) THEN Abs(p.dealSize) = Abs(o.dealSize) + new.lastDealSize
                            ELSE Abs(p.dealSize) \in {Abs(o.dealSize), new.dealSize}
      /\ p.exchOrderId # Unset => o.exchOrderId # Unset \/ new.exchOrderId # Unset
      /\ ~closed(p) /\ ~IsRtnTrade(new) => ~closed(o) /\ new.orderStatus < Filled
  BY MergedCopy
<1>2. /\ Abs(o.dealSize) + trades[id] <= exch[id].dealt
      /\ ~closed(o) /\ o.exchOrderId # Unset => Taken(id)
  BY <1>1 DEF CTPInv, OrderOK, CopyOK
<1>3. trades[id] \in Nat /\ exch[id].dealt \in Nat
  BY DEF CTPInv, TypedCTP
<1> HIDE DEF o, p
<1>4. Abs(p.dealSize) + t <= exch[id].dealt
  BY <1>1, <1>2, <1>3
<1>5. ~closed(p) /\ p.exchOrderId # Unset => Taken(id)
  BY <1>1, <1>2
<1> QED BY <1>4, <1>5 DEF p

\* What only the callbacks and the threads of the gateway change.
LEMMA MergeFrame ==
  ASSUME CTPInv, NEW id \in OrderId, NEW new \in Report, new.orderId = id,
         new.dealSize \in Nat, new.lastDealSize \in Nat, ordMgr' = UpdateFromExch(ordMgr, new),
         exch' = exch, used' = used, NEW x \in OrderId, x # id,
         trades'[x] = trades[x], returns'[x] = returns[x],
         request'[x] = request[x], answer'[x] = answer[x], timer'[x] = timer[x]
  PROVE  OrderOK(x)'
BY MergedCopy, Frame

\* An order return is handled or lost.
LEMMA OrderReturnKeeps ==
  ASSUME CTPInv, NEW id \in OrderId, ExchIdIsOrderId,
         \/ \E return \in DOMAIN StatusOfReturn :
              LoseOrderReturn(id, return) \/ OnRtnOrder(id, return)
         \/ OnRspOrderInsert(id)
  PROVE  CTPInv'
<1>0. PICK return \in {"confirmed", "canceled", "rejected"} :
        /\ OrderReturnLeaves(id, return)
        /\ \/ ordMgr' = ordMgr
           \/ /\ return \in {"confirmed", "canceled"}
              /\ ordMgr' = UpdateFromExch(ordMgr,
                   [BlankReport(id) EXCEPT !.orderStatus = StatusOfReturn[return], !.exchOrderId = id])
           \/ ordMgr' = UpdateFromExch(ordMgr, FailedReport(id))
  BY DEF StatusOfReturn, LoseOrderReturn, OnRtnOrder, OnRspOrderInsert
<1>1. /\ return \in returns[id] /\ returns' = [returns EXCEPT ![id] = @ \ {return}]
      /\ exch' = exch /\ used' = used /\ trades' = trades /\ request' = request
      /\ answer' = answer /\ timer' = timer
  BY <1>0 DEF OrderReturnLeaves, exchVars
<1>2. /\ returns \in [OrderId -> SUBSET {"confirmed", "canceled", "rejected"}]
      /\ trades[id] \in Nat /\ exch[id].dealt \in Nat
  BY DEF CTPInv, TypedCTP
<1>3. TypedCTP'
  BY <1>1, <1>2 DEF CTPInv, TypedCTP
<1>4. /\ id \in used /\ UnderWay(id) /\ Counted(id) /\ CopyOK(id)
  BY <1>1 DEF CTPInv, OrderOK, Unseen
<1>5. returns'[id] \subseteq returns[id] /\ \A x \in OrderId : x # id => returns'[x] = returns[x]
  BY <1>1, <1>2
<1>6. UnderWay(id)' /\ Counted(id)'
  BY <1>1, <1>4, <1>5 DEF UnderWay, Counted, Taken
<1>7. CASE ordMgr' = ordMgr
  <2>1. CopyOK(id)'
    BY <1>1, <1>4, <1>7 DEF CopyOK, Taken
  <2>2. ASSUME NEW x \in OrderId, x # id PROVE OrderOK(x)'
    BY <1>1, <1>5, <1>7, <2>2, Frame
  <2> QED BY <1>1, <1>3, <1>4, <1>6, <1>7, <2>1, <2>2 DEF CTPInv, HeldCTP, OrderOK
<1>8. ASSUME NEW new \in Report, new.orderId = id, new.dealSize = 0, new.lastDealSize = 0,
             new.exchOrderId # Unset => Taken(id), ordMgr' = UpdateFromExch(ordMgr, new)
      PROVE  CTPInv'
  <2>0. ~IsRtnTrade(new)
    BY <1>8 DEF IsRtnTrade
  <2>1. CopyOK(id)'
    BY <1>1, <1>2, <1>8, <2>0, MergeKeepsCopy
  <2>2. ASSUME NEW x \in OrderId, x # id PROVE OrderOK(x)'
    BY <1>1, <1>5, <1>8, <2>2, MergeFrame
  <2>3. HeldCTP'
    BY <1>1, <1>8, MergedCopy DEF CTPInv, HeldCTP
  <2> QED BY <1>1, <1>3, <1>4, <1>6, <2>1, <2>2, <2>3 DEF CTPInv, OrderOK
<1>9. CASE /\ return \in {"confirmed", "canceled"}
           /\ ordMgr' = UpdateFromExch(ordMgr,
                [BlankReport(id) EXCEPT !.orderStatus = StatusOfReturn[return], !.exchOrderId = id])
  <2>1. StatusOfReturn[return] \in OrderStatus /\ id \in ExchOrderId
    BY <1>9 DEF StatusOfReturn, OrderStatus, ExchIdIsOrderId
  <2>2. Taken(id)
    BY <1>1, <1>4, <1>9 DEF UnderWay
  <2> DEFINE new == OrderReturnFrom(BlankReport(id), StatusOfReturn[return], id)
  <2>3. /\ new \in Report /\ new.orderId = id /\ new.dealSize = 0 /\ new.lastDealSize = 0
    <3>1. 0 \in Nat
      OBVIOUS
    <3> QED BY <2>1, <3>1, BlankIs, ReportFrom
  <2>4. ordMgr' = UpdateFromExch(ordMgr, new)
    BY <1>9 DEF OrderReturnFrom
  <2> HIDE DEF new
  <2> QED BY <1>8, <2>2, <2>3, <2>4
<1>10. CASE ordMgr' = UpdateFromExch(ordMgr, FailedReport(id))
  BY <1>8, <1>10, FailedIs
<1> QED BY <1>0, <1>7, <1>9, <1>10

\* A trade return is handled or lost: what is counted leaves the way.
LEMMA TradeReturnKeeps ==
  ASSUME CTPInv, NEW id \in OrderId, ExchIdIsOrderId, LoseTradeReturn(id) \/ OnRtnTrade(id)
  PROVE  CTPInv'
<1> DEFINE new == [BlankReport(id) EXCEPT !.exchOrderId = id, !.lastDealSize = 1, !.lastPriced = TRUE]
           e == [timer[id] EXCEPT !.awaited = IF @ = 0 THEN 0 ELSE @ - 1]
<1>1. /\ trades[id] > 0 /\ trades' = [trades EXCEPT ![id] = @ - 1]
      /\ timer' = [timer EXCEPT ![id] = e]
      /\ exch' = exch /\ used' = used /\ returns' = returns /\ request' = request
      /\ answer' = answer
      /\ ordMgr' = ordMgr \/ ordMgr' = UpdateFromExch(ordMgr, new)
  BY DEF LoseTradeReturn, OnRtnTrade, TradeReturnLeaves, exchVars
<1>2. /\ trades \in [OrderId -> Nat] /\ exch[id].dealt \in Nat
      /\ timer \in [OrderId -> [state : {"none", "seen", "ripe"}, awaited : Nat]]
  BY DEF CTPInv, TypedCTP
<1>3. /\ id \in used /\ UnderWay(id) /\ Counted(id) /\ CopyOK(id) /\ Taken(id)
  BY <1>1, <1>2 DEF CTPInv, OrderOK, Unseen, UnderWay
<1>4. /\ e \in [state : {"none", "seen", "ripe"}, awaited : Nat] /\ e.state = timer[id].state
      /\ e.awaited = IF timer[id].awaited = 0 THEN 0 ELSE timer[id].awaited - 1
      /\ timer[id].state = "none" => e = timer[id]
  <2>1. /\ timer[id] \in [state : {"none", "seen", "ripe"}, awaited : Nat]
        /\ timer[id].awaited \in Nat
    BY <1>2
  <2> DEFINE n == IF timer[id].awaited = 0 THEN 0 ELSE timer[id].awaited - 1
  <2>2. n \in Nat /\ (timer[id].awaited = 0 => n = 0)
    BY <2>1
  <2>3. e = [timer[id] EXCEPT !.awaited = n]
    OBVIOUS
  <2>4. timer[id].state = "none" => timer[id] = NoEntry /\ timer[id].awaited = 0
    BY <1>3 DEF Counted, NoEntry
  <2> HIDE DEF e, n
  <2>5. /\ e \in [state : {"none", "seen", "ripe"}, awaited : Nat] /\ e.state = timer[id].state
        /\ e.awaited = n /\ (n = timer[id].awaited => e = timer[id])
    BY <2>1, <2>2, <2>3
  <2> QED BY <2>2, <2>4, <2>5 DEF n
<1>5. /\ trades'[id] = trades[id] - 1 /\ trades[id] - 1 \in Nat /\ timer'[id] = e
      /\ \A x \in OrderId : x # id => trades'[x] = trades[x] /\ timer'[x] = timer[x]
  BY <1>1, <1>2
<1> HIDE DEF e, new
<1>6. TypedCTP'
  BY <1>1, <1>2, <1>4, <1>5 DEF CTPInv, TypedCTP
<1>7. UnderWay(id)'
  BY <1>1, <1>3, <1>5 DEF UnderWay, Taken
<1>8. Counted(id)'
  <2>1. trades[id] \in Nat /\ timer[id].awaited \in Nat
    BY <1>2
  <2> QED BY <1>1, <1>3, <1>4, <1>5, <2>1 DEF Counted
<1>9. CASE ordMgr' = ordMgr
  <2>1. CopyOK(id)'
    <3>1. id \in HeldIds(ordMgr) => Abs(CopyOf(ordMgr, id).dealSize) \in Int
      BY CopyIs DEF CTPInv, HeldCTP, Order, Abs
    <3> QED BY <1>1, <1>2, <1>3, <1>5, <1>9, <3>1 DEF CopyOK, Taken
  <2>2. ASSUME NEW x \in OrderId, x # id PROVE OrderOK(x)'
    BY <1>1, <1>5, <1>9, <2>2, Frame
  <2> QED BY <1>1, <1>3, <1>6, <1>7, <1>8, <1>9, <2>1, <2>2 DEF CTPInv, HeldCTP, OrderOK
<1>10. CASE ordMgr' = UpdateFromExch(ordMgr, new)
  <2>1. new \in Report /\ new.orderId = id /\ new.dealSize = 0 /\ new.lastDealSize = 1
    <3>1. new = TradeReturnFrom(BlankReport(id), id)
      BY DEF new, TradeReturnFrom
    <3>2. Created \in OrderStatus /\ 0 \in Nat
      BY DEF OrderStatus
    <3> QED BY <3>1, <3>2, BlankIs, ReportFrom DEF ExchIdIsOrderId
  <2> DEFINE k == trades[id] - 1
  <2>2. k \in Nat /\ trades'[id] = k /\ k <= trades[id] /\ 1 + k <= trades[id]
    BY <1>2, <1>5
  <2> HIDE DEF k
  <2>3. CopyOK(id)'
    BY <1>1, <1>3, <1>10, <2>1, <2>2, MergeKeepsCopy
  <2>4. ASSUME NEW x \in OrderId, x # id PROVE OrderOK(x)'
    BY <1>1, <1>5, <1>10, <2>1, <2>4, MergeFrame
  <2>5. HeldCTP'
    BY <1>1, <1>10, <2>1, MergedCopy DEF CTPInv, HeldCTP
  <2> QED BY <1>1, <1>3, <1>6, <1>7, <1>8, <2>3, <2>4, <2>5 DEF CTPInv, OrderOK
<1> QED BY <1>1, <1>9, <1>10

\* The query thread, the scheduler and the clock.
LEMMA QueryKeeps ==
  ASSUME CTPInv, NEW id \in OrderId,
         \/ SyncUnclosedOrders(id) \/ QueryOrder(id) \/ QueryFails(id) \/ TimePasses(id)
         \/ OnCancelOrder(id)
  PROVE  CTPInv'
<1>1. /\ ordMgr' = ordMgr /\ used' = used /\ exch' = exch /\ trades' = trades /\ returns' = returns
      /\ \A x \in OrderId : x # id => /\ request'[x] = request[x] /\ answer'[x] = answer[x]
                                      /\ timer'[x] = timer[x]
  BY DEF SyncUnclosedOrders, QueryOrder, QueryFails, TimePasses, OnCancelOrder, gwVars, exchVars,
         CTPInv, TypedCTP
<1>2. /\ TypedCTP /\ OrderOK(id) /\ HeldCTP
  BY DEF CTPInv
<1>3. TypedCTP' /\ OrderOK(id)'
  <2>1. CASE SyncUnclosedOrders(id)
    <3>1. id \in OpenIds(ordMgr) /\ id \in HeldIds(ordMgr) /\ id \in used
      BY <1>2, <2>1 DEF SyncUnclosedOrders, HeldCTP, HeldIds
    <3>2. CopyOf(ordMgr, id) = ordMgr.open[id] /\ ~closed(CopyOf(ordMgr, id))
      BY <1>2, <3>1, CopyIs DEF HeldCTP
    <3>3. ordMgr.open[id].exchOrderId # Unset => Taken(id)
      BY <1>2, <3>1, <3>2 DEF OrderOK, CopyOK
    <3>4. /\ answer' = answer /\ timer' = timer
          /\ request' = [request EXCEPT ![id] =
                           IF ordMgr.open[id].exchOrderId = Unset THEN "give up" ELSE "query"]
      BY <2>1 DEF SyncUnclosedOrders, exchVars
    <3>5. TypedCTP'
      BY <1>1, <1>2, <3>4 DEF TypedCTP
    <3> QED BY <1>1, <1>2, <3>1, <3>3, <3>4, <3>5
            DEF TypedCTP, OrderOK, UnderWay, Counted, CopyOK, Taken
  <2>2. CASE QueryOrder(id)
    <3> DEFINE a == [status |-> exch[id].status, dealt |-> exch[id].dealt]
    <3>1. /\ request[id] = "query" /\ request' = [request EXCEPT ![id] = "none"]
          /\ answer' = [answer EXCEPT ![id] = a] /\ timer' = timer
      BY <2>2 DEF QueryOrder, exchVars
    <3>2. Taken(id) /\ id \in used
      BY <1>2, <3>1 DEF OrderOK, UnderWay, Unseen
    <3>3. /\ a \in [status : AtExch \cup {"none"}, dealt : Nat] /\ a.status # "none"
          /\ a.dealt = exch[id].dealt /\ exch[id].dealt \in Nat
      BY <1>2, <3>2 DEF TypedCTP, Taken, AtExch
    <3> HIDE DEF a
    <3>4. TypedCTP'
      BY <1>1, <1>2, <3>1, <3>3 DEF TypedCTP
    <3>5. request'[id] = "none" /\ answer'[id] = a
      BY <1>2, <3>1 DEF TypedCTP
    <3> QED BY <1>1, <1>2, <3>1, <3>2, <3>3, <3>4, <3>5
            DEF OrderOK, UnderWay, Counted, CopyOK, Taken
  <2>3. CASE QueryFails(id)
    BY <1>1, <1>2, <2>3 DEF QueryFails, exchVars, TypedCTP, OrderOK, Unseen, UnderWay, Counted, CopyOK, Taken
  <2>4. CASE TimePasses(id)
    <3> DEFINE e == [timer[id] EXCEPT !.state = "ripe"]
    <3>1. /\ timer[id].state = "seen" /\ timer[id].awaited = 0
          /\ timer' = [timer EXCEPT ![id] = e] /\ request' = request /\ answer' = answer
      BY <2>4 DEF TimePasses, exchVars
    <3>2. /\ e \in [state : {"none", "seen", "ripe"}, awaited : Nat]
          /\ e.state = "ripe" /\ e.awaited = timer[id].awaited
      BY <1>2 DEF TypedCTP
    <3>3. id \in used
      BY <1>2, <3>1 DEF OrderOK, Unseen, NoEntry
    <3> HIDE DEF e
    <3>4. TypedCTP' /\ timer'[id] = e
      BY <1>1, <1>2, <3>1, <3>2 DEF TypedCTP
    <3> QED BY <1>1, <1>2, <3>1, <3>2, <3>3, <3>4
            DEF OrderOK, UnderWay, Counted, CopyOK, Taken
  <2>5. CASE OnCancelOrder(id)
    BY <1>1, <1>2, <2>5 DEF OnCancelOrder, gwVars, TypedCTP, OrderOK, Unseen, UnderWay, Counted, CopyOK, Taken
  <2> QED BY <2>1, <2>2, <2>3, <2>4, <2>5
<1>4. ASSUME NEW x \in OrderId, x # id PROVE OrderOK(x)'
  BY <1>1, <1>4, Frame
<1> QED BY <1>1, <1>2, <1>3, <1>4 DEF CTPInv, HeldCTP

\* An order without exchOrderId is given up.
LEMMA GiveUpKeeps ==
  ASSUME CTPInv, NEW id \in OrderId, GiveUpOrder(id)
  PROVE  CTPInv'
<1> DEFINE new == FailedReport(id)
<1>1. /\ request[id] = "give up" /\ request' = [request EXCEPT ![id] = "none"]
      /\ exch' = exch /\ used' = used /\ returns' = returns /\ trades' = trades
      /\ answer' = answer /\ timer' = timer /\ ordMgr' = UpdateFromExch(ordMgr, new)
  BY DEF GiveUpOrder, exchVars
<1>2. /\ new \in Report /\ new.orderId = id /\ new.dealSize = 0 /\ new.lastDealSize = 0
      /\ new.exchOrderId = Unset /\ new.dealSize \in Nat /\ new.lastDealSize \in Nat
  BY FailedIs
<1> HIDE DEF new
<1>3. TypedCTP /\ OrderOK(id) /\ trades[id] \in Nat /\ exch[id].dealt \in Nat
  BY DEF CTPInv, TypedCTP
<1>4. TypedCTP' /\ \A x \in OrderId : x # id => request'[x] = request[x]
  BY <1>1, <1>3 DEF TypedCTP
<1>5. id \in used /\ UnderWay(id)' /\ Counted(id)'
  <2>1. request'[id] = "none"
    BY <1>1, <1>3 DEF TypedCTP
  <2> QED BY <1>1, <1>3, <2>1 DEF OrderOK, Unseen, UnderWay, Counted, Taken
<1>6. ~IsRtnTrade(new)
  BY <1>2 DEF IsRtnTrade
<1>7. CopyOK(id)'
  <2>1. /\ trades'[id] = trades[id] /\ trades[id] <= trades[id]
        /\ new.lastDealSize + trades[id] <= trades[id]
    <3>1. trades'[id] = trades[id] /\ trades[id] \in Nat
      BY <1>1, <1>3
    <3>2. new.lastDealSize = 0
      BY <1>2
    <3> QED BY <3>1, <3>2
  <2>2. new.exchOrderId # Unset \/ IsRtnTrade(new) => Taken(id) \/ id \notin HeldIds(ordMgr)
    BY <1>2, <1>6
  <2> QED BY <1>1, <1>2, <1>3, <2>1, <2>2, MergeKeepsCopy
<1>8. ASSUME NEW x \in OrderId, x # id PROVE OrderOK(x)'
  BY <1>1, <1>2, <1>4, <1>8, MergeFrame
<1>9. HeldCTP'
  BY <1>1, <1>2, MergedCopy DEF CTPInv, HeldCTP
<1> QED BY <1>1, <1>4, <1>5, <1>7, <1>8, <1>9 DEF CTPInv, OrderOK

\* An answer makes an entry, drops it, or is believed: then nothing is on its way.
LEMMA OnRspQryOrderKeeps ==
  ASSUME CTPInv, NEW id \in OrderId, ExchIdIsOrderId, OnRspQryOrder(id)
  PROVE  CTPInv'
<1> DEFINE new == AnswerReport(id)
           e == CheckIfUpdateOrderInfo(id).entry
           u == CheckIfUpdateOrderInfo(id).update
<1>1. /\ answer[id] # NoAnswer /\ answer' = [answer EXCEPT ![id] = NoAnswer]
      /\ exch' = exch /\ used' = used /\ returns' = returns /\ trades' = trades
      /\ request' = request /\ timer' = [timer EXCEPT ![id] = e]
      /\ ordMgr' = IF u THEN UpdateFromExch(ordMgr, new) ELSE ordMgr
  BY DEF OnRspQryOrder, exchVars
<1>2. /\ TypedCTP /\ OrderOK(id) /\ trades[id] \in Nat /\ exch[id].dealt \in Nat
      /\ timer[id] \in [state : {"none", "seen", "ripe"}, awaited : Nat]
      /\ answer[id] \in [status : AtExch \cup {"none"}, dealt : Nat]
  BY DEF CTPInv, TypedCTP
<1>3. /\ id \in used /\ Taken(id) /\ answer[id].status \in AtExch /\ answer[id].dealt <= exch[id].dealt
  BY <1>1, <1>2 DEF OrderOK, Unseen, UnderWay
<1>4. /\ new \in Report /\ new.orderId = id /\ new.dealSize = answer[id].dealt
      /\ answer[id].dealt \in Nat /\ new.lastDealSize = 0
  BY <1>2, <1>3, AnswerIs
<1>5. /\ \/ e = NoEntry
         \/ e = [state |-> "seen", awaited |-> trades[id]]
         \/ e = timer[id]
      /\ u = TRUE \/ u = FALSE
      /\ u => trades[id] = 0
  <2>1. timer[id] = NoEntry \/ timer[id].state = "seen" \/ timer[id].state = "ripe"
    BY <1>2 DEF OrderOK, Counted
  <2>2. CASE ~MoreRecent(id)
    <3>1. CheckIfUpdateOrderInfo(id) = [update |-> FALSE, entry |-> NoEntry]
      BY <2>2 DEF CheckIfUpdateOrderInfo
    <3> QED BY <3>1
  <2>3. CASE MoreRecent(id) /\ timer[id] = NoEntry
    <3>1. CheckIfUpdateOrderInfo(id) =
            [update |-> FALSE, entry |-> [state |-> "seen", awaited |-> trades[id]]]
      BY <2>3 DEF CheckIfUpdateOrderInfo, NoEntry
    <3> QED BY <3>1
  <2>4. CASE MoreRecent(id) /\ timer[id].state = "seen"
    <3>1. CheckIfUpdateOrderInfo(id) = [update |-> FALSE, entry |-> timer[id]]
      BY <2>4 DEF CheckIfUpdateOrderInfo, NoEntry
    <3> QED BY <3>1
  <2>5. CASE MoreRecent(id) /\ timer[id].state = "ripe"
    <3>1. CheckIfUpdateOrderInfo(id) = [update |-> TRUE, entry |-> NoEntry]
      BY <2>5 DEF CheckIfUpdateOrderInfo, NoEntry
    <3>2. trades[id] = 0
      BY <1>2, <2>5 DEF OrderOK, Counted
    <3> QED BY <3>1, <3>2
  <2> QED BY <2>1, <2>2, <2>3, <2>4, <2>5
<1> HIDE DEF new, e, u
<1>6. /\ e \in [state : {"none", "seen", "ripe"}, awaited : Nat]
      /\ e.state = "none" => e = NoEntry
      /\ e.state # "none" => e.awaited = trades[id]
      /\ e.state = "ripe" => trades[id] = 0
  BY <1>2, <1>5 DEF NoEntry, OrderOK, Counted
<1>7. /\ TypedCTP' /\ timer'[id] = e /\ answer'[id] = NoAnswer
      /\ \A x \in OrderId : x # id => timer'[x] = timer[x] /\ answer'[x] = answer[x]
  <2>1. NoAnswer \in [status : AtExch \cup {"none"}, dealt : Nat]
    BY DEF NoAnswer
  <2> QED BY <1>1, <1>2, <1>6, <2>1 DEF TypedCTP
<1>8. UnderWay(id)' /\ Counted(id)'
  BY <1>1, <1>2, <1>3, <1>6, <1>7 DEF OrderOK, UnderWay, Counted, Taken, NoAnswer
<1>9. CASE ~u
  <2>1. ordMgr' = ordMgr
    BY <1>1, <1>9
  <2>2. CopyOK(id)'
    BY <1>1, <1>2, <2>1 DEF OrderOK, CopyOK, Taken
  <2>3. ASSUME NEW x \in OrderId, x # id PROVE OrderOK(x)'
    BY <1>1, <1>7, <2>1, <2>3, Frame
  <2> QED BY <1>1, <1>3, <1>7, <1>8, <2>1, <2>2, <2>3 DEF CTPInv, HeldCTP, OrderOK
<1>10. CASE u
  <2>1. ordMgr' = UpdateFromExch(ordMgr, new) /\ trades[id] = 0
    BY <1>1, <1>5, <1>10
  <2>2. CopyOK(id)'
    <3>1. /\ 0 \in Nat /\ trades'[id] = 0 /\ 0 <= trades[id] /\ new.lastDealSize + 0 <= trades[id]
          /\ new.dealSize + 0 <= exch[id].dealt
      BY <1>1, <1>2, <1>3, <1>4, <2>1
    <3> QED BY <1>1, <1>3, <1>4, <2>1, <3>1, MergeKeepsCopy
  <2>3. ASSUME NEW x \in OrderId, x # id PROVE OrderOK(x)'
    BY <1>1, <1>4, <1>7, <2>1, <2>3, MergeFrame
  <2>4. HeldCTP'
    BY <1>1, <1>4, <2>1, MergedCopy DEF CTPInv, HeldCTP
  <2> QED BY <1>1, <1>3, <1>7, <1>8, <2>2, <2>3, <2>4 DEF CTPInv, OrderOK
<1> QED BY <1>9, <1>10

LEMMA CTPInit == Init => CTPInv
<1> SUFFICES ASSUME Init PROVE CTPInv
  OBVIOUS
<1>1. /\ ordMgr = EmptyGroup /\ used = {}
      /\ exch = [id \in OrderId |-> [status |-> "absent", size |-> 0, dealt |-> 0]]
      /\ returns = [id \in OrderId |-> {}] /\ trades = [id \in OrderId |-> 0]
      /\ request = [id \in OrderId |-> "none"] /\ answer = [id \in OrderId |-> NoAnswer]
      /\ timer = [id \in OrderId |-> NoEntry]
  BY DEF Init
<1>2. GoodGroup(ordMgr) /\ HeldIds(ordMgr) = {}
  BY <1>1, EmptyGood DEF HeldIds
<1>3. TypedCTP
  BY <1>1 DEF TypedCTP, NoAnswer, NoEntry
<1>4. ASSUME NEW id \in OrderId PROVE OrderOK(id)
  <2>1. /\ exch[id].status = "absent" /\ returns[id] = {} /\ trades[id] = 0
        /\ request[id] = "none" /\ answer[id] = NoAnswer /\ timer[id] = NoEntry
    BY <1>1
  <2>2. answer[id].status = "none" /\ timer[id].state = "none"
    BY <2>1 DEF NoAnswer, NoEntry
  <2> QED BY <1>1, <1>2, <2>1, <2>2 DEF OrderOK, Unseen, UnderWay, Counted, CopyOK
<1> QED BY <1>1, <1>2, <1>3, <1>4 DEF CTPInv, HeldCTP

LEMMA CTPStep ==
  ASSUME Quiet, ExchIdIsOrderId PROVE CTPInv /\ (Next \/ UNCHANGED vars) => CTPInv'
<1> SUFFICES ASSUME CTPInv, Next \/ UNCHANGED vars PROVE CTPInv'
  OBVIOUS
<1>1. CASE UNCHANGED vars
  BY <1>1 DEF vars, gwVars, exchVars, CTPInv, TypedCTP, HeldCTP, OrderOK, Unseen, UnderWay, Counted,
              CopyOK, Taken
<1>2. ASSUME NEW id \in OrderId, NEW side \in Side, NEW size \in Size, OnOrder(id, side, size)
      PROVE  CTPInv'
  BY <1>2, OnOrderKeeps
<1>3. ASSUME NEW id \in OrderId,
             ExchTakesOrder(id) \/ ExchRefusesOrder(id) \/ ExchDeals(id) \/ ExchCancels(id)
      PROVE  CTPInv'
  BY <1>3, ExchKeeps
<1>4. ASSUME NEW id \in OrderId,
             \/ \E return \in DOMAIN StatusOfReturn :
                  LoseOrderReturn(id, return) \/ OnRtnOrder(id, return)
             \/ OnRspOrderInsert(id)
      PROVE  CTPInv'
  BY <1>4, OrderReturnKeeps
<1>5. ASSUME NEW id \in OrderId, LoseTradeReturn(id) \/ OnRtnTrade(id) PROVE CTPInv'
  BY <1>5, TradeReturnKeeps
<1>6. ASSUME NEW id \in OrderId,
             \/ SyncUnclosedOrders(id) \/ QueryOrder(id) \/ QueryFails(id) \/ TimePasses(id)
             \/ OnCancelOrder(id)
      PROVE  CTPInv'
  BY <1>6, QueryKeeps
<1>7. ASSUME NEW id \in OrderId, GiveUpOrder(id) PROVE CTPInv'
  BY <1>7, GiveUpKeeps
<1>8. ASSUME NEW id \in OrderId, OnRspQryOrder(id) PROVE CTPInv'
  BY <1>8, OnRspQryOrderKeeps
<1> QED BY <1>1, <1>2, <1>3, <1>4, <1>5, <1>6, <1>7, <1>8 DEF Next

LEMMA CTPCounts == CTPInv => DealCountedOnce
<1> SUFFICES ASSUME CTPInv, NEW id \in OrderId, Held(id)
             PROVE  Abs(OrderOf(id).dealSize) + trades[id] <= exch[id].dealt
  BY DEF DealCountedOnce
<1>1. id \in HeldIds(ordMgr) /\ GoodGroup(ordMgr)
  BY DEF Held, HeldIds, CTPInv, HeldCTP
<1>2. BlankReport(id).orderId = id /\ id # Unset
  BY BlankIs, OrderIdAssumption DEF Unset
<1>3. OrderOf(id) = CopyOf(ordMgr, id)
  BY <1>1, <1>2, LookupIsCopy DEF OrderOf
<1> QED BY <1>1, <1>3 DEF CTPInv, OrderOK, CopyOK

\* A deal of an order at CTP is never counted twice, as long as nothing deals
\* while an answer is being held back; and CTP's identifier is the order's.
THEOREM CTPDealsCounted == ASSUME Quiet, ExchIdIsOrderId PROVE MCSpec => []DealCountedOnce
<1>1. MCInit => CTPInv
  BY CTPInit DEF MCInit
<1>2. CTPInv /\ [MCNext]_mcVars => CTPInv'
  BY CTPStep DEF MCNext, mcVars
<1>3. CTPInv => DealCountedOnce
  BY CTPCounts
<1> QED BY <1>1, <1>2, <1>3, PTL DEF MCSpec

-----------------------------------------------------------------------------
\* XTP.  The trade returns on their way after the first k messages.
Coming(q, k) == Cardinality({i \in DOMAIN q : i > k /\ q[i].kind = "trade"})

XExch == [status : AtExch \cup {"absent", "sent", "rejected", "lost"}, size : Nat, dealt : Nat]
XReport == [kind : {"order", "trade"}, status : OrderStatus, dealt : Nat]
XAnswer == [status : AtExch \cup {"none"}, dealt : Nat, awaited : Nat]

\* Of the messages q on their way about an order e: who says at place k that n were
\* dealt counts none that is said to come after it.
NoneTwice(q, e, n, k) == n + Coming(q, k) <= e.dealt

XTaken(e) == e.status \in AtExch

\* They are about an order XTP took, unless they say that the order was refused.
Said(q, e) ==
  /\ NoneTwice(q, e, 0, 0)
  /\ \A i \in DOMAIN q :
       /\ q[i].kind = "trade" \/ q[i].status < Filled => XTaken(e)
       /\ q[i].kind = "order" => NoneTwice(q, e, q[i].dealt, i)

Answered(q, e, a) ==
  IF a.status = "none" THEN a = XTP!NoAnswer
  ELSE XTaken(e) /\ a.awaited <= Len(q) /\ NoneTwice(q, e, a.dealt, a.awaited)

\* What the gateway has of an order, in its order manager, queued for the database
\* and there.
RowOf(id, e, o) ==
  /\ o.orderId = id /\ Sound(o) /\ Abs(o.dealSize) <= e.dealt
  /\ ~closed(o) /\ o.exchOrderId # Unset => XTaken(e)

TypedXTP ==
  /\ xUsed \subseteq OrderId /\ xExch \in [OrderId -> XExch]
  /\ stream \in [OrderId -> Seq(XReport)]
  /\ xRequest \in [OrderId -> {"none", "give up", "query"}]
  /\ xAnswer \in [OrderId -> XAnswer]
  /\ syncTasks \in [OrderId -> Order \cup {XTP!NoOrder}]
  /\ db \in [OrderId -> Order \cup {XTP!NoOrder}]

HeldXTP == GoodGroup(xOrdMgr) /\ HeldIds(xOrdMgr) \subseteq xUsed

XUnseen(id) ==
  /\ xExch[id].status = "absent" /\ stream[id] = << >>
  /\ xRequest[id] = "none" /\ xAnswer[id] = XTP!NoAnswer
  /\ syncTasks[id] = XTP!NoOrder /\ db[id] = XTP!NoOrder

XOrderOK(id) ==
  /\ id \notin xUsed => XUnseen(id)
  /\ Said(stream[id], xExch[id]) /\ Answered(stream[id], xExch[id], xAnswer[id])
  /\ xRequest[id] = "query" => XTaken(xExch[id])
  /\ id \in HeldIds(xOrdMgr) =>
       LET o == CopyOf(xOrdMgr, id) IN
       RowOf(id, xExch[id], o) /\ NoneTwice(stream[id], xExch[id], Abs(o.dealSize), 0)
  /\ syncTasks[id] # XTP!NoOrder => RowOf(id, xExch[id], syncTasks[id])
  /\ db[id] # XTP!NoOrder => RowOf(id, xExch[id], db[id])

XTPInv == TypedXTP /\ HeldXTP /\ \A id \in OrderId : XOrderOK(id)

\* The orders and the order managers of the two gateways are the same.
LEMMA XTPStatus ==
  /\ XTP!Created = Created /\ XTP!ConfirmedInLocal = ConfirmedInLocal /\ XTP!Pending = Pending
  /\ XTP!ConfirmedByExch = ConfirmedByExch /\ XTP!PartialFilled = PartialFilled
  /\ XTP!Filled = Filled /\ XTP!Canceled = Canceled
  /\ XTP!PartialFilledCanceled = PartialFilledCanceled /\ XTP!Failed = Failed
  /\ XTP!OrderStatus = OrderStatus
  /\ XTP!Unset = Unset
BY DEF XTP!Created, XTP!ConfirmedInLocal, XTP!Pending, XTP!ConfirmedByExch, XTP!PartialFilled,
       XTP!Filled, XTP!Canceled, XTP!PartialFilledCanceled, XTP!Failed, XTP!OrderStatus, XTP!Unset,
       Created, ConfirmedInLocal, Pending, ConfirmedByExch, PartialFilled,
       Filled, Canceled, PartialFilledCanceled, Failed, OrderStatus, Unset

LEMMA XTPOrder ==
  /\ \A n : XTP!Abs(n) = Abs(n)
  /\ \A s, n : XTP!Signed(s, n) = Signed(s, n)
  /\ \A o : XTP!closed(o) = closed(o)
  /\ \A o : XTP!ReportOf(o) = ReportOf(o)
  /\ XTP!EmptyGroup = EmptyGroup
  /\ \A om : XTP!OpenIds(om) = OpenIds(om) /\ XTP!RecentIds(om) = RecentIds(om)
BY XTPStatus DEF XTP!Abs, XTP!Signed, XTP!closed, XTP!ReportOf, XTP!EmptyGroup, XTP!OpenIds,
     XTP!RecentIds, Abs, Signed, closed, ReportOf, EmptyGroup, OpenIds, RecentIds

LEMMA XTPAdd == \A om, o : XTP!add(om, o) = add(om, o)
BY DEF XTP!add, add

LEMMA XTPLookup ==
  /\ \A om, new : XTP!Found(om, new) = Found(om, new)
  /\ \A om, new : XTP!Lookup(om, new) = Lookup(om, new)
<1>1. \A om, new : XTP!Found(om, new) = Found(om, new)
  BY DEF XTP!Found, XTP!OpenMatch, XTP!RecentMatch, XTP!Names, XTP!OpenIds, XTP!Unset,
         Found, OpenMatch, RecentMatch, Names, OpenIds, Unset
<1>2. \A om, new : XTP!Lookup(om, new) = Lookup(om, new)
  BY DEF XTP!Lookup, XTP!OpenMatch, XTP!RecentMatch, XTP!Names, XTP!OpenIds, XTP!Unset,
         Lookup, OpenMatch, RecentMatch, Names, OpenIds, Unset
<1> QED BY <1>1, <1>2

LEMMA XTPMerge ==
  \A o, new : XTP!updateByOrderInfoFromExch(o, new) = updateByOrderInfoFromExch(o, new)
<1>1. \A o, new : XTP!IsRtnTrade(new) = IsRtnTrade(new) /\ XTP!DealSizeIsValid(o, new) = DealSizeIsValid(o, new)
  BY XTPOrder DEF XTP!IsRtnTrade, IsRtnTrade, XTP!DealSizeIsValid, DealSizeIsValid
<1>2. \A o, new : XTP!DealSizeFromExch(o, new) = DealSizeFromExch(o, new)
  BY <1>1, XTPOrder DEF XTP!DealSizeFromExch, DealSizeFromExch
<1>3. \A o, new : XTP!StatusAdvances(o, new) = StatusAdvances(o, new)
  BY XTPOrder DEF XTP!StatusAdvances, StatusAdvances
<1>4. \A o, new : XTP!StatusFromExch(o, new) = StatusFromExch(o, new)
  BY <1>1, <1>2, <1>3, XTPOrder, XTPStatus DEF XTP!StatusFromExch, StatusFromExch
<1>5. \A old, new : XTP!SetOnce(old, new) = SetOnce(old, new)
  BY XTPStatus DEF XTP!SetOnce, SetOnce
<1> QED BY <1>2, <1>4, <1>5 DEF XTP!updateByOrderInfoFromExch, XTP!WithStaticFields,
            updateByOrderInfoFromExch, WithStaticFields

LEMMA XTPUpdate ==
  \A om, new : XTP!UpdateFromExch(om, new) = UpdateFromExch(om, new)
<1>1. \A q, o : XTP!PushRecent(q, o) = PushRecent(q, o)
  BY DEF XTP!PushRecent, PushRecent
<1>2. \A om, id : XTP!remove(om, id) = remove(om, id)
  BY DEF XTP!remove, remove
<1>3. \A om, o : XTP!Store(om, o) = Store(om, o)
  BY <1>1, <1>2, XTPOrder DEF XTP!Store, Store
<1> QED BY <1>3, XTPLookup, XTPMerge DEF XTP!UpdateFromExch, UpdateFromExch

LEMMA ComingIs ==
  ASSUME NEW S, NEW q \in Seq(S), NEW k \in Nat
  PROVE  /\ IsFiniteSet({i \in DOMAIN q : i > k /\ q[i].kind = "trade"})
         /\ Coming(q, k) \in Nat
         /\ k >= Len(q) => Coming(q, k) = 0
<1> DEFINE T == {i \in DOMAIN q : i > k /\ q[i].kind = "trade"}
<1>1. IsFiniteSet(1..Len(q)) /\ T \subseteq 1..Len(q)
  <2>1. 1 \in Int /\ Len(q) \in Int /\ DOMAIN q = 1..Len(q)
    OBVIOUS
  <2>2. IsFiniteSet(1..Len(q))
    BY <2>1, FS_Interval
  <2> QED BY <2>1, <2>2
<1>2. IsFiniteSet(T) /\ Cardinality(T) \in Nat
  BY <1>1, FS_Subset, FS_CardinalityType
<1>3. k >= Len(q) => T = {}
  BY <1>1
<1> QED BY <1>2, <1>3, FS_EmptySet DEF Coming

\* A message that is put on its way comes after all others.
LEMMA ComingAppend ==
  ASSUME NEW S, NEW q \in Seq(S), NEW m \in S, NEW k \in Nat, k <= Len(q)
  PROVE  Coming(Append(q, m), k) = Coming(q, k) + IF m.kind = "trade" THEN 1 ELSE 0
<1> DEFINE T == {i \in DOMAIN q : i > k /\ q[i].kind = "trade"}
           g == Append(q, m)
           U == {i \in DOMAIN g : i > k /\ g[i].kind = "trade"}
           n == Len(q) + 1
<1>1. /\ DOMAIN q = 1..Len(q) /\ DOMAIN g = 1..n /\ n \in Nat /\ Len(q) \in Nat
      /\ g[n] = m /\ \A i \in 1..Len(q) : g[i] = q[i]
  OBVIOUS
<1>2. IsFiniteSet(T) /\ Cardinality(T) \in Nat
  BY ComingIs DEF Coming
<1> HIDE DEF g
<1>3. n \notin T /\ U = IF m.kind = "trade" THEN T \cup {n} ELSE T
  <2>1. \A i \in 1..n : i = n \/ i \in 1..Len(q)
    BY <1>1
  <2>2. n > k /\ n \in 1..n /\ n \notin 1..Len(q) /\ 1..Len(q) \subseteq 1..n
    BY <1>1
  <2> HIDE DEF n
  <2> QED BY <1>1, <2>1, <2>2
<1> HIDE DEF T, U
<1>4. Cardinality(U) = Cardinality(T) + IF m.kind = "trade" THEN 1 ELSE 0
  <2>1. Cardinality(T \cup {n}) = Cardinality(T) + 1
    BY <1>2, <1>3, FS_AddElement
  <2> QED BY <1>2, <1>3, <2>1
<1> QED BY <1>4 DEF Coming, T, U, g

\* The first message comes before all others.
LEMMA ComingTail ==
  ASSUME NEW S, NEW q \in Seq(S), q # << >>, NEW k \in Nat
  PROVE  /\ Coming(Tail(q), k) = Coming(q, k + 1)
         /\ Coming(q, 0) = Coming(q, 1) + IF q[1].kind = "trade" THEN 1 ELSE 0
<1> DEFINE r == Tail(q)
           n == Len(q)
           T(j) == {i \in DOMAIN q : i > j /\ q[i].kind = "trade"}
           U == {i \in DOMAIN r : i > k /\ r[i].kind = "trade"}
<1>1. /\ n \in Nat /\ n >= 1 /\ DOMAIN q = 1..n
      /\ r \in Seq(S) /\ DOMAIN r = 1..(n - 1) /\ \A i \in 1..(n - 1) : r[i] = q[i + 1]
  OBVIOUS
<1>2. Coming(r, k) = Coming(q, k + 1)
  <2> DEFINE f == [i \in U |-> i + 1]
  <2>1. IsFiniteSet(U) /\ IsFiniteSet(T(k + 1))
    <3>1. k + 1 \in Nat
      OBVIOUS
    <3> HIDE DEF r
    <3> QED BY <1>1, <3>1, ComingIs
  <2>2. f \in Bijection(U, T(k + 1))
    <3>1. \A i \in U : i \in Nat /\ i + 1 \in T(k + 1)
      <4> SUFFICES ASSUME NEW i \in 1..(n - 1), i > k, r[i].kind = "trade"
                   PROVE  i \in Nat /\ i + 1 \in T(k + 1)
        BY <1>1
      <4> QED BY <1>1
    <3>2. \A j \in T(k + 1) : j - 1 \in U /\ (j - 1) + 1 = j
      <4> SUFFICES ASSUME NEW j \in 1..n, j > k + 1, q[j].kind = "trade"
                   PROVE  j - 1 \in U /\ (j - 1) + 1 = j
        BY <1>1
      <4>1. j - 1 \in 1..(n - 1) /\ (j - 1) + 1 = j /\ j - 1 > k
        BY <1>1
      <4> QED BY <1>1, <4>1
    <3> HIDE DEF U, T
    <3>3. f \in [U -> T(k + 1)] /\ (\A a, b \in U : f[a] = f[b] => a = b)
      BY <3>1
    <3>4. \A j \in T(k + 1) : \E i \in U : f[i] = j
      BY <3>2
    <3> QED BY <3>3, <3>4 DEF Bijection, Injection, Surjection, IsInjective
  <2> QED BY <2>1, <2>2, FS_Bijection DEF Coming, ExistsBijection
<1>3. Coming(q, 0) = Coming(q, 1) + IF q[1].kind = "trade" THEN 1 ELSE 0
  <2>1. IsFiniteSet(T(1)) /\ Cardinality(T(1)) \in Nat
    BY ComingIs DEF Coming
  <2>2. 1 \notin T(1) /\ T(0) = IF q[1].kind = "trade" THEN T(1) \cup {1} ELSE T(1)
    BY <1>1
  <2> HIDE DEF T
  <2>3. Cardinality(T(0)) = Cardinality(T(1)) + IF q[1].kind = "trade" THEN 1 ELSE 0
    <3>1. Cardinality(T(1) \cup {1}) = Cardinality(T(1)) + 1
      BY <2>1, <2>2, FS_AddElement
    <3>2. CASE q[1].kind = "trade"
      BY <2>2, <3>1, <3>2
    <3>3. CASE q[1].kind # "trade"
      <4>1. T(0) = T(1)
        BY <2>2, <3>3
      <4> QED BY <2>1, <3>3, <4>1
    <3> QED BY <3>2, <3>3
  <2> QED BY <2>3 DEF Coming, T
<1> QED BY <1>2, <1>3

\* Something is said, and perhaps lost at once.
LEMMA Saying ==
  ASSUME NEW q \in Seq(XReport), NEW m \in XReport, NEW e \in XExch, NEW f \in XExch,
         XTaken(e) => XTaken(f), m.kind = "trade" \/ m.status < Filled => XTaken(f),
         f.dealt = e.dealt + IF m.kind = "trade" THEN 1 ELSE 0,
         m.dealt <= f.dealt \/ m.kind = "trade",
         NEW r, r = q \/ r = Append(q, m)
  PROVE  /\ r \in Seq(XReport)
         /\ \A n \in Nat : NoneTwice(q, e, n, 0) => NoneTwice(r, f, n, 0)
         /\ Said(q, e) => Said(r, f)
         /\ \A a \in XAnswer : Answered(q, e, a) => Answered(r, f, a)
         /\ \A id \in OrderId, o \in Order : RowOf(id, e, o) => RowOf(id, f, o)
<1>1. /\ Len(q) \in Nat /\ DOMAIN q = 1..Len(q) /\ r \in Seq(XReport)
      /\ Len(r) \in Nat /\ Len(q) <= Len(r)
      /\ e.dealt \in Nat /\ f.dealt \in Nat /\ e.dealt <= f.dealt
  <2>1. Len(q) \in Nat /\ DOMAIN q = 1..Len(q)
    OBVIOUS
  <2>2. CASE r = q
    BY <2>1, <2>2 DEF XExch
  <2>3. CASE r = Append(q, m)
    <3>1. r \in Seq(XReport) /\ Len(r) = Len(q) + 1
      BY <2>3
    <3> QED BY <2>1, <3>1 DEF XExch
  <2> QED BY <2>2, <2>3
<1>2. ASSUME NEW n \in Nat, NEW k \in Nat, k <= Len(q), NoneTwice(q, e, n, k)
      PROVE  NoneTwice(r, f, n, k)
  <2>1. Coming(q, k) \in Nat /\ n + Coming(q, k) <= e.dealt
    BY <1>2, ComingIs DEF NoneTwice
  <2>2. CASE r = q
    BY <1>1, <2>1, <2>2 DEF NoneTwice
  <2>3. CASE r = Append(q, m)
    <3>1. Coming(r, k) = Coming(q, k) + IF m.kind = "trade" THEN 1 ELSE 0
      BY <1>2, <2>3, ComingAppend
    <3> QED BY <1>1, <2>1, <3>1 DEF NoneTwice
  <2> QED BY <2>2, <2>3
<1>3. ASSUME Said(q, e) PROVE Said(r, f)
  <2>1. NoneTwice(r, f, 0, 0)
    BY <1>1, <1>2, <1>3 DEF Said
  <2>2. ASSUME NEW i \in DOMAIN q
        PROVE  /\ q[i].kind = "trade" \/ q[i].status < Filled => XTaken(f)
               /\ q[i].kind = "order" => NoneTwice(r, f, q[i].dealt, i)
    <3>1. i \in Nat /\ i <= Len(q) /\ q[i] \in XReport
      BY <1>1
    <3>2. q[i].dealt \in Nat
      BY <3>1 DEF XReport
    <3> QED BY <1>2, <1>3, <3>1, <3>2 DEF Said
  <2>3. CASE r = q
    BY <2>1, <2>2, <2>3 DEF Said
  <2>4. CASE r = Append(q, m)
    <3>1. Len(r) = Len(q) + 1 /\ Len(q) + 1 \in Nat
      BY <1>1, <2>4
    <3>2. Coming(r, Len(q) + 1) = 0
      <4>1. PICK k \in Nat : k = Len(q) + 1 /\ k >= Len(r)
        BY <1>1, <3>1
      <4>2. Coming(r, k) = 0
        BY <1>1, <4>1, ComingIs
      <4> QED BY <4>1, <4>2
    <3>3. m.kind = "order" => NoneTwice(r, f, m.dealt, Len(q) + 1)
      BY <1>1, <3>2 DEF NoneTwice, XReport
    <3>4. \A i \in DOMAIN r : (i \in DOMAIN q /\ r[i] = q[i]) \/ (i = Len(q) + 1 /\ r[i] = m)
      BY <1>1, <2>4
    <3> QED BY <2>1, <2>2, <3>3, <3>4 DEF Said
  <2> QED BY <2>3, <2>4
<1>4. ASSUME NEW a \in XAnswer, Answered(q, e, a) PROVE Answered(r, f, a)
  <2>1. a.dealt \in Nat /\ a.awaited \in Nat
    BY DEF XAnswer
  <2> QED BY <1>1, <1>2, <1>4, <2>1 DEF Answered
<1>5. ASSUME NEW id \in OrderId, NEW o \in Order, RowOf(id, e, o) PROVE RowOf(id, f, o)
  <2>1. Abs(o.dealSize) \in Nat
    BY DEF Order, Abs
  <2> QED BY <1>1, <1>5, <2>1 DEF RowOf
<1> QED BY <1>1, <1>2, <1>3, <1>4, <1>5

\* The first message comes.
Heard(a) == [a EXCEPT !.awaited = IF 1 <= @ THEN @ - 1 ELSE @]

LEMMA Hearing ==
  ASSUME NEW q \in Seq(XReport), q # << >>, NEW e \in XExch, Said(q, e)
  PROVE  LET r == Tail(q) IN
         /\ r \in Seq(XReport) /\ Said(r, e) /\ q[1] \in XReport
         /\ q[1].kind = "trade" \/ q[1].status < Filled => XTaken(e)
         /\ q[1].kind = "order" => NoneTwice(r, e, q[1].dealt, 0)
         /\ \A n \in Nat : NoneTwice(q, e, n, 0) =>
              NoneTwice(r, e, n, 0) /\ (q[1].kind = "trade" => NoneTwice(r, e, n + 1, 0))
         /\ \A a \in XAnswer :
              Answered(q, e, a) => Heard(a) \in XAnswer /\ Answered(r, e, Heard(a))
<1> DEFINE r == Tail(q)
<1>1. /\ Len(q) \in Nat /\ Len(q) >= 1 /\ DOMAIN q = 1..Len(q) /\ q[1] \in XReport
      /\ r \in Seq(XReport) /\ Len(r) = Len(q) - 1 /\ DOMAIN r = 1..Len(r)
      /\ \A i \in DOMAIN r : r[i] = q[i + 1]
      /\ e.dealt \in Nat
  BY DEF XExch
<1>2. /\ \A k \in Nat : Coming(r, k) = Coming(q, k + 1)
      /\ Coming(q, 0) = Coming(q, 1) + IF q[1].kind = "trade" THEN 1 ELSE 0
  <2>1. 0 \in Nat
    OBVIOUS
  <2> QED BY <2>1, ComingTail
<1> HIDE DEF r
<1>3. Coming(r, 0) \in Nat /\ Coming(r, 0) = Coming(q, 1)
  <2>1. 0 \in Nat /\ 0 + 1 = 1
    OBVIOUS
  <2>2. Coming(r, 0) = Coming(q, 0 + 1)
    BY <1>2, <2>1
  <2> QED BY <1>1, <2>1, <2>2, ComingIs
<1>4. ASSUME NEW n \in Nat, NoneTwice(q, e, n, 0)
      PROVE  NoneTwice(r, e, n, 0) /\ (q[1].kind = "trade" => NoneTwice(r, e, n + 1, 0))
  <2>1. CASE q[1].kind = "trade"
    <3>1. Coming(q, 0) = Coming(q, 1) + 1
      BY <1>2, <2>1
    <3> QED BY <1>1, <1>3, <1>4, <3>1 DEF NoneTwice
  <2>2. CASE q[1].kind # "trade"
    <3>1. Coming(q, 0) = Coming(q, 1) + 0
      BY <1>2, <2>2
    <3> QED BY <1>1, <1>3, <1>4, <2>2, <3>1 DEF NoneTwice
  <2> QED BY <2>1, <2>2
<1>5. ASSUME NEW n \in Nat, NEW k \in Nat, k >= 1, NoneTwice(q, e, n, k)
      PROVE  NoneTwice(r, e, n, k - 1)
  <2>1. k - 1 \in Nat /\ (k - 1) + 1 = k
    BY <1>5
  <2>2. Coming(r, k - 1) = Coming(q, (k - 1) + 1)
    BY <1>2, <2>1
  <2> QED BY <1>5, <2>1, <2>2 DEF NoneTwice
<1>6. q[1].kind = "order" => NoneTwice(r, e, q[1].dealt, 0)
  <2>1. 1 \in DOMAIN q
    BY <1>1
  <2>2. q[1].kind = "order" => NoneTwice(q, e, q[1].dealt, 1)
    BY <2>1 DEF Said
  <2> QED BY <1>3, <2>2 DEF NoneTwice
<1>7. q[1].kind = "trade" \/ q[1].status < Filled => XTaken(e)
  BY <1>1 DEF Said
<1>8. Said(r, e)
  <2>1. NoneTwice(r, e, 0, 0)
    BY <1>4 DEF Said
  <2>2. ASSUME NEW i \in DOMAIN r
        PROVE  /\ r[i].kind = "trade" \/ r[i].status < Filled => XTaken(e)
               /\ r[i].kind = "order" => NoneTwice(r, e, r[i].dealt, i)
    <3>1. /\ i + 1 \in DOMAIN q /\ i + 1 \in Nat /\ i + 1 >= 1 /\ (i + 1) - 1 = i
          /\ r[i] = q[i + 1] /\ q[i + 1] \in XReport
      BY <1>1
    <3>2. q[i + 1].dealt \in Nat
      BY <3>1 DEF XReport
    <3>3. /\ r[i].kind = "trade" \/ r[i].status < Filled => XTaken(e)
          /\ r[i].kind = "order" => NoneTwice(q, e, r[i].dealt, i + 1)
      BY <3>1 DEF Said
    <3> QED BY <1>5, <3>1, <3>2, <3>3
  <2> QED BY <2>1, <2>2 DEF Said
<1>9. ASSUME NEW a \in XAnswer, Answered(q, e, a)
      PROVE  Heard(a) \in XAnswer /\ Answered(r, e, Heard(a))
  <2> DEFINE k == IF 1 <= a.awaited THEN a.awaited - 1 ELSE a.awaited
  <2>1. /\ a.awaited \in Nat /\ a.dealt \in Nat /\ k \in Nat
        /\ (a.awaited >= 1 /\ k = a.awaited - 1) \/ (a.awaited = 0 /\ k = 0)
    BY DEF XAnswer
  <2>2. /\ Heard(a) = [a EXCEPT !.awaited = k]
    BY DEF Heard
  <2> HIDE DEF k
  <2>3. /\ Heard(a) \in XAnswer /\ Heard(a).status = a.status /\ Heard(a).dealt = a.dealt
        /\ Heard(a).awaited = k
    BY <2>1, <2>2 DEF XAnswer
  <2>4. CASE a.status = "none"
    <3>1. a = XTP!NoAnswer /\ a.awaited = 0
      BY <1>9, <2>4 DEF Answered, XTP!NoAnswer
    <3>2. Heard(a) = a
      BY <2>1, <2>2, <3>1 DEF XAnswer
    <3> QED BY <2>3, <2>4, <3>1, <3>2 DEF Answered
  <2>5. CASE a.status # "none"
    <3>1. XTaken(e) /\ a.awaited <= Len(q) /\ NoneTwice(q, e, a.dealt, a.awaited)
      BY <1>9, <2>5 DEF Answered
    <3>2. k <= Len(r)
      BY <1>1, <2>1, <3>1
    <3>3. NoneTwice(r, e, a.dealt, k)
      BY <1>4, <1>5, <2>1, <3>1
    <3> QED BY <2>3, <2>5, <3>1, <3>2, <3>3 DEF Answered
  <2> QED BY <2>4, <2>5
<1> QED BY <1>1, <1>4, <1>6, <1>7, <1>8, <1>9 DEF r

\* Nothing is on its way.
LEMMA Nothing ==
  ASSUME NEW e \in XExch
  PROVE  /\ Said(<< >>, e) /\ Answered(<< >>, e, XTP!NoAnswer)
         /\ \A n \in Nat : n <= e.dealt => NoneTwice(<< >>, e, n, 0)
         /\ XTP!NoAnswer \in XAnswer /\ << >> \in Seq(XReport)
<1>1. Coming(<< >>, 0) = 0
  <2>1. {i \in DOMAIN << >> : i > 0 /\ << >>[i].kind = "trade"} = {}
    OBVIOUS
  <2> QED BY <2>1, FS_EmptySet DEF Coming
<1>2. \A n \in Nat : n <= e.dealt => NoneTwice(<< >>, e, n, 0)
  BY <1>1 DEF NoneTwice
<1>3. Said(<< >>, e)
  <2>1. DOMAIN << >> = {} /\ 0 \in Nat /\ 0 <= e.dealt
    BY DEF XExch
  <2> QED BY <1>2, <2>1 DEF Said
<1>4. << >> \in Seq(XReport)
  OBVIOUS
<1> QED BY <1>2, <1>3, <1>4 DEF Answered, XTP!NoAnswer, XAnswer

\* What was counted was dealt.
LEMMA NotMore ==
  ASSUME NEW q \in Seq(XReport), NEW e \in XExch, NEW n \in Nat, NoneTwice(q, e, n, 0)
  PROVE  n <= e.dealt
<1>1. 0 \in Nat
  OBVIOUS
<1>2. Coming(q, 0) \in Nat /\ e.dealt \in Nat
  BY <1>1, ComingIs DEF XExch
<1> QED BY <1>2 DEF NoneTwice

LEMMA FirstLeaves ==
  ASSUME NEW S, NEW q \in Seq(S), q # << >>
  PROVE  SubSeq(q, 1, 1 - 1) \o SubSeq(q, 1 + 1, Len(q)) = Tail(q)
<1> DEFINE a == SubSeq(q, 1, 1 - 1)
           b == SubSeq(q, 1 + 1, Len(q))
<1>1. Len(q) \in Nat /\ Len(q) >= 1 /\ DOMAIN q = 1..Len(q)
  OBVIOUS
<1>2. a \in Seq(S) /\ Len(a) = 0
  BY <1>1
<1>3. b \in Seq(S) /\ Len(b) = Len(q) - 1 /\ \A i \in 1..(Len(q) - 1) : b[i] = q[i + 1]
  BY <1>1
<1>4. Tail(q) \in Seq(S) /\ Len(Tail(q)) = Len(q) - 1 /\ \A i \in 1..(Len(q) - 1) : Tail(q)[i] = q[i + 1]
  BY <1>1
<1> HIDE DEF a, b
<1>5. a \o b \in Seq(S) /\ Len(a \o b) = Len(q) - 1 /\ \A i \in 1..(Len(q) - 1) : (a \o b)[i] = b[i]
  <2>1. a = << >>
    BY <1>2
  <2>2. << >> \o b = b
    BY <1>3
  <2> QED BY <1>3, <2>1, <2>2
<1> DEFINE c == a \o b
           t == Tail(q)
<1> HIDE DEF c, t
<1>6. c \in Seq(S) /\ t \in Seq(S) /\ Len(c) = Len(t) /\ \A i \in 1..Len(c) : c[i] = t[i]
  BY <1>1, <1>3, <1>4, <1>5 DEF c, t
<1>7. c = t
  BY <1>6
<1> QED BY <1>7 DEF a, b, c, t

\* The reports the callbacks and the query thread make of an order.
LEMMA XTPNewOrder ==
  \A id, side, size : XTP!NewOrder(id, side, size) = NewOrder(id, side, size)
BY XTPStatus DEF XTP!NewOrder, NewOrder

LEMMA XBlankIs ==
  ASSUME NEW id \in OrderId, ExchIdIsOrderId
  PROVE  LET b == XTP!BlankReport(id) IN
         /\ b \in Report /\ b.orderId = id /\ b.exchOrderId = id
         /\ b.dealSize = 0 /\ b.lastDealSize = 0
<1> DEFINE r == BlankReport(id)
<1>1. /\ r \in Report /\ r.orderId = id /\ r.exchOrderId = Unset
      /\ r.dealSize = 0 /\ r.lastDealSize = 0
  BY BlankIs
<1>2. XTP!BlankReport(id) = [r EXCEPT !.exchOrderId = id]
  <2> DEFINE o == NewOrder(id, "Bid", 1)
  <2>1. XTP!BlankReport(id) = [ReportOf(o) EXCEPT !.orderStatus = Created, !.exchOrderId = id]
    BY XTPStatus, XTPOrder, XTPNewOrder DEF XTP!BlankReport
  <2>2. r = [ReportOf(o) EXCEPT !.orderStatus = Created]
    BY DEF BlankReport
  <2> HIDE DEF o, r
  <2> QED BY <2>1, <2>2
<1> HIDE DEF r
<1>3. id \in ExchOrderId
  BY DEF ExchIdIsOrderId
<1> QED BY <1>1, <1>2, <1>3 DEF Report

\* An order return says the status and the size dealt in all, and so does an
\* answer; a trade return says what was dealt last.
LEMMA XReturnIs ==
  ASSUME NEW id \in OrderId, NEW msg \in XReport, ExchIdIsOrderId
  PROVE  LET r == XTP!ReportOfOrderReturn(id, msg) IN
         /\ r \in Report /\ r.orderId = id /\ r.orderStatus = msg.status
         /\ r.dealSize = msg.dealt /\ r.lastDealSize = 0
<1> DEFINE b == XTP!BlankReport(id)
           t == msg.dealt # 0
           c == IF msg.status = Failed THEN 1 ELSE Unset
<1>1. b \in Report /\ b.orderId = id /\ b.lastDealSize = 0
  BY XBlankIs
<1>2. t \in BOOLEAN /\ c \in {Unset, 1} /\ msg.status \in OrderStatus /\ msg.dealt \in Int
  BY DEF XReport
<1>3. XTP!ReportOfOrderReturn(id, msg) =
        [b EXCEPT !.orderStatus = msg.status, !.dealSize = msg.dealt, !.avgPriced = t,
                  !.statusCode = c]
  BY XTPStatus DEF XTP!ReportOfOrderReturn
<1> HIDE DEF b, t, c
<1> QED BY <1>1, <1>2, <1>3 DEF Report

LEMMA XTradeIs ==
  ASSUME NEW id \in OrderId, ExchIdIsOrderId
  PROVE  LET r == [XTP!BlankReport(id) EXCEPT !.lastDealSize = 1, !.lastPriced = TRUE] IN
         r \in Report /\ r.orderId = id /\ r.dealSize = 0 /\ r.lastDealSize = 1
<1> DEFINE b == XTP!BlankReport(id)
           t == TRUE
           k == 1
<1>1. b \in Report /\ b.orderId = id /\ b.dealSize = 0
  BY XBlankIs
<1>2. t \in BOOLEAN /\ k \in Int /\ k = 1
  OBVIOUS
<1> DEFINE r == [b EXCEPT !.lastDealSize = k, !.lastPriced = t]
<1> HIDE DEF b, t, k
<1>3. r \in Report /\ r.orderId = id /\ r.dealSize = 0 /\ r.lastDealSize = 1
  BY <1>1, <1>2 DEF Report
<1> QED BY <1>3 DEF b, t, k

LEMMA XGivenUpIs ==
  ASSUME NEW id \in OrderId, ExchIdIsOrderId
  PROVE  LET r == [XTP!BlankReport(id) EXCEPT !.exchOrderId = XTP!Unset,
                     !.orderStatus = XTP!Failed, !.statusCode = 1] IN
         /\ r \in Report /\ r.orderId = id /\ r.orderStatus = Failed
         /\ r.dealSize = 0 /\ r.lastDealSize = 0
<1> DEFINE b == XTP!BlankReport(id)
           k == 1
           u == XTP!Unset
           f == XTP!Failed
<1>1. b \in Report /\ b.orderId = id /\ b.dealSize = 0 /\ b.lastDealSize = 0
  BY XBlankIs
<1>2. k \in {Unset, 1} /\ u = Unset /\ f = Failed /\ Failed \in OrderStatus
  BY XTPStatus DEF OrderStatus
<1> DEFINE r == [b EXCEPT !.exchOrderId = u, !.orderStatus = f, !.statusCode = k]
<1> HIDE DEF b, k, u, f
<1>3. /\ r \in Report /\ r.orderId = id /\ r.orderStatus = Failed
      /\ r.dealSize = 0 /\ r.lastDealSize = 0
  BY <1>1, <1>2 DEF Report
<1> QED BY <1>3 DEF b, k, u, f

LEMMA XAnswerIs ==
  ASSUME NEW id \in OrderId, NEW a \in XAnswer, a.status # "none", ExchIdIsOrderId
  PROVE  LET r == [XTP!BlankReport(id) EXCEPT !.orderStatus = XTP!GetOrderStatus(a),
                     !.dealSize = a.dealt, !.avgPriced = a.dealt # 0] IN
         /\ r \in Report /\ r.orderId = id /\ r.dealSize = a.dealt /\ r.lastDealSize = 0
<1> DEFINE b == XTP!BlankReport(id)
           t == a.dealt # 0
           s == XTP!GetOrderStatus(a)
<1>1. b \in Report /\ b.orderId = id /\ b.dealSize = 0 /\ b.lastDealSize = 0
  BY XBlankIs
<1>2. t \in BOOLEAN /\ a.dealt \in Int
  BY DEF XAnswer
<1>3. s \in OrderStatus
  BY XTPStatus DEF XTP!GetOrderStatus, XAnswer, AtExch, OrderStatus
<1> DEFINE r == [b EXCEPT !.orderStatus = s, !.dealSize = a.dealt, !.avgPriced = t]
<1> HIDE DEF b, t, s
<1>4. r \in Report /\ r.orderId = id /\ r.dealSize = a.dealt /\ r.lastDealSize = 0
  BY <1>1, <1>2, <1>3 DEF Report
<1> QED BY <1>4 DEF b, t, s

LEMMA XFrame ==
  ASSUME XTPInv, NEW x \in OrderId,
         xExch'[x] = xExch[x], stream'[x] = stream[x], xRequest'[x] = xRequest[x],
         xAnswer'[x] = xAnswer[x], syncTasks'[x] = syncTasks[x], db'[x] = db[x],
         x \notin xUsed' => x \notin xUsed,
         x \in HeldIds(xOrdMgr') =>
           x \in HeldIds(xOrdMgr) /\ CopyOf(xOrdMgr', x) = CopyOf(xOrdMgr, x)
  PROVE  XOrderOK(x)'
BY DEF XTPInv, XOrderOK, XUnseen

\* An order without deals, under way or refused.
LEMMA NewOrderIs ==
  ASSUME NEW id \in OrderId, NEW side \in Side, NEW size \in Size
  PROVE  LET o == NewOrder(id, side, size)
             f == XTP!FailedOrder(o) IN
         /\ o \in Order /\ o.orderId = id /\ o.dealSize = 0 /\ Abs(o.dealSize) = 0
         /\ o.exchOrderId = Unset /\ ~closed(o) /\ Sound(o)
         /\ f \in Order /\ f.orderId = id /\ Abs(f.dealSize) = 0 /\ closed(f) /\ Sound(f)
<1> DEFINE o == NewOrder(id, side, size)
           f == XTP!FailedOrder(o)
<1>1. side \in {"Bid", "Ask"} /\ size \in Nat
  BY SideAssumption, SizeAssumption
<1>2. /\ o \in Order /\ o.orderId = id /\ o.side = side /\ o.orderSize = size /\ o.dealSize = 0
      /\ o.exchOrderId = Unset /\ o.orderStatus = Pending
  BY <1>1 DEF NewOrder, Order, OrderStatus, Unset
<1> HIDE DEF o
<1>3. /\ f \in Order /\ f.orderId = id /\ f.side = side /\ f.orderSize = size /\ f.dealSize = 0
      /\ f.orderStatus = Failed
  <2>1. f = [o EXCEPT !.orderStatus = Failed, !.statusCode = 1]
    BY XTPStatus DEF XTP!FailedOrder
  <2>2. Failed \in OrderStatus
    BY DEF OrderStatus
  <2> HIDE DEF f
  <2> QED BY <1>2, <2>1, <2>2 DEF Order
<1> HIDE DEF f
<1>4. Abs(0) = 0 /\ Signed(side, 0) = 0 /\ 0 <= size /\ ~(Pending >= Filled) /\ Failed >= Filled
  BY <1>1 DEF Abs, Signed, Pending, Filled, Failed
<1>5. ~closed(o) /\ Sound(o)
  BY <1>2, <1>4 DEF closed, Sound
<1>6. closed(f) /\ Sound(f)
  BY <1>3, <1>4 DEF closed, Sound
<1> QED BY <1>2, <1>3, <1>4, <1>5, <1>6 DEF o, f

\* An order the gateway is given for the first time: what is known of it.
LEMMA XUnseenIs ==
  ASSUME XTPInv, NEW id \in OrderId, id \notin xUsed
  PROVE  /\ XUnseen(id) /\ id \notin HeldIds(xOrdMgr) /\ GoodGroup(xOrdMgr)
         /\ xExch[id] \in XExch
BY DEF XTPInv, TypedXTP, HeldXTP, XOrderOK

LEMMA XOnOrderKeeps ==
  ASSUME XTPInv, NEW id \in OrderId, NEW side \in Side, NEW size \in Size,
         XTP!OnOrder(id, side, size)
  PROVE  XTPInv'
<1> DEFINE o == NewOrder(id, side, size)
           e == [status |-> "sent", size |-> size, dealt |-> 0]
<1>1. /\ o \in Order /\ o.orderId = id /\ Abs(o.dealSize) = 0 /\ o.exchOrderId = Unset
      /\ ~closed(o) /\ Sound(o)
  BY NewOrderIs
<1>2. /\ id \notin xUsed /\ xUsed' = xUsed \cup {id} /\ xOrdMgr' = add(xOrdMgr, o)
      /\ syncTasks' = [syncTasks EXCEPT ![id] = o] /\ xExch' = [xExch EXCEPT ![id] = e]
      /\ xRequest' = xRequest /\ db' = db /\ stream' = stream /\ xAnswer' = xAnswer
  BY XTPNewOrder, XTPAdd DEF XTP!OnOrder, XTP!cacheSyncTaskGroup
<1> HIDE DEF o
<1>3. e \in XExch /\ e.dealt = 0
  BY SizeAssumption DEF XExch
<1> HIDE DEF e
<1>4. /\ XUnseen(id) /\ id \notin HeldIds(xOrdMgr) /\ GoodGroup(xOrdMgr)
  BY <1>2, XUnseenIs
<1>5. /\ GoodGroup(xOrdMgr') /\ HeldIds(xOrdMgr') = HeldIds(xOrdMgr) \cup {id}
      /\ CopyOf(xOrdMgr', id) = o
      /\ \A x \in HeldIds(xOrdMgr) : CopyOf(xOrdMgr', x) = CopyOf(xOrdMgr, x)
  BY <1>1, <1>2, <1>4, AddCopies
<1>6. TypedXTP' /\ HeldXTP'
  BY <1>1, <1>2, <1>3, <1>5 DEF XTPInv, TypedXTP, HeldXTP
<1>7. XOrderOK(id)'
  <2>1. /\ xExch'[id] = e /\ syncTasks'[id] = o /\ stream'[id] = << >> /\ xRequest'[id] = "none"
        /\ xAnswer'[id] = XTP!NoAnswer /\ db'[id] = XTP!NoOrder
    BY <1>2, <1>4 DEF XTPInv, TypedXTP, XUnseen
  <2>2. /\ Said(<< >>, e) /\ Answered(<< >>, e, XTP!NoAnswer) /\ NoneTwice(<< >>, e, 0, 0)
    BY <1>3, Nothing
  <2>3. RowOf(id, e, o)
    BY <1>1, <1>3 DEF RowOf
  <2> QED BY <1>1, <1>2, <1>5, <2>1, <2>2, <2>3 DEF XOrderOK
<1>8. ASSUME NEW x \in OrderId, x # id PROVE XOrderOK(x)'
  BY <1>2, <1>5, <1>8, XFrame DEF XTPInv, TypedXTP
<1> QED BY <1>6, <1>7, <1>8 DEF XTPInv

\* An order that is not sent: only its row is queued.
LEMMA XOrderFailedKeeps ==
  ASSUME XTPInv, NEW id \in OrderId, NEW side \in Side, NEW size \in Size,
         XTP!OrderFailed(id, side, size) \/ XTP!OrderExceedsFlowCtrl(id, side, size)
  PROVE  XTPInv'
<1> DEFINE o == XTP!FailedOrder(NewOrder(id, side, size))
<1>1. o \in Order /\ o.orderId = id /\ Abs(o.dealSize) = 0 /\ closed(o) /\ Sound(o)
  BY NewOrderIs
<1>2. /\ id \notin xUsed /\ xUsed' = xUsed \cup {id} /\ xOrdMgr' = xOrdMgr
      /\ syncTasks' = [syncTasks EXCEPT ![id] = o] /\ xExch' = xExch
      /\ xRequest' = xRequest /\ db' = db /\ stream' = stream /\ xAnswer' = xAnswer
  BY XTPNewOrder DEF XTP!OrderFailed, XTP!OrderExceedsFlowCtrl, XTP!cacheSyncTaskGroup, XTP!exchVars
<1> HIDE DEF o
<1>3. XUnseen(id) /\ id \notin HeldIds(xOrdMgr) /\ xExch[id] \in XExch /\ xExch[id].dealt \in Nat
  BY <1>2, XUnseenIs DEF XExch
<1>4. TypedXTP' /\ HeldXTP'
  BY <1>1, <1>2 DEF XTPInv, TypedXTP, HeldXTP
<1>5. XOrderOK(id)'
  <2>1. RowOf(id, xExch[id], o)
    BY <1>1, <1>3 DEF RowOf
  <2>2. syncTasks'[id] = o /\ db'[id] = XTP!NoOrder
    BY <1>2, <1>3 DEF XTPInv, TypedXTP, XUnseen
  <2>3. XOrderOK(id)
    BY DEF XTPInv
  <2> QED BY <1>2, <1>3, <2>1, <2>2, <2>3 DEF XOrderOK
<1>6. ASSUME NEW x \in OrderId, x # id PROVE XOrderOK(x)'
  BY <1>2, <1>6, XFrame DEF XTPInv, TypedXTP
<1> QED BY <1>4, <1>5, <1>6 DEF XTPInv

\* XTP's own steps: what it says comes after all that is on its way, or is lost.
LEMMA XExchKeeps ==
  ASSUME XTPInv, NEW id \in OrderId,
         \/ XTP!ExchTakesOrder(id) \/ XTP!ExchRefusesOrder(id)
         \/ XTP!ExchDeals(id) \/ XTP!ExchCancels(id)
  PROVE  XTPInv'
<1> DEFINE q == stream[id]
           d == xExch[id].dealt
<1>1. /\ TypedXTP /\ HeldXTP /\ xExch[id] \in XExch /\ q \in Seq(XReport) /\ d \in Nat
  BY DEF XTPInv, TypedXTP, XExch
<1> DEFINE Step(f, m) ==
             /\ f \in XExch /\ m \in XReport /\ xExch[id].status # "absent"
             /\ XTaken(xExch[id]) => XTaken(f)
             /\ m.kind = "trade" \/ m.status < Filled => XTaken(f)
             /\ f.dealt = d + IF m.kind = "trade" THEN 1 ELSE 0
             /\ m.dealt <= f.dealt \/ m.kind = "trade"
             /\ xExch' = [xExch EXCEPT ![id] = f]
             /\ stream' = stream \/ stream' = [stream EXCEPT ![id] = Append(q, m)]
             /\ xOrdMgr' = xOrdMgr /\ xUsed' = xUsed /\ xRequest' = xRequest /\ xAnswer' = xAnswer
             /\ syncTasks' = syncTasks /\ db' = db
<1>2. PICK f, m : Step(f, m)
  <2>1. CASE XTP!ExchTakesOrder(id)
    <3> DEFINE f == [xExch[id] EXCEPT !.status = "live"]
               m == XTP!OrderReturn(XTP!ConfirmedByExch, 0)
    <3>1. /\ xExch[id].status = "sent" /\ xExch' = [xExch EXCEPT ![id] = f]
          /\ stream' = stream \/ stream' = [stream EXCEPT ![id] = Append(q, m)]
          /\ xOrdMgr' = xOrdMgr /\ xUsed' = xUsed /\ xRequest' = xRequest /\ xAnswer' = xAnswer
          /\ syncTasks' = syncTasks /\ db' = db
      BY <1>1, <2>1 DEF XTP!ExchTakesOrder, XTP!Says, XTP!gwVars, TypedXTP
    <3>2. f \in XExch /\ f.status = "live" /\ f.dealt = d
      BY <1>1 DEF XExch, AtExch
    <3>3. m \in XReport /\ m.kind = "order" /\ m.dealt = 0 /\ m.status = ConfirmedByExch
      BY XTPStatus DEF XTP!OrderReturn, XReport, OrderStatus
    <3> HIDE DEF f, m
    <3>9. Step(f, m)
      BY <1>1, <3>1, <3>2, <3>3 DEF XTaken, AtExch
    <3> HIDE DEF Step
    <3> QED BY <3>9
  <2>2. CASE XTP!ExchRefusesOrder(id)
    <3> DEFINE f == [xExch[id] EXCEPT !.status = "rejected"]
               m == XTP!OrderReturn(XTP!Failed, 0)
    <3>1. /\ xExch[id].status = "sent" /\ xExch' = [xExch EXCEPT ![id] = f]
          /\ stream' = stream \/ stream' = [stream EXCEPT ![id] = Append(q, m)]
          /\ xOrdMgr' = xOrdMgr /\ xUsed' = xUsed /\ xRequest' = xRequest /\ xAnswer' = xAnswer
          /\ syncTasks' = syncTasks /\ db' = db
      BY <1>1, <2>2 DEF XTP!ExchRefusesOrder, XTP!Says, XTP!gwVars, TypedXTP
    <3>2. f \in XExch /\ f.status = "rejected" /\ f.dealt = d
      BY <1>1 DEF XExch, AtExch
    <3>3. m \in XReport /\ m.kind = "order" /\ m.dealt = 0 /\ m.status = Failed
      BY XTPStatus DEF XTP!OrderReturn, XReport, OrderStatus
    <3>4. ~(Failed < Filled)
      BY DEF Failed, Filled
    <3> HIDE DEF f, m
    <3>9. Step(f, m)
      BY <1>1, <3>1, <3>2, <3>3, <3>4 DEF XTaken, AtExch
    <3> HIDE DEF Step
    <3> QED BY <3>9
  <2>3. CASE XTP!ExchDeals(id)
    <3> DEFINE n == d + 1
               s == IF n = xExch[id].size THEN "filled" ELSE xExch[id].status
               f == [xExch[id] EXCEPT !.dealt = n, !.status = s]
               m == XTP!TradeReturn
    <3>1. /\ xExch[id].status = "live" /\ xExch' = [xExch EXCEPT ![id] = f]
          /\ stream' = stream \/ stream' = [stream EXCEPT ![id] = Append(q, m)]
          /\ xOrdMgr' = xOrdMgr /\ xUsed' = xUsed /\ xRequest' = xRequest /\ xAnswer' = xAnswer
          /\ syncTasks' = syncTasks /\ db' = db
      BY <1>1, <2>3 DEF XTP!ExchDeals, XTP!Says, XTP!gwVars, TypedXTP
    <3>2. n \in Nat /\ n = d + 1 /\ s \in {"live", "filled"}
      BY <1>1, <3>1
    <3> HIDE DEF n, s
    <3>3. f \in XExch /\ f.status \in {"live", "filled"} /\ f.dealt = d + 1
      BY <1>1, <3>2 DEF XExch, AtExch
    <3>4. m \in XReport /\ m.kind = "trade"
      BY XTPStatus DEF XTP!TradeReturn, XReport, OrderStatus
    <3> HIDE DEF f, m
    <3>9. Step(f, m)
      BY <1>1, <3>1, <3>3, <3>4 DEF XTaken, AtExch
    <3> HIDE DEF Step
    <3> QED BY <3>9
  <2>4. CASE XTP!ExchCancels(id)
    <3> DEFINE f == [xExch[id] EXCEPT !.status = "canceled"]
               s == IF d = 0 THEN XTP!Canceled ELSE XTP!PartialFilledCanceled
               m == XTP!OrderReturn(s, d)
    <3>1. /\ xExch[id].status = "live" /\ xExch' = [xExch EXCEPT ![id] = f]
          /\ stream' = stream \/ stream' = [stream EXCEPT ![id] = Append(q, m)]
          /\ xOrdMgr' = xOrdMgr /\ xUsed' = xUsed /\ xRequest' = xRequest /\ xAnswer' = xAnswer
          /\ syncTasks' = syncTasks /\ db' = db
      BY <1>1, <2>4 DEF XTP!ExchCancels, XTP!Says, XTP!gwVars, TypedXTP
    <3>2. f \in XExch /\ f.status = "canceled" /\ f.dealt = d
      BY <1>1 DEF XExch, AtExch
    <3>3. s \in OrderStatus
      BY XTPStatus DEF OrderStatus
    <3> HIDE DEF s
    <3>4. m \in XReport /\ m.kind = "order" /\ m.dealt = d
      BY <1>1, <3>3 DEF XTP!OrderReturn, XReport
    <3> HIDE DEF f, m
    <3>9. Step(f, m)
      BY <1>1, <3>1, <3>2, <3>4 DEF XTaken, AtExch
    <3> HIDE DEF Step
    <3> QED BY <3>9
  <2> QED BY <2>1, <2>2, <2>3, <2>4
<1> DEFINE r == stream'[id]
<1>3. /\ xExch'[id] = f /\ (r = q \/ r = Append(q, m))
      /\ \A x \in OrderId : x # id => xExch'[x] = xExch[x] /\ stream'[x] = stream[x]
  BY <1>1, <1>2 DEF TypedXTP
<1>4. XOrderOK(id) /\ id \in xUsed
  BY <1>2 DEF XTPInv, XOrderOK, XUnseen
<1> HIDE DEF r, q
<1>5. /\ r \in Seq(XReport)
      /\ \A n \in Nat : NoneTwice(q, xExch[id], n, 0) => NoneTwice(r, f, n, 0)
      /\ Said(q, xExch[id]) => Said(r, f)
      /\ \A a \in XAnswer : Answered(q, xExch[id], a) => Answered(r, f, a)
      /\ \A x \in OrderId, o \in Order : RowOf(x, xExch[id], o) => RowOf(x, f, o)
  BY <1>1, <1>2, <1>3, Saying DEF d
<1>6. TypedXTP' /\ HeldXTP'
  <2>1. stream' \in [OrderId -> Seq(XReport)]
    BY <1>1, <1>2, <1>3, <1>5 DEF TypedXTP, r
  <2> QED BY <1>1, <1>2, <2>1 DEF TypedXTP, HeldXTP
<1>7. XOrderOK(id)'
  <2>1. /\ xAnswer[id] \in XAnswer /\ syncTasks[id] \in Order \cup {XTP!NoOrder}
        /\ db[id] \in Order \cup {XTP!NoOrder}
    BY <1>1 DEF TypedXTP
  <2>2. ASSUME id \in HeldIds(xOrdMgr)
        PROVE  LET o == CopyOf(xOrdMgr, id) IN RowOf(id, f, o) /\ NoneTwice(r, f, Abs(o.dealSize), 0)
    <3>1. CopyOf(xOrdMgr, id) \in Order /\ Abs(CopyOf(xOrdMgr, id).dealSize) \in Nat
      BY <1>1, <2>2, CopyIs DEF HeldXTP, Order, Abs
    <3> QED BY <1>4, <1>5, <2>2, <3>1 DEF XOrderOK, q
  <2>3. Said(r, f) /\ Answered(r, f, xAnswer[id])
    BY <1>4, <1>5, <2>1 DEF XOrderOK, q
  <2>4. /\ syncTasks[id] # XTP!NoOrder => RowOf(id, f, syncTasks[id])
        /\ db[id] # XTP!NoOrder => RowOf(id, f, db[id])
    BY <1>4, <1>5, <2>1 DEF XOrderOK
  <2>5. stream'[id] = r
    BY DEF r
  <2> QED BY <1>2, <1>3, <1>4, <2>2, <2>3, <2>4, <2>5 DEF XOrderOK
<1>8. ASSUME NEW x \in OrderId, x # id PROVE XOrderOK(x)'
  BY <1>2, <1>3, <1>8, XFrame
<1> QED BY <1>6, <1>7, <1>8 DEF XTPInv

\* What is said of an order is merged: the copy counts it once, and what was
\* merged is queued for the database.
LEMMA XMergedKeeps ==
  ASSUME XTPInv, NEW id \in OrderId, NEW new \in Report, new.orderId = id,
         new.dealSize \in Nat, new.lastDealSize \in Nat,
         xOrdMgr' = UpdateFromExch(xOrdMgr, new),
         syncTasks' = IF xOrdMgr' # xOrdMgr
                      THEN [syncTasks EXCEPT ![id] = Lookup(xOrdMgr', new)] ELSE syncTasks,
         xExch' = xExch, xUsed' = xUsed, db' = db, id \in xUsed,
         \A x \in OrderId : x # id => /\ stream'[x] = stream[x] /\ xRequest'[x] = xRequest[x]
                                      /\ xAnswer'[x] = xAnswer[x],
         stream' \in [OrderId -> Seq(XReport)], xAnswer' \in [OrderId -> XAnswer],
         xRequest' \in [OrderId -> {"none", "give up", "query"}],
         Said(stream'[id], xExch[id]), Answered(stream'[id], xExch[id], xAnswer'[id]),
         xRequest'[id] = "query" => XTaken(xExch[id]),
         \A n \in Nat : NoneTwice(stream[id], xExch[id], n, 0) =>
           /\ NoneTwice(stream'[id], xExch[id], n, 0)
           /\ IsRtnTrade(new) => NoneTwice(stream'[id], xExch[id], n + new.lastDealSize, 0),
         NoneTwice(stream'[id], xExch[id], new.dealSize, 0),
         IsRtnTrade(new) \/ (new.exchOrderId # Unset /\ new.orderStatus < Filled) =>
           XTaken(xExch[id])
  PROVE  XTPInv'
<1> DEFINE o == CopyOf(xOrdMgr, id)
           p == CopyOf(xOrdMgr', id)
           e == xExch[id]
           r == stream'[id]
<1>1. /\ TypedXTP /\ HeldXTP /\ GoodGroup(xOrdMgr) /\ e \in XExch /\ e.dealt \in Nat
      /\ r \in Seq(XReport) /\ new.orderId # Unset
  BY OrderIdAssumption DEF XTPInv, TypedXTP, HeldXTP, XExch, Unset
<1>2. /\ GoodGroup(xOrdMgr') /\ HeldIds(xOrdMgr') \subseteq HeldIds(xOrdMgr)
      /\ \A x \in HeldIds(xOrdMgr') : x # id => CopyOf(xOrdMgr', x) = CopyOf(xOrdMgr, x)
      /\ id \notin HeldIds(xOrdMgr) => xOrdMgr' = xOrdMgr
      /\ id \in HeldIds(xOrdMgr) =>
           /\ id \in HeldIds(xOrdMgr')
           /\ Abs(o.dealSize) \in Nat /\ Abs(p.dealSize) \in Nat
           /\ IF IsRtnTrade(new) THEN Abs(p.dealSize) = Abs(o.dealSize) + new.lastDealSize
                                 ELSE Abs(p.dealSize) \in {Abs(o.dealSize), new.dealSize}
           /\ p.exchOrderId # Unset => o.exchOrderId # Unset \/ new.exchOrderId # Unset
           /\ ~closed(p) /\ ~IsRtnTrade(new) => ~closed(o) /\ new.orderStatus < Filled
  BY <1>1, MergeCopies
<1> HIDE DEF o, p, r, e
<1>3. ASSUME id \in HeldIds(xOrdMgr)
      PROVE  /\ p \in Order /\ RowOf(id, e, p) /\ NoneTwice(r, e, Abs(p.dealSize), 0)
             /\ Lookup(xOrdMgr', new) = p
  <2>1. p \in Order /\ Sound(p) /\ p.orderId = id
    BY <1>2, <1>3, CopyIs DEF p
  <2>2. RowOf(id, e, o) /\ NoneTwice(stream[id], e, Abs(o.dealSize), 0)
    BY <1>3 DEF XTPInv, XOrderOK, o, e
  <2>3. NoneTwice(r, e, Abs(p.dealSize), 0)
    <3>1. CASE IsRtnTrade(new)
      BY <1>2, <1>3, <2>2, <3>1 DEF e, r
    <3>2. CASE ~IsRtnTrade(new)
      BY <1>2, <1>3, <2>2, <3>2 DEF e, r
    <3> QED BY <3>1, <3>2
  <2>4. Abs(p.dealSize) <= e.dealt
    BY <1>1, <1>2, <1>3, <2>3, NotMore
  <2>5. ~closed(p) /\ p.exchOrderId # Unset => XTaken(e)
    BY <1>2, <1>3, <2>2 DEF RowOf, e
  <2>6. Lookup(xOrdMgr', new) = p
    BY <1>1, <1>2, <1>3, LookupIsCopy DEF p
  <2> QED BY <2>1, <2>3, <2>4, <2>5, <2>6 DEF RowOf
<1>4. \/ syncTasks' = syncTasks
      \/ id \in HeldIds(xOrdMgr) /\ syncTasks' = [syncTasks EXCEPT ![id] = p]
  BY <1>2, <1>3
<1>5. TypedXTP' /\ HeldXTP'
  <2>1. syncTasks' \in [OrderId -> Order \cup {XTP!NoOrder}]
    BY <1>1, <1>3, <1>4 DEF TypedXTP
  <2> QED BY <1>1, <1>2, <2>1 DEF TypedXTP, HeldXTP
<1>6. XOrderOK(id)'
  <2>1. syncTasks'[id] # XTP!NoOrder => RowOf(id, e, syncTasks'[id])
    BY <1>1, <1>3, <1>4 DEF XTPInv, XOrderOK, TypedXTP, e
  <2>2. db[id] # XTP!NoOrder => RowOf(id, e, db[id])
    BY DEF XTPInv, XOrderOK, e
  <2>3. id \in HeldIds(xOrdMgr') => RowOf(id, e, p) /\ NoneTwice(r, e, Abs(p.dealSize), 0)
    BY <1>2, <1>3
  <2> QED BY <2>1, <2>2, <2>3 DEF XOrderOK, e, r, p
<1>7. ASSUME NEW x \in OrderId, x # id PROVE XOrderOK(x)'
  <2>1. syncTasks'[x] = syncTasks[x]
    BY <1>1, <1>4, <1>7 DEF TypedXTP
  <2> QED BY <1>2, <1>7, <2>1, XFrame
<1> QED BY <1>5, <1>6, <1>7 DEF XTPInv

\* The first message of an order is handled.
LEMMA XOnEventKeeps ==
  ASSUME ~OutOfOrder, ExchIdIsOrderId, XTPInv, NEW id \in OrderId, XTP!OnEvent(id)
  PROVE  XTPInv'
<1> DEFINE q == stream[id]
           r == Tail(q)
           e == xExch[id]
           a == xAnswer[id]
<1>1. /\ TypedXTP /\ HeldXTP /\ XOrderOK(id) /\ q \in Seq(XReport) /\ e \in XExch /\ a \in XAnswer
      /\ stream \in [OrderId -> Seq(XReport)] /\ xAnswer \in [OrderId -> XAnswer]
  BY DEF XTPInv, TypedXTP
<1>2. /\ q # << >> /\ stream' = [stream EXCEPT ![id] = r] /\ xAnswer' = [xAnswer EXCEPT ![id] = Heard(a)]
      /\ xUsed' = xUsed /\ xRequest' = xRequest /\ db' = db /\ xExch' = xExch
      /\ \/ UNCHANGED <<xOrdMgr, syncTasks>>
         \/ q[1].kind = "order" /\ XTP!OnOrderEvent(id, q[1])
         \/ q[1].kind = "trade" /\ XTP!OnTradeEvent(id)
  <2>1. 1 \in DOMAIN q /\ q # << >> /\ stream' = [stream EXCEPT ![id] = SubSeq(q, 1, 1 - 1) \o SubSeq(q, 1 + 1, Len(q))]
    BY <1>1 DEF XTP!OnEvent, XTP!Nth
  <2>2. SubSeq(q, 1, 1 - 1) \o SubSeq(q, 1 + 1, Len(q)) = r
    BY <1>1, <2>1, FirstLeaves
  <2>3. xAnswer' = [xAnswer EXCEPT ![id] = Heard(a)]
    BY <1>1 DEF XTP!OnEvent, XTP!Nth, Heard
  <2>4. q[1].kind \in {"order", "trade"}
    <3>1. q[1] \in XReport
      BY <1>1, <2>1
    <3> QED BY <3>1 DEF XReport
  <2>5. \/ UNCHANGED <<xOrdMgr, syncTasks>>
        \/ q[1].kind = "order" /\ XTP!OnOrderEvent(id, q[1])
        \/ q[1].kind = "trade" /\ XTP!OnTradeEvent(id)
    BY <2>4 DEF XTP!OnEvent, XTP!Nth
  <2> QED BY <2>1, <2>2, <2>3, <2>5 DEF XTP!OnEvent
<1> HIDE DEF q, r, a, e
<1>3. /\ r \in Seq(XReport) /\ Said(r, e) /\ q[1] \in XReport
      /\ q[1].kind = "trade" \/ q[1].status < Filled => XTaken(e)
      /\ q[1].kind = "order" => NoneTwice(r, e, q[1].dealt, 0)
      /\ \A n \in Nat : NoneTwice(q, e, n, 0) =>
           NoneTwice(r, e, n, 0) /\ (q[1].kind = "trade" => NoneTwice(r, e, n + 1, 0))
      /\ Heard(a) \in XAnswer /\ Answered(r, e, Heard(a))
  <2>1. Said(q, e) /\ Answered(q, e, a)
    BY <1>1 DEF XOrderOK, q, e, a
  <2> QED BY <1>1, <1>2, <2>1, Hearing DEF r
<1>4. id \in xUsed /\ (xRequest[id] = "query" => XTaken(e))
  BY <1>1, <1>2 DEF XOrderOK, XUnseen, q, e
<1>5. /\ stream' \in [OrderId -> Seq(XReport)] /\ xAnswer' \in [OrderId -> XAnswer]
      /\ stream'[id] = r /\ xAnswer'[id] = Heard(a)
      /\ xRequest' \in [OrderId -> {"none", "give up", "query"}]
      /\ \A x \in OrderId : x # id => /\ stream'[x] = stream[x] /\ xRequest'[x] = xRequest[x]
                                      /\ xAnswer'[x] = xAnswer[x]
  BY <1>1, <1>2, <1>3 DEF TypedXTP
<1>6. CASE UNCHANGED <<xOrdMgr, syncTasks>>
  <2>1. TypedXTP' /\ HeldXTP'
    BY <1>1, <1>2, <1>5, <1>6 DEF TypedXTP, HeldXTP
  <2>2. id \in HeldIds(xOrdMgr) =>
          NoneTwice(r, e, Abs(CopyOf(xOrdMgr, id).dealSize), 0)
    <3>1. id \in HeldIds(xOrdMgr) => Abs(CopyOf(xOrdMgr, id).dealSize) \in Nat
      BY <1>1, CopyIs DEF HeldXTP, Order, Abs
    <3> QED BY <1>1, <1>3, <3>1 DEF XOrderOK, q, e
  <2>3. XOrderOK(id)'
    BY <1>1, <1>2, <1>3, <1>4, <1>5, <1>6, <2>2 DEF XOrderOK, e
  <2>4. ASSUME NEW x \in OrderId, x # id PROVE XOrderOK(x)'
    BY <1>2, <1>5, <1>6, <2>4, XFrame
  <2> QED BY <2>1, <2>3, <2>4 DEF XTPInv
<1>7. CASE q[1].kind = "order" /\ XTP!OnOrderEvent(id, q[1])
  <2> DEFINE new == XTP!ReportOfOrderReturn(id, q[1])
  <2>1. /\ new \in Report /\ new.orderId = id /\ new.orderStatus = q[1].status
        /\ new.dealSize = q[1].dealt /\ new.lastDealSize = 0 /\ q[1].dealt \in Nat /\ 0 \in Nat
    BY <1>3, XReturnIs DEF XReport
  <2>2. /\ xOrdMgr' = UpdateFromExch(xOrdMgr, new)
        /\ syncTasks' = IF xOrdMgr' # xOrdMgr
                        THEN [syncTasks EXCEPT ![id] = Lookup(xOrdMgr', new)] ELSE syncTasks
    BY <1>7, XTPUpdate, XTPLookup DEF XTP!OnOrderEvent, XTP!cacheSyncTaskGroup
  <2> HIDE DEF new
  <2>3. ~IsRtnTrade(new)
    BY <2>1 DEF IsRtnTrade
  <2> QED BY <1>2, <1>3, <1>4, <1>5, <1>7, <2>1, <2>2, <2>3, XMergedKeeps DEF q, e
<1>8. CASE q[1].kind = "trade" /\ XTP!OnTradeEvent(id)
  <2> DEFINE new == [XTP!BlankReport(id) EXCEPT !.lastDealSize = 1, !.lastPriced = TRUE]
  <2>1. new \in Report /\ new.orderId = id /\ new.dealSize = 0 /\ new.lastDealSize = 1 /\ 0 \in Nat /\ 1 \in Nat
    BY XTradeIs
  <2>2. /\ xOrdMgr' = UpdateFromExch(xOrdMgr, new)
        /\ syncTasks' = IF xOrdMgr' # xOrdMgr
                        THEN [syncTasks EXCEPT ![id] = Lookup(xOrdMgr', new)] ELSE syncTasks
    BY <1>8, XTPUpdate, XTPLookup DEF XTP!OnTradeEvent, XTP!Merged, XTP!cacheSyncTaskGroup
  <2> HIDE DEF new
  <2>3. NoneTwice(r, e, new.dealSize, 0)
    BY <1>3, <2>1 DEF Said
  <2> QED BY <1>2, <1>3, <1>4, <1>5, <1>8, <2>1, <2>2, <2>3, XMergedKeeps DEF q, e
<1> QED BY <1>2, <1>6, <1>7, <1>8

\* An answer is dropped, or merged when all that was said before it has come.
LEMMA XOnQueryOrderKeeps ==
  ASSUME ExchIdIsOrderId, XTPInv, NEW id \in OrderId, XTP!OnQueryOrderEx(id)
  PROVE  XTPInv'
<1> DEFINE q == stream[id]
           e == xExch[id]
           a == xAnswer[id]
<1>1. /\ TypedXTP /\ HeldXTP /\ XOrderOK(id) /\ q \in Seq(XReport) /\ e \in XExch /\ a \in XAnswer
      /\ e.dealt \in Nat
  BY DEF XTPInv, TypedXTP, XExch
<1>2. /\ a.status # "none" /\ xAnswer' = [xAnswer EXCEPT ![id] = XTP!NoAnswer]
      /\ xUsed' = xUsed /\ xRequest' = xRequest /\ db' = db /\ xExch' = xExch /\ stream' = stream
      /\ \/ UNCHANGED <<xOrdMgr, syncTasks>>
         \/ /\ a.awaited = 0
            /\ XTP!Merged(id, [XTP!BlankReport(id) EXCEPT !.orderStatus = XTP!GetOrderStatus(a),
                                 !.dealSize = a.dealt, !.avgPriced = a.dealt # 0],
                          {XTP!Filled, XTP!Canceled, XTP!PartialFilledCanceled, XTP!Failed})
  BY DEF XTP!OnQueryOrderEx, XTP!CheckIfUpdateOrderInfo
<1>3. /\ XTaken(e) /\ id \in xUsed /\ (a.awaited = 0 => NoneTwice(q, e, a.dealt, 0))
      /\ Answered(q, e, XTP!NoAnswer) /\ XTP!NoAnswer \in XAnswer
  <2>1. XTP!NoAnswer.status = "none"
    BY DEF XTP!NoAnswer
  <2>2. Answered(q, e, a) /\ (id \notin xUsed => xAnswer[id] = XTP!NoAnswer)
    BY <1>1 DEF XOrderOK, XUnseen
  <2> QED BY <1>1, <1>2, <2>1, <2>2, Nothing DEF Answered
<1>4. /\ stream' \in [OrderId -> Seq(XReport)] /\ xAnswer' \in [OrderId -> XAnswer]
      /\ xAnswer'[id] = XTP!NoAnswer
      /\ xRequest' \in [OrderId -> {"none", "give up", "query"}]
      /\ \A x \in OrderId : x # id => xAnswer'[x] = xAnswer[x]
  BY <1>1, <1>2, <1>3 DEF TypedXTP
<1> HIDE DEF q, a, e
<1>5. CASE UNCHANGED <<xOrdMgr, syncTasks>>
  <2>1. TypedXTP' /\ HeldXTP'
    BY <1>1, <1>2, <1>4, <1>5 DEF TypedXTP, HeldXTP
  <2>2. XOrderOK(id)'
    BY <1>1, <1>2, <1>3, <1>4, <1>5 DEF XOrderOK, e, q
  <2>3. ASSUME NEW x \in OrderId, x # id PROVE XOrderOK(x)'
    BY <1>2, <1>4, <1>5, <2>3, XFrame
  <2> QED BY <2>1, <2>2, <2>3 DEF XTPInv
<1>6. CASE ~UNCHANGED <<xOrdMgr, syncTasks>>
  <2> DEFINE new == [XTP!BlankReport(id) EXCEPT !.orderStatus = XTP!GetOrderStatus(a),
                       !.dealSize = a.dealt, !.avgPriced = a.dealt # 0]
  <2>1. /\ new \in Report /\ new.orderId = id /\ new.dealSize = a.dealt /\ new.lastDealSize = 0
        /\ a.dealt \in Nat /\ 0 \in Nat
    <3>1. a.dealt \in Nat
      BY <1>1 DEF XAnswer
    <3>2. a.status # "none"
      BY <1>2 DEF a
    <3> QED BY <1>1, <3>1, <3>2, XAnswerIs
  <2>2. /\ xOrdMgr' = UpdateFromExch(xOrdMgr, new)
        /\ syncTasks' = IF xOrdMgr' # xOrdMgr
                        THEN [syncTasks EXCEPT ![id] = Lookup(xOrdMgr', new)] ELSE syncTasks
    BY <1>2, <1>6, XTPUpdate, XTPLookup DEF XTP!Merged, XTP!cacheSyncTaskGroup
  <2> HIDE DEF new
  <2>3. ~IsRtnTrade(new)
    BY <2>1 DEF IsRtnTrade
  <2>4. NoneTwice(q, e, new.dealSize, 0) /\ Said(q, e) /\ a.awaited = 0
    BY <1>1, <1>2, <1>3, <1>6, <2>1 DEF XOrderOK, q, e
  <2> QED BY <1>2, <1>3, <1>4, <2>1, <2>2, <2>3, <2>4, XMergedKeeps DEF q, e
<1> QED BY <1>5, <1>6

\* An order without exchOrderId is given up.
LEMMA XGiveUpKeeps ==
  ASSUME ExchIdIsOrderId, XTPInv, NEW id \in OrderId, XTP!GiveUpOrder(id)
  PROVE  XTPInv'
<1> DEFINE new == [XTP!BlankReport(id) EXCEPT !.exchOrderId = XTP!Unset,
                     !.orderStatus = XTP!Failed, !.statusCode = 1]
<1>1. TypedXTP /\ XOrderOK(id)
  BY DEF XTPInv
<1>2. /\ xRequest[id] = "give up" /\ xRequest' = [xRequest EXCEPT ![id] = "none"]
      /\ xUsed' = xUsed /\ db' = db /\ xExch' = xExch /\ stream' = stream /\ xAnswer' = xAnswer
      /\ xOrdMgr' = UpdateFromExch(xOrdMgr, new)
      /\ syncTasks' = IF xOrdMgr' # xOrdMgr
                      THEN [syncTasks EXCEPT ![id] = Lookup(xOrdMgr', new)] ELSE syncTasks
  BY XTPUpdate, XTPLookup DEF XTP!GiveUpOrder, XTP!Merged, XTP!cacheSyncTaskGroup, XTP!exchVars
<1>3. /\ new \in Report /\ new.orderId = id /\ new.orderStatus = Failed
      /\ new.dealSize = 0 /\ new.lastDealSize = 0 /\ 0 \in Nat
  BY XGivenUpIs
<1> HIDE DEF new
<1>4. /\ ~IsRtnTrade(new) /\ ~(new.orderStatus < Filled)
  BY <1>3 DEF IsRtnTrade, Failed, Filled
<1>5. /\ stream' \in [OrderId -> Seq(XReport)] /\ xAnswer' \in [OrderId -> XAnswer]
      /\ xRequest' \in [OrderId -> {"none", "give up", "query"}] /\ xRequest'[id] = "none"
      /\ \A x \in OrderId : x # id => xRequest'[x] = xRequest[x]
  BY <1>1, <1>2 DEF TypedXTP
<1>6. /\ id \in xUsed /\ Said(stream[id], xExch[id]) /\ Answered(stream[id], xExch[id], xAnswer[id])
      /\ NoneTwice(stream[id], xExch[id], new.dealSize, 0)
  BY <1>1, <1>2, <1>3 DEF XOrderOK, XUnseen, Said
<1>7. /\ stream'[id] = stream[id] /\ xAnswer'[id] = xAnswer[id]
      /\ \A x \in OrderId : x # id => stream'[x] = stream[x] /\ xAnswer'[x] = xAnswer[x]
      /\ new.dealSize \in Nat /\ new.lastDealSize \in Nat
  BY <1>2, <1>3
<1>8. \A n \in Nat : NoneTwice(stream[id], xExch[id], n, 0) =>
        /\ NoneTwice(stream'[id], xExch[id], n, 0)
        /\ IsRtnTrade(new) => NoneTwice(stream'[id], xExch[id], n + new.lastDealSize, 0)
  BY <1>4, <1>7
<1>9. xRequest'[id] = "query" => XTaken(xExch[id])
  BY <1>5
<1>10. IsRtnTrade(new) \/ (new.exchOrderId # Unset /\ new.orderStatus < Filled) => XTaken(xExch[id])
  BY <1>4
<1> QED BY <1>2, <1>3, <1>5, <1>6, <1>7, <1>8, <1>9, <1>10, XMergedKeeps

\* The scheduler asks about an order that has an exchOrderId, which XTP took.
LEMMA XSyncKeeps ==
  ASSUME XTPInv, NEW id \in OrderId, XTP!SyncUnclosedOrders(id)
  PROVE  XTPInv'
<1> DEFINE v == IF xOrdMgr.open[id].exchOrderId = Unset THEN "give up" ELSE "query"
<1>1. TypedXTP /\ HeldXTP /\ XOrderOK(id)
  BY DEF XTPInv
<1>2. /\ id \in OpenIds(xOrdMgr) /\ xRequest' = [xRequest EXCEPT ![id] = v]
      /\ xUsed' = xUsed /\ db' = db /\ xExch' = xExch /\ stream' = stream /\ xAnswer' = xAnswer
      /\ xOrdMgr' = xOrdMgr /\ syncTasks' = syncTasks
  BY XTPOrder, XTPStatus DEF XTP!SyncUnclosedOrders, XTP!exchVars
<1>3. id \in HeldIds(xOrdMgr) /\ id \in xUsed
  BY <1>1, <1>2 DEF HeldXTP, HeldIds
<1>4. CopyOf(xOrdMgr, id) = xOrdMgr.open[id] /\ ~closed(CopyOf(xOrdMgr, id))
  BY <1>1, <1>2, <1>3, CopyIs DEF HeldXTP
<1>5. v \in {"give up", "query"} /\ (v = "query" => XTaken(xExch[id]))
  BY <1>1, <1>3, <1>4 DEF XOrderOK, RowOf
<1> HIDE DEF v
<1>6. TypedXTP' /\ HeldXTP' /\ xRequest'[id] = v
  BY <1>1, <1>2, <1>5 DEF TypedXTP, HeldXTP
<1>7. XOrderOK(id)'
  BY <1>1, <1>2, <1>3, <1>5, <1>6 DEF XOrderOK
<1>8. ASSUME NEW x \in OrderId, x # id PROVE XOrderOK(x)'
  BY <1>1, <1>2, <1>8, XFrame DEF TypedXTP
<1> QED BY <1>6, <1>7, <1>8 DEF XTPInv

\* An answer says what was dealt so far; all that was said before is on its way.
LEMMA XQueryKeeps ==
  ASSUME XTPInv, NEW id \in OrderId, XTP!QueryOrder(id)
  PROVE  XTPInv'
<1> DEFINE q == stream[id]
           e == xExch[id]
           a == [status |-> e.status, dealt |-> e.dealt, awaited |-> Len(q)]
<1>1. /\ TypedXTP /\ HeldXTP /\ XOrderOK(id) /\ q \in Seq(XReport) /\ e \in XExch
      /\ Len(q) \in Nat /\ e.dealt \in Nat
  <2>1. TypedXTP /\ HeldXTP /\ XOrderOK(id) /\ stream[id] \in Seq(XReport) /\ xExch[id] \in XExch
    BY DEF XTPInv, TypedXTP
  <2>2. Len(stream[id]) \in Nat
    BY <2>1
  <2>3. xExch[id].dealt \in Nat
    BY <2>1 DEF XExch
  <2> QED BY <2>1, <2>2, <2>3
<1>2. /\ xRequest[id] = "query" /\ xRequest' = [xRequest EXCEPT ![id] = "none"]
      /\ xUsed' = xUsed /\ db' = db /\ xExch' = xExch /\ stream' = stream
      /\ xOrdMgr' = xOrdMgr /\ syncTasks' = syncTasks
      /\ xAnswer' = xAnswer \/ xAnswer' = [xAnswer EXCEPT ![id] = a]
  BY DEF XTP!QueryOrder
<1>3. XTaken(e) /\ id \in xUsed
  BY <1>1, <1>2 DEF XOrderOK, XUnseen
<1>4. /\ a \in XAnswer /\ a.status # "none" /\ a.dealt = e.dealt /\ a.awaited = Len(q)
  BY <1>1, <1>3 DEF XAnswer, XTaken, AtExch
<1>5. Answered(q, e, a)
  <2>1. Coming(q, Len(q)) = 0
    <3>1. PICK k \in Nat : k = Len(q) /\ k >= Len(q)
      BY <1>1
    <3> QED BY <1>1, <3>1, ComingIs
  <2> QED BY <1>1, <1>3, <1>4, <2>1 DEF Answered, NoneTwice
<1> HIDE DEF a
<1>6. TypedXTP' /\ HeldXTP' /\ xRequest'[id] = "none" /\ xAnswer'[id] \in {xAnswer[id], a}
  <2>1. xAnswer' \in [OrderId -> XAnswer] /\ xAnswer'[id] \in {xAnswer[id], a}
    BY <1>1, <1>2, <1>4 DEF TypedXTP
  <2>2. xRequest' \in [OrderId -> {"none", "give up", "query"}] /\ xRequest'[id] = "none"
    BY <1>1, <1>2 DEF TypedXTP
  <2> QED BY <1>1, <1>2, <2>1, <2>2 DEF TypedXTP, HeldXTP
<1>7. XOrderOK(id)'
  BY <1>1, <1>2, <1>3, <1>5, <1>6 DEF XOrderOK
<1>8. ASSUME NEW x \in OrderId, x # id PROVE XOrderOK(x)'
  BY <1>1, <1>2, <1>8, XFrame DEF TypedXTP
<1> QED BY <1>6, <1>7, <1>8 DEF XTPInv

\* What changes only cancellations and the session.
LEMMA XOtherKeeps ==
  ASSUME XTPInv,
         \/ XTP!OnDisconnected \/ UNCHANGED XTP!vars
         \/ \E id \in OrderId : \/ XTP!OnCancelOrder(id) \/ XTP!OnCancelOrderError(id)
                                \/ XTP!ExchRefusesCancel(id)
  PROVE  XTPInv'
<1>1. UNCHANGED <<xUsed, xOrdMgr, xExch, stream, xRequest, xAnswer, syncTasks, db>>
  BY DEF XTP!OnDisconnected, XTP!OnCancelOrder, XTP!OnCancelOrderError, XTP!ExchRefusesCancel,
         XTP!vars, XTP!gwVars, XTP!exchVars
<1>2. TypedXTP' /\ HeldXTP'
  BY <1>1 DEF XTPInv, TypedXTP, HeldXTP
<1>3. ASSUME NEW x \in OrderId PROVE XOrderOK(x)'
  BY <1>1, XFrame
<1> QED BY <1>2, <1>3 DEF XTPInv

\* All that is on its way is lost.
LEMMA XDisconnectKeeps ==
  ASSUME XTPInv, XTP!Disconnect
  PROVE  XTPInv'
<1>1. TypedXTP /\ HeldXTP
  BY DEF XTPInv
<1>2. PICK lost \in SUBSET {id \in OrderId : xExch[id].status = "sent"} :
        xExch' = [id \in OrderId |-> IF id \in lost THEN [xExch[id] EXCEPT !.status = "lost"]
                                                    ELSE xExch[id]]
  BY DEF XTP!Disconnect
<1>3. /\ UNCHANGED <<xUsed, xOrdMgr, xRequest, syncTasks, db>>
      /\ stream' = [id \in OrderId |-> << >>] /\ xAnswer' = [id \in OrderId |-> XTP!NoAnswer]
  BY DEF XTP!Disconnect, XTP!gwVars
<1>4. ASSUME NEW x \in OrderId
      PROVE  /\ xExch'[x] \in XExch /\ xExch'[x].dealt = xExch[x].dealt
             /\ XTaken(xExch[x]) => XTaken(xExch'[x])
             /\ xExch[x].status = "absent" => xExch'[x].status = "absent"
             /\ stream'[x] = << >> /\ xAnswer'[x] = XTP!NoAnswer
  <2>1. xExch[x] \in XExch
    BY <1>1 DEF TypedXTP
  <2>2. CASE x \in lost
    <3> DEFINE f == [xExch[x] EXCEPT !.status = "lost"]
    <3>1. xExch'[x] = f /\ xExch[x].status = "sent"
      BY <1>2, <2>2
    <3>2. f \in XExch /\ f.dealt = xExch[x].dealt
      BY <2>1 DEF XExch
    <3> HIDE DEF f
    <3> QED BY <1>3, <3>1, <3>2 DEF XTaken, AtExch
  <2>3. CASE x \notin lost
    BY <1>2, <1>3, <2>1, <2>3
  <2> QED BY <2>2, <2>3
<1>5. TypedXTP' /\ HeldXTP'
  <2>1. xExch' \in [OrderId -> XExch]
    BY <1>2, <1>4
  <2>2. << >> \in Seq(XReport) /\ XTP!NoAnswer \in XAnswer
    BY DEF XTP!NoAnswer, XAnswer
  <2> QED BY <1>1, <1>3, <2>1, <2>2 DEF TypedXTP, HeldXTP
<1>6. ASSUME NEW x \in OrderId PROVE XOrderOK(x)'
  <2> DEFINE e == xExch[x]
             f == xExch'[x]
  <2>1. /\ XOrderOK(x) /\ e \in XExch /\ f \in XExch /\ f.dealt = e.dealt /\ e.dealt \in Nat
        /\ XTaken(e) => XTaken(f)
    BY <1>1, <1>4 DEF XTPInv, TypedXTP, XExch
  <2>2. /\ Said(<< >>, f) /\ Answered(<< >>, f, XTP!NoAnswer)
        /\ \A n \in Nat : n <= f.dealt => NoneTwice(<< >>, f, n, 0)
    BY <2>1, Nothing
  <2>3. stream'[x] = << >> /\ xAnswer'[x] = XTP!NoAnswer
    BY <1>4
  <2>4. e.status = "absent" => f.status = "absent"
    BY <1>4
  <2> HIDE DEF e, f
  <2>5. \A o : RowOf(x, e, o) => RowOf(x, f, o)
    BY <2>1 DEF RowOf
  <2>6. ASSUME x \in HeldIds(xOrdMgr)
        PROVE  LET o == CopyOf(xOrdMgr, x) IN
               RowOf(x, f, o) /\ NoneTwice(<< >>, f, Abs(o.dealSize), 0)
    <3>1. Abs(CopyOf(xOrdMgr, x).dealSize) \in Nat
      BY <1>1, <2>6, CopyIs DEF HeldXTP, Order, Abs
    <3>2. RowOf(x, f, CopyOf(xOrdMgr, x))
      BY <2>1, <2>5, <2>6 DEF XOrderOK, e
    <3> QED BY <2>2, <3>1, <3>2 DEF RowOf
  <2> QED BY <1>3, <2>1, <2>2, <2>3, <2>4, <2>5, <2>6 DEF XOrderOK, XUnseen, e, f
<1> QED BY <1>5, <1>6 DEF XTPInv

\* What is queued is written.
LEMMA XHandleSyncKeeps ==
  ASSUME XTPInv, XTP!HandleSyncTaskGroup
  PROVE  XTPInv'
<1>1. TypedXTP /\ HeldXTP
  BY DEF XTPInv
<1>2. /\ UNCHANGED <<xUsed, xOrdMgr, xRequest, xExch, stream, xAnswer>>
      /\ db' = [id \in OrderId |-> IF syncTasks[id] # XTP!NoOrder THEN syncTasks[id] ELSE db[id]]
      /\ syncTasks' = [id \in OrderId |-> XTP!NoOrder]
  BY DEF XTP!HandleSyncTaskGroup, XTP!exchVars
<1>3. TypedXTP' /\ HeldXTP'
  BY <1>1, <1>2 DEF TypedXTP, HeldXTP
<1>4. ASSUME NEW x \in OrderId PROVE XOrderOK(x)'
  <2>1. /\ XOrderOK(x) /\ syncTasks'[x] = XTP!NoOrder
        /\ db'[x] = IF syncTasks[x] # XTP!NoOrder THEN syncTasks[x] ELSE db[x]
    BY <1>2 DEF XTPInv
  <2>2. db'[x] # XTP!NoOrder => RowOf(x, xExch[x], db'[x])
    BY <2>1 DEF XOrderOK
  <2> QED BY <1>2, <2>1, <2>2 DEF XOrderOK, XUnseen
<1> QED BY <1>3, <1>4 DEF XTPInv

\* The gateway is started again and holds the rows that are not closed.
LEMMA XCrashKeeps ==
  ASSUME XTPInv, XTP!CrashAndRestart
  PROVE  XTPInv'
<1> DEFINE S == {x \in OrderId : db[x] # XTP!NoOrder /\ ~closed(db[x])}
           f == [id \in S |-> db[id]]
<1>1. TypedXTP /\ HeldXTP /\ \A x \in OrderId : XOrderOK(x)
  BY DEF XTPInv
<1>2. /\ UNCHANGED <<xUsed, xExch, db>>
      /\ xOrdMgr' = [open |-> f, recent |-> << >>]
      /\ syncTasks' = [id \in OrderId |-> XTP!NoOrder] /\ xRequest' = [id \in OrderId |-> "none"]
      /\ stream' = [id \in OrderId |-> << >>] /\ xAnswer' = [id \in OrderId |-> XTP!NoAnswer]
  BY XTPOrder DEF XTP!CrashAndRestart, XTP!Loaded
<1>3. \A x \in S : /\ x \in OrderId /\ db[x] \in Order /\ RowOf(x, xExch[x], db[x])
                   /\ ~closed(db[x]) /\ x \in xUsed
  BY <1>1 DEF TypedXTP, XOrderOK, XUnseen
<1>4. /\ GoodGroup(xOrdMgr') /\ OpenIds(xOrdMgr') = S /\ RecentIds(xOrdMgr') = {}
      /\ \A x \in S : xOrdMgr'.open[x] = db[x]
  <2>1. << >> \in Seq(Order) /\ Len(<< >>) = 0 /\ DOMAIN << >> = {}
    OBVIOUS
  <2>2. f \in [S -> Order] /\ S \in SUBSET OrderId /\ \A x \in S : f[x] = db[x]
    BY <1>3
  <2> HIDE DEF f, S
  <2>3. xOrdMgr'.open = f /\ xOrdMgr'.recent = << >>
    BY <1>2
  <2>4. OpenIds(xOrdMgr') = S /\ RecentIds(xOrdMgr') = {}
    BY <2>1, <2>2, <2>3 DEF OpenIds, RecentIds
  <2>5. IsGroup(xOrdMgr')
    BY <1>2, <2>1, <2>2 DEF IsGroup
  <2>6. GoodGroup(xOrdMgr')
    BY <1>3, <2>1, <2>2, <2>3, <2>4, <2>5, MaxClosedAssumption DEF GoodGroup, RowOf
  <2> QED BY <2>2, <2>3, <2>4, <2>6
<1> HIDE DEF f, S
<1>5. HeldIds(xOrdMgr') = S /\ \A x \in S : CopyOf(xOrdMgr', x) = db[x]
  BY <1>4 DEF HeldIds, CopyOf
<1>6. TypedXTP' /\ HeldXTP'
  <2>1. << >> \in Seq(XReport) /\ XTP!NoAnswer \in XAnswer
    BY DEF XTP!NoAnswer, XAnswer
  <2>2. HeldXTP'
    BY <1>2, <1>3, <1>4, <1>5 DEF HeldXTP
  <2> QED BY <1>1, <1>2, <2>1, <2>2 DEF TypedXTP
<1>7. ASSUME NEW x \in OrderId PROVE XOrderOK(x)'
  <2>1. xExch[x] \in XExch
    BY <1>1 DEF TypedXTP
  <2>2. /\ Said(<< >>, xExch[x]) /\ Answered(<< >>, xExch[x], XTP!NoAnswer)
        /\ \A n \in Nat : n <= xExch[x].dealt => NoneTwice(<< >>, xExch[x], n, 0)
    BY <2>1, Nothing
  <2>3. /\ stream'[x] = << >> /\ xAnswer'[x] = XTP!NoAnswer /\ xRequest'[x] = "none"
        /\ syncTasks'[x] = XTP!NoOrder
    BY <1>2
  <2>4. ASSUME x \in S
        PROVE  /\ RowOf(x, xExch[x], db[x]) /\ Abs(db[x].dealSize) \in Nat
               /\ NoneTwice(<< >>, xExch[x], Abs(db[x].dealSize), 0)
    <3>1. RowOf(x, xExch[x], db[x]) /\ Abs(db[x].dealSize) \in Nat
      BY <1>3, <2>4 DEF Order, Abs
    <3> QED BY <2>2, <3>1 DEF RowOf
  <2> QED BY <1>1, <1>2, <1>5, <2>2, <2>3, <2>4 DEF XOrderOK, XUnseen
<1> QED BY <1>6, <1>7 DEF XTPInv

LEMMA XTPInit == XTP!Init => XTPInv
<1> SUFFICES ASSUME XTP!Init PROVE XTPInv
  OBVIOUS
<1>1. /\ xOrdMgr = EmptyGroup /\ xUsed = {}
      /\ xExch = [id \in OrderId |-> [status |-> "absent", size |-> 0, dealt |-> 0]]
      /\ stream = [id \in OrderId |-> << >>] /\ xRequest = [id \in OrderId |-> "none"]
      /\ xAnswer = [id \in OrderId |-> XTP!NoAnswer]
      /\ syncTasks = [id \in OrderId |-> XTP!NoOrder] /\ db = [id \in OrderId |-> XTP!NoOrder]
  BY XTPOrder DEF XTP!Init
<1>2. GoodGroup(xOrdMgr) /\ HeldIds(xOrdMgr) = {}
  BY <1>1, EmptyGood DEF HeldIds
<1>3. /\ XTP!NoAnswer \in XAnswer /\ << >> \in Seq(XReport)
      /\ [status |-> "absent", size |-> 0, dealt |-> 0] \in XExch
  <2>1. << >> \in Seq(XReport)
    OBVIOUS
  <2> QED BY <2>1 DEF XTP!NoAnswer, XAnswer, XExch
<1>4. TypedXTP
  BY <1>1, <1>3 DEF TypedXTP
<1>5. ASSUME NEW id \in OrderId PROVE XOrderOK(id)
  <2>1. /\ xExch[id] \in XExch /\ xExch[id].status = "absent" /\ stream[id] = << >>
        /\ xRequest[id] = "none" /\ xAnswer[id] = XTP!NoAnswer
        /\ syncTasks[id] = XTP!NoOrder /\ db[id] = XTP!NoOrder
    BY <1>1, <1>3
  <2>2. Said(<< >>, xExch[id]) /\ Answered(<< >>, xExch[id], XTP!NoAnswer)
    BY <2>1, Nothing
  <2> QED BY <1>2, <2>1, <2>2 DEF XOrderOK, XUnseen
<1> QED BY <1>1, <1>2, <1>4, <1>5 DEF XTPInv, HeldXTP

LEMMA XTPStep ==
  ASSUME ~OutOfOrder, ExchIdIsOrderId PROVE XTPInv /\ (XTP!Next \/ UNCHANGED XTP!vars) => XTPInv'
<1> SUFFICES ASSUME XTPInv, XTP!Next \/ UNCHANGED XTP!vars PROVE XTPInv'
  OBVIOUS
<1>1. ASSUME \/ XTP!OnDisconnected \/ UNCHANGED XTP!vars
             \/ \E id \in OrderId : \/ XTP!OnCancelOrder(id) \/ XTP!OnCancelOrderError(id)
                                    \/ XTP!ExchRefusesCancel(id)
      PROVE  XTPInv'
  BY <1>1, XOtherKeeps
<1>2. ASSUME NEW id \in OrderId, NEW side \in Side, NEW size \in Size, XTP!OnOrder(id, side, size)
      PROVE  XTPInv'
  BY <1>2, XOnOrderKeeps
<1>3. ASSUME NEW id \in OrderId, NEW side \in Side, NEW size \in Size,
             XTP!OrderFailed(id, side, size) \/ XTP!OrderExceedsFlowCtrl(id, side, size)
      PROVE  XTPInv'
  BY <1>3, XOrderFailedKeeps
<1>4. ASSUME NEW id \in OrderId, \/ XTP!ExchTakesOrder(id) \/ XTP!ExchRefusesOrder(id)
                                 \/ XTP!ExchDeals(id) \/ XTP!ExchCancels(id)
      PROVE  XTPInv'
  BY <1>4, XExchKeeps
<1>5. ASSUME NEW id \in OrderId, XTP!OnEvent(id) PROVE XTPInv'
  BY <1>5, XOnEventKeeps
<1>6. ASSUME NEW id \in OrderId, XTP!OnQueryOrderEx(id) PROVE XTPInv'
  BY <1>6, XOnQueryOrderKeeps
<1>7. ASSUME NEW id \in OrderId, XTP!GiveUpOrder(id) PROVE XTPInv'
  BY <1>7, XGiveUpKeeps
<1>8. ASSUME NEW id \in OrderId, XTP!SyncUnclosedOrders(id) PROVE XTPInv'
  BY <1>8, XSyncKeeps
<1>9. ASSUME NEW id \in OrderId, XTP!QueryOrder(id) PROVE XTPInv'
  BY <1>9, XQueryKeeps
<1>10. ASSUME XTP!Disconnect PROVE XTPInv'
  BY <1>10, XDisconnectKeeps
<1>11. ASSUME XTP!HandleSyncTaskGroup PROVE XTPInv'
  BY <1>11, XHandleSyncKeeps
<1>12. ASSUME XTP!CrashAndRestart PROVE XTPInv'
  BY <1>12, XCrashKeeps
<1> QED BY <1>1, <1>2, <1>3, <1>4, <1>5, <1>6, <1>7, <1>8, <1>9, <1>10, <1>11, <1>12 DEF XTP!Next

LEMMA XTPCounts == ASSUME ExchIdIsOrderId PROVE XTPInv => XTPDealCountedOnce
<1> SUFFICES ASSUME XTPInv, NEW id \in OrderId, XTP!Held(id)
             PROVE  Abs(XTP!OrderOf(id).dealSize) + XTP!OnTheirWay(id) <= xExch[id].dealt
  BY XTPOrder DEF XTPDealCountedOnce, XTP!DealCountedOnce
<1>1. id \in HeldIds(xOrdMgr) /\ GoodGroup(xOrdMgr) /\ stream[id] \in Seq(XReport)
  BY XTPOrder DEF XTP!Held, HeldIds, XTPInv, HeldXTP, TypedXTP
<1>2. XTP!BlankReport(id).orderId = id /\ id # Unset
  BY XBlankIs, OrderIdAssumption DEF Unset
<1>3. XTP!OrderOf(id) = CopyOf(xOrdMgr, id)
  BY <1>1, <1>2, LookupIsCopy, XTPLookup DEF XTP!OrderOf
<1>4. XTP!OnTheirWay(id) = Coming(stream[id], 0)
  <2> DEFINE q == stream[id]
  <2>1. q \in Seq(XReport)
    BY <1>1
  <2> HIDE DEF q
  <2>2. \A i \in DOMAIN q : i > 0
    BY <2>1
  <2>3. {i \in DOMAIN q : q[i].kind = "trade"} = {i \in DOMAIN q : i > 0 /\ q[i].kind = "trade"}
    BY <2>2
  <2>4. \A S : XTP!Cardinality(S) = Cardinality(S)
    BY DEF XTP!Cardinality, Cardinality, XTP!IsFiniteSet, IsFiniteSet
  <2> QED BY <2>3, <2>4 DEF XTP!OnTheirWay, Coming, q
<1> QED BY <1>1, <1>3, <1>4 DEF XTPInv, XOrderOK, NoneTwice

\* A deal of an order at XTP is never counted twice, whatever is lost when the
\* session breaks and whenever the gateway is started again, as long as what XTP
\* says of an order comes in order; and XTP's identifier is the order's.
THEOREM XTPDealsCounted ==
  ASSUME ~OutOfOrder, ExchIdIsOrderId PROVE MCSpec => []XTPDealCountedOnce
<1>1. MCInit => XTPInv
  BY XTPInit DEF MCInit
<1>2. XTPInv /\ [MCNext]_mcVars => XTPInv'
  <2>1. UNCHANGED xtpVars => UNCHANGED XTP!vars
    BY DEF xtpVars, XTP!vars, XTP!gwVars, XTP!exchVars, XTP!bounds
  <2>2. XTPInv /\ (XTP!Next \/ UNCHANGED XTP!vars) => XTPInv'
    BY XTPStep
  <2> QED BY <2>1, <2>2 DEF MCNext, mcVars
<1>3. XTPInv => XTPDealCountedOnce
  BY XTPCounts
<1> QED BY <1>1, <1>2, <1>3, PTL DEF MCSpec
=============================================================================
