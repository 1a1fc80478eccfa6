--------------------------- MODULE TDGatewayProofs ---------------------------
(***************************************************************************)
(* Proofs about TDGateway, for every set of orders, sides and sizes, every *)
(* length of the queue of the WS thread and every number of crashes.       *)
(*                                                                         *)
(* A return passes through many hands: merged into the order manager, held *)
(* by a thread, sent, queued as a sync task, queued for the DB thread and  *)
(* stored.  The invariant follows it: whoever holds a copy of an order     *)
(* holds one of an order the trade server sent, with its terms (IsCopy),   *)
(* and from the moment it is queued the trade server has been told as much *)
(* (IsTold).  The second invariant says where an order ends: whatever      *)
(* claims that it is closed, a report on its way included, is right or was *)
(* misled (Ended).  The third says what all of them have in common while   *)
(* the gateway has not crashed: what is held of an order is what was sent  *)
(* of it or is about to be (JoinOf), and some copy on its way to the       *)
(* database is just what the trade server has (SomeAgrees).                *)
(* The last holds over crashes too: of any two copies of an order one      *)
(* follows from the other, and what a thread holds is above all of them    *)
(* (Chained, HeldOnTop), so whatever is sent or stored next moves forward. *)
(***************************************************************************)
EXTENDS TDGateway, OrderGroupProofs

\* A copy of an order: sizes with the sign of the side, no more dealt than
\* asked for.
WellDealt(o) ==
  /\ o \in Order
  /\ o.dealSize = Signed(o.side, o.dealSize) /\ Abs(o.dealSize) <= o.orderSize

\* s is what the trade server knows of each order.
IsCopy(s, o) ==
  /\ WellDealt(o)
  /\ Known(s[o.orderId])
  /\ o.side = s[o.orderId].side /\ o.orderSize = s[o.orderId].orderSize

\* ... and the trade server knows all that the copy says.
IsTold(s, o) ==
  /\ IsCopy(s, o)
  /\ Abs(o.dealSize) <= Abs(s[o.orderId].dealSize)
  /\ closed(o) => closed(s[o.orderId])

\* What the exchange reports: accumulated sizes, no more than asked for.
IsReturn(s, r) ==
  /\ r \in Report /\ r.orderId \in OrderId
  /\ r.dealSize \in Nat /\ r.lastDealSize = 0
  /\ Known(s[r.orderId]) /\ r.dealSize <= s[r.orderId].orderSize

SrvOK ==
  /\ srv \in [OrderId -> Order \cup {NoOrder}]
  /\ \A id \in OrderId : Known(srv[id]) => WellDealt(srv[id]) /\ srv[id].orderId = id

ExchStatus == {"absent", "live", "filled", "canceled", "expired", "rejected"}
HttpStatus == {"none", "request", "accepted", "refused", "broken", "lost", "done"}
ExchOK ==
  /\ exch \in [OrderId -> [status : ExchStatus, dealt : Nat]]
  /\ http \in [OrderId -> HttpStatus]
  /\ \A id \in OrderId :
       IF Known(srv[id])
       THEN /\ exch[id].dealt <= srv[id].orderSize
            /\ exch[id].status = "live" => exch[id].dealt < srv[id].orderSize
       ELSE exch[id] = [status |-> "absent", dealt |-> 0] /\ http[id] = "none"

ThreadOK ==
  /\ thread \in [Thread -> [pc : {"idle", "send", "cache"}, ret : Order \cup {NoOrder}]]
  /\ \A t \in Thread : /\ thread[t].pc = "send" => IsCopy(srv, thread[t].ret)
                       /\ thread[t].pc = "cache" => IsTold(srv, thread[t].ret)

GroupOK ==
  /\ GoodGroup(ordMgr)
  /\ \A id \in OpenIds(ordMgr) : IsCopy(srv, ordMgr.open[id])
  /\ \A i \in DOMAIN ordMgr.recent : IsCopy(srv, ordMgr.recent[i])

ReportsOK ==
  /\ wsQueue \in Seq(Report) /\ \A i \in 1..Len(wsQueue) : IsReturn(srv, wsQueue[i])
  /\ syncReq \subseteq {id \in OrderId : Known(srv[id])}

AllTold(s, q) == q \in Seq(Order) /\ \A i \in 1..Len(q) : IsTold(s, q[i])
TasksOK == AllTold(srv, syncTasks)
DbQueueOK == AllTold(srv, dbQueue)

DbOK ==
  /\ db \in [OrderId -> Order \cup {NoOrder}]
  /\ \A id \in OrderId : Known(db[id]) => IsTold(srv, db[id]) /\ db[id].orderId = id

IInv ==
  /\ SrvOK /\ ExchOK /\ ThreadOK /\ GroupOK /\ ReportsOK
  /\ TasksOK /\ DbQueueOK /\ DbOK

-----------------------------------------------------------------------------
\* An order that is known is no missing one.
LEMMA OrderIsKnown == \A o \in Order : Known(o) /\ o.orderId \in OrderId /\ o.orderId # Unset
BY OrderIdAssumption DEF Known, NoOrder, Order, Unset

LEMMA WellDealtIsSound == \A o : WellDealt(o) => o \in Order /\ Sound(o)
BY DEF WellDealt, Sound

\* What the trade server knows of the orders only grows.
Grows(s, t) ==
  \A id \in OrderId : Known(s[id]) =>
    /\ Known(t[id]) /\ t[id].side = s[id].side /\ t[id].orderSize = s[id].orderSize
    /\ Abs(s[id].dealSize) <= Abs(t[id].dealSize)
    /\ closed(s[id]) => closed(t[id])
    /\ s[id].dealSize \in Int /\ t[id].dealSize \in Int

LEMMA GrowsKeeps ==
  ASSUME NEW s, NEW t, Grows(s, t), NEW o
  PROVE  /\ IsCopy(s, o) => IsCopy(t, o)
         /\ IsTold(s, o) => IsTold(t, o)
         /\ IsReturn(s, o) => IsReturn(t, o)
<1>1. IsCopy(s, o) => IsCopy(t, o)
  BY DEF Grows, IsCopy, WellDealt, Order
<1>2. ASSUME IsTold(s, o) PROVE IsTold(t, o)
  <2>1. /\ IsCopy(s, o) /\ o.orderId \in OrderId /\ o.dealSize \in Int
        /\ Known(s[o.orderId])
    BY <1>2 DEF IsTold, IsCopy, WellDealt, Order
  <2>2. Abs(o.dealSize) <= Abs(t[o.orderId].dealSize)
    <3>1. /\ Abs(o.dealSize) <= Abs(s[o.orderId].dealSize)
          /\ Abs(s[o.orderId].dealSize) <= Abs(t[o.orderId].dealSize)
          /\ s[o.orderId].dealSize \in Int /\ t[o.orderId].dealSize \in Int
      BY <1>2, <2>1 DEF IsTold, Grows
    <3> QED BY <2>1, <3>1 DEF Abs
  <2> QED BY <1>1, <1>2, <2>1, <2>2 DEF IsTold, Grows
<1>3. IsReturn(s, o) => IsReturn(t, o)
  BY DEF Grows, IsReturn
<1> QED BY <1>1, <1>2, <1>3

\* What is left alone stays right while the trade server learns more.
LEMMA Frame ==
  ASSUME IInv, Grows(srv, srv')
  PROVE  /\ thread' = thread => ThreadOK'
         /\ ordMgr' = ordMgr => GroupOK'
         /\ wsQueue' = wsQueue /\ syncReq' = syncReq => ReportsOK'
         /\ syncTasks' = syncTasks => TasksOK'
         /\ dbQueue' = dbQueue => DbQueueOK'
         /\ db' = db => DbOK'
<1>1. thread' = thread => ThreadOK'
  BY GrowsKeeps DEF IInv, ThreadOK
<1>2. ordMgr' = ordMgr => GroupOK'
  BY GrowsKeeps DEF IInv, GroupOK
<1>3. wsQueue' = wsQueue /\ syncReq' = syncReq => ReportsOK'
  BY GrowsKeeps DEF IInv, ReportsOK, Grows
<1>4. syncTasks' = syncTasks => TasksOK'
  BY GrowsKeeps DEF IInv, TasksOK, AllTold
<1>5. dbQueue' = dbQueue => DbQueueOK'
  BY GrowsKeeps DEF IInv, DbQueueOK, AllTold
<1>6. db' = db => DbOK'
  BY GrowsKeeps DEF IInv, DbOK
<1> QED BY <1>1, <1>2, <1>3, <1>4, <1>5, <1>6

LEMMA SameGrows == IInv /\ srv' = srv => Grows(srv, srv')
<1> SUFFICES ASSUME IInv, srv' = srv, NEW id \in OrderId, Known(srv[id])
             PROVE  srv[id].dealSize \in Int /\ Abs(srv[id].dealSize) <= Abs(srv[id].dealSize)
  BY DEF Grows
<1>1. srv[id].dealSize \in Int
  BY DEF IInv, SrvOK, WellDealt, Order
<1> QED BY <1>1 DEF Abs

-----------------------------------------------------------------------------
\* The trade server makes of a return what merging a gateway's report makes.
LEMMA ReceiveGood ==
  ASSUME NEW c, NEW ret, WellDealt(c), WellDealt(ret), c.orderId = ret.orderId,
         c.side = ret.side, c.orderSize = ret.orderSize
  PROVE  LET r == Receive(c, ret) IN
         /\ WellDealt(r) /\ r.orderId = c.orderId
         /\ r.side = c.side /\ r.orderSize = c.orderSize
         /\ Abs(r.dealSize) >= Abs(c.dealSize) /\ Abs(r.dealSize) >= Abs(ret.dealSize)
         /\ closed(r) <=> closed(c) \/ closed(ret)
<1> DEFINE new == ReportOf(ret)
           d == IF DealSizeIsValid(c, new) THEN new.dealSize ELSE c.dealSize
           s == IF StatusAdvances(c, new) THEN new.orderStatus ELSE c.orderStatus
           r == Receive(c, ret)
<1>1. /\ c \in Order /\ ret \in Order
      /\ c.orderSize \in Nat \ {0} /\ c.dealSize \in Int /\ ret.dealSize \in Int
      /\ c.orderStatus \in OrderStatus /\ ret.orderStatus \in OrderStatus
      /\ c.side \in {"Bid", "Ask"}
  BY SizeAssumption DEF WellDealt, Order
<1>2. /\ new.dealSize = ret.dealSize /\ new.orderStatus = ret.orderStatus
      /\ new.avgPriced = (ret.dealSize # 0)
      /\ new.exchOrderId = ret.exchOrderId /\ new.feeCurrency = ret.feeCurrency
      /\ new.statusCode = ret.statusCode
  BY DEF ReportOf
<1>3. c.orderStatus \in Int /\ ret.orderStatus \in Int
  BY <1>1 DEF OrderStatus, Created, ConfirmedInLocal, Pending, ConfirmedByExch,
     PartialFilled, Filled, Canceled, PartialFilledCanceled, Failed
<1> HIDE DEF new
<1>4. /\ d \in Int /\ d = Signed(c.side, d) /\ Abs(d) <= c.orderSize
      /\ Abs(d) >= Abs(c.dealSize) /\ Abs(d) >= Abs(ret.dealSize)
  <2>1. /\ c.dealSize = Signed(c.side, c.dealSize) /\ Abs(c.dealSize) <= c.orderSize
        /\ ret.dealSize = Signed(c.side, ret.dealSize) /\ Abs(ret.dealSize) <= c.orderSize
    BY DEF WellDealt
  <2>2. CASE DealSizeIsValid(c, new)
    BY <1>1, <1>2, <2>1, <2>2 DEF DealSizeIsValid, Abs
  <2>3. CASE ~DealSizeIsValid(c, new)
    <3>1. d = c.dealSize
      BY <2>3
    <3>2. ~(Abs(ret.dealSize) > Abs(c.dealSize))
      <4> SUFFICES ASSUME Abs(ret.dealSize) > Abs(c.dealSize) PROVE FALSE
        OBVIOUS
      <4>1. ret.dealSize # 0
        BY <1>1 DEF Abs
      <4> QED BY <1>2, <2>1, <2>3, <4>1 DEF DealSizeIsValid
    <3> QED BY <1>1, <2>1, <3>1, <3>2 DEF Abs
  <2> QED BY <2>2, <2>3
<1>5. s \in OrderStatus
  BY <1>1, <1>2
<1>6. s >= Filled <=> c.orderStatus >= Filled \/ ret.orderStatus >= Filled
  BY <1>2, <1>3 DEF StatusAdvances, closed, Filled
<1>7. /\ r \in Order
      /\ r.orderId = c.orderId /\ r.side = c.side /\ r.orderSize = c.orderSize
      /\ r.dealSize = d /\ r.orderStatus = s
  <2>1. r = updateByOrderInfoFromTDGW(c, new)
    BY DEF Receive, new
  <2> HIDE DEF r
  <2> QED BY <1>1, <1>2, <1>4, <1>5, <2>1
          DEF updateByOrderInfoFromTDGW, WithStaticFields, SetOnce, Order
<1> HIDE DEF d, s, r
<1>8. WellDealt(r)
  BY <1>4, <1>7 DEF WellDealt
<1>9. closed(r) <=> closed(c) \/ closed(ret)
  BY <1>6, <1>7 DEF closed
<1> QED BY <1>4, <1>7, <1>8, <1>9 DEF r

\* A new order, in whatever status it is announced.
LEMMA NewOrderGood ==
  ASSUME NEW id \in OrderId, NEW side \in Side, NEW size \in Size
  PROVE  LET n == NewOrder(id, side, size) IN
         /\ WellDealt(n) /\ n.orderId = id /\ n.side = side /\ n.orderSize = size
         /\ n.dealSize = 0 /\ n.orderStatus = Created
<1> DEFINE n == NewOrder(id, side, size)
<1>0. 0 \in Int /\ Unset \in ExchOrderId \cup {Unset} /\ side \in {"Bid", "Ask"}
  BY SideAssumption
<1>1. n \in Order /\ n.orderId = id /\ n.side = side /\ n.orderSize = size
      /\ n.dealSize = 0 /\ n.orderStatus = Created
  BY <1>0 DEF NewOrder, Order, OrderStatus
<1>2. size \in Nat
  BY SizeAssumption
<1> HIDE DEF n
<1>3. WellDealt(n)
  BY <1>1, <1>2 DEF WellDealt, Signed, Abs
<1> QED BY <1>1, <1>3 DEF n

LEMMA StatusGood ==
  ASSUME NEW n, WellDealt(n), NEW st \in OrderStatus
  PROVE  LET o == [n EXCEPT !.orderStatus = st] IN
         /\ WellDealt(o) /\ o.orderId = n.orderId /\ o.side = n.side
         /\ o.orderSize = n.orderSize /\ o.dealSize = n.dealSize /\ o.orderStatus = st
<1> DEFINE o == [n EXCEPT !.orderStatus = st]
<1>1. o \in Order /\ o.orderId = n.orderId /\ o.side = n.side
      /\ o.orderSize = n.orderSize /\ o.dealSize = n.dealSize /\ o.orderStatus = st
  BY DEF WellDealt, Order
<1> HIDE DEF o
<1>2. WellDealt(o)
  BY <1>1 DEF WellDealt
<1> QED BY <1>1, <1>2 DEF o

LEMMA FailedGood ==
  ASSUME NEW n, WellDealt(n)
  PROVE  LET o == [n EXCEPT !.orderStatus = Failed, !.statusCode = 1] IN
         /\ WellDealt(o) /\ o.orderId = n.orderId /\ o.side = n.side
         /\ o.orderSize = n.orderSize /\ o.dealSize = n.dealSize /\ o.orderStatus = Failed
<1> DEFINE o == [n EXCEPT !.orderStatus = Failed, !.statusCode = 1]
<1>1. o \in Order /\ o.orderId = n.orderId /\ o.side = n.side
      /\ o.orderSize = n.orderSize /\ o.dealSize = n.dealSize /\ o.orderStatus = Failed
  BY DEF WellDealt, Order, OrderStatus
<1> HIDE DEF o
<1>2. WellDealt(o)
  BY <1>1 DEF WellDealt
<1> QED BY <1>1, <1>2 DEF o

\* What a return of the exchange makes of a copy of its order.
LEMMA MergeCopy ==
  ASSUME NEW s, NEW o, NEW new, IsCopy(s, o), IsReturn(s, new), o.orderId = new.orderId
  PROVE  LET p == updateByOrderInfoFromExch(o, new) IN
         /\ IsCopy(s, p) /\ p \in Order /\ Sound(p) /\ p.orderId = o.orderId
         /\ closed(p) <=> closed(o) \/ new.orderStatus >= Filled
<1> DEFINE d == DealSizeFromExch(o, new)
           st == StatusFromExch(o, new)
           p == updateByOrderInfoFromExch(o, new)
<1>1. /\ o \in Order /\ new \in Report
      /\ o.orderSize \in Nat \ {0} /\ o.dealSize \in Int /\ new.dealSize \in Nat
      /\ o.orderStatus \in OrderStatus /\ new.orderStatus \in OrderStatus
      /\ o.side \in {"Bid", "Ask"} /\ new.dealSize <= o.orderSize
  BY SizeAssumption DEF IsCopy, IsReturn, WellDealt, Order, Report
<1>2. ~IsRtnTrade(new)
  BY DEF IsReturn, IsRtnTrade
<1>3. /\ d = IF DealSizeIsValid(o, new) THEN Signed(o.side, new.dealSize) ELSE o.dealSize
      /\ st = IF StatusAdvances(o, new) THEN new.orderStatus ELSE o.orderStatus
  BY <1>2 DEF DealSizeFromExch, StatusFromExch
<1>4. o.orderStatus \in Int /\ new.orderStatus \in Int
  BY <1>1 DEF OrderStatus, Created, ConfirmedInLocal, Pending, ConfirmedByExch,
     PartialFilled, Filled, Canceled, PartialFilledCanceled, Failed
<1>5. d \in Int /\ d = Signed(o.side, d) /\ Abs(d) <= o.orderSize
  BY <1>1, <1>3 DEF IsCopy, WellDealt, Signed, Abs
<1>6. st \in OrderStatus
  BY <1>1, <1>3
<1>7. st >= Filled <=> o.orderStatus >= Filled \/ new.orderStatus >= Filled
  BY <1>3, <1>4 DEF StatusAdvances, closed, Filled
<1> HIDE DEF d, st
<1>8. /\ p \in Order
      /\ p.orderId = o.orderId /\ p.side = o.side /\ p.orderSize = o.orderSize
      /\ p.dealSize = d /\ p.orderStatus = st
  BY <1>1, <1>5, <1>6
     DEF updateByOrderInfoFromExch, WithStaticFields, SetOnce, Order, Report, d, st
<1> HIDE DEF p
<1>9. WellDealt(p)
  BY <1>5, <1>8 DEF WellDealt
<1>10. IsCopy(s, p)
  BY <1>8, <1>9 DEF IsCopy
<1>11. closed(p) <=> closed(o) \/ new.orderStatus >= Filled
  BY <1>7, <1>8 DEF closed
<1> QED BY <1>8, <1>9, <1>10, <1>11, WellDealtIsSound DEF p

\* The report of an order of no terms, which the exchange's are made from.
LEMMA BlankReport ==
  ASSUME NEW id \in OrderId
  PROVE  LET b == ReportOf(NewOrder(id, "Bid", 1)) IN
         b \in Report /\ b.orderId = id /\ b.dealSize = 0 /\ b.lastDealSize = 0
<1> DEFINE o == NewOrder(id, "Bid", 1)
<1>1. /\ o.orderId = id /\ o.exchOrderId = Unset /\ o.orderStatus = Created
      /\ o.dealSize = 0 /\ o.feeCurrency = Unset /\ o.statusCode = Unset
  BY DEF NewOrder
<1> HIDE DEF o
<1>2. Created \in OrderStatus
  BY DEF OrderStatus
<1> QED BY <1>1, <1>2, ReportGood DEF o

\* What the exchange and a query that failed say of an order it was sent.
LEMMA FailureIsReturn ==
  ASSUME IInv, NEW id \in OrderId, Known(srv[id])
  PROVE  IsReturn(srv, Failure(id)) /\ Failure(id).orderId = id
<1> DEFINE b == ReportOf(NewOrder(id, "Bid", 1))
           r == [b EXCEPT !.orderStatus = Failed, !.statusCode = 1]
<1>1. b \in Report /\ b.orderId = id /\ b.dealSize = 0 /\ b.lastDealSize = 0
  BY BlankReport
<1>2. Failure(id) = r
  BY DEF Failure
<1> HIDE DEF b
<1>3. r \in Report /\ r.orderId = id /\ r.dealSize = 0 /\ r.lastDealSize = 0
  BY <1>1 DEF Report, OrderStatus
<1>4. srv[id].orderSize \in Nat
  BY SizeAssumption DEF IInv, SrvOK, WellDealt, Order
<1> HIDE DEF r
<1> QED BY <1>2, <1>3, <1>4 DEF IsReturn

LEMMA ReturnIsReturn ==
  ASSUME IInv, NEW id \in OrderId, Known(srv[id]),
         NEW e \in [status : ExchStatus, dealt : Nat], e.dealt <= srv[id].orderSize
  PROVE  /\ IsReturn(srv, ReturnOf(id, e)) /\ ReturnOf(id, e).orderId = id
         /\ ReturnOf(id, e).orderStatus = StatusAtExch(e)
<1> DEFINE priced == e.dealt # 0
           st == StatusAtExch(e)
           r == ReturnOf(id, e)
<1>1. priced \in BOOLEAN
  OBVIOUS
<1>2. st \in OrderStatus /\ e.dealt \in Nat /\ id \in ExchOrderId
  BY ExchIdAssumption DEF StatusAtExch, ExchStatus, OrderStatus
<1>3. r = [orderId |-> id, exchOrderId |-> id, orderStatus |-> st,
           dealSize |-> e.dealt, avgPriced |-> priced, lastDealSize |-> 0,
           lastPriced |-> FALSE, feeCurrency |-> Unset, statusCode |-> Unset]
  BY Zenon DEF ReturnOf
<1> HIDE DEF priced, st, r
<1>4. r \in Report /\ r.orderId = id /\ r.orderStatus = st /\ r.dealSize = e.dealt
      /\ r.lastDealSize = 0
  BY <1>1, <1>2, <1>3 DEF Report
<1> QED BY <1>2, <1>4 DEF IsReturn, st, r

\* Thread t has nothing to send or goes on with a copy of the order of a return,
\* which is closed if the return says so or if the order was closed before.
GoesOn(t, new) ==
  \/ thread' = [thread EXCEPT ![t] = Idle]
  \/ \E p \in Order :
       /\ thread' = [thread EXCEPT ![t] = [pc |-> "send", ret |-> p]]
       /\ IsCopy(srv, p) /\ p.orderId = new.orderId
       /\ closed(p) => new.orderStatus >= Filled \/ p.orderId \in RecentIds(ordMgr)

\* What merging a return does: the order it is about is put back as a copy,
\* and the thread goes on with that copy or is idle.  What is closed by it
\* was closed before or is said to be closed by the return.
LEMMA MergeEffect ==
  ASSUME IInv, NEW t \in Thread, NEW new, IsReturn(srv, new), Merge(t, new)
  PROVE  /\ GoodGroup(ordMgr')
         /\ \A id \in OpenIds(ordMgr') : IsCopy(srv, ordMgr'.open[id])
         /\ \A i \in DOMAIN ordMgr'.recent : IsCopy(srv, ordMgr'.recent[i])
         /\ \A id \in RecentIds(ordMgr') :
              id \in RecentIds(ordMgr) \/ (id = new.orderId /\ new.orderStatus >= Filled)
         /\ GoesOn(t, new)
<1> DEFINE o == Lookup(ordMgr, new)
           p == updateByOrderInfoFromExch(o, new)
<1>0. GoodGroup(ordMgr) /\ GroupOK
  BY DEF IInv, GroupOK
<1>1. CASE ~Found(ordMgr, new)
  <2>1. ordMgr' = ordMgr /\ thread' = [thread EXCEPT ![t] = Idle]
    BY <1>1 DEF Merge, UpdateFromExch
  <2> QED BY <1>0, <2>1 DEF GroupOK, GoesOn
<1>2. CASE Found(ordMgr, new)
  <2>1. new.orderId # Unset /\ new.orderId \in OrderId
    BY OrderIdAssumption DEF IsReturn, Unset
  <2>2. o.orderId = new.orderId
    BY <1>0, <1>2, <2>1, LookupIsNamed
  <2>3. /\ o \in Order /\ Sound(o)
        /\ \/ o.orderId \in OpenIds(ordMgr) /\ o = ordMgr.open[o.orderId]
           \/ \E i \in DOMAIN ordMgr.recent : o = ordMgr.recent[i]
    BY <1>0, <1>2, LookupHeld
  <2>4. IsCopy(srv, o) /\ o.orderId \in OpenIds(ordMgr) \cup RecentIds(ordMgr)
    BY <1>0, <2>3 DEF GroupOK, RecentIds
  <2>5. closed(o) => o.orderId \in RecentIds(ordMgr)
    BY <1>0, <2>3 DEF GoodGroup, RecentIds
  <2> HIDE DEF o
  <2>6. /\ IsCopy(srv, p) /\ p \in Order /\ Sound(p) /\ p.orderId = o.orderId
        /\ closed(p) <=> closed(o) \/ new.orderStatus >= Filled
    BY <2>2, <2>4, MergeCopy
  <2>7. ordMgr' = Store(ordMgr, p)
    BY <1>2 DEF Merge, UpdateFromExch, o
  <2>8. thread' = [thread EXCEPT ![t] = Idle]
        \/ thread' = [thread EXCEPT ![t] = [pc |-> "send", ret |-> p]]
    BY DEF Merge, o
  <2> HIDE DEF p
  <2>9. GoodGroup(ordMgr')
    BY <1>0, <2>4, <2>6, <2>7, StoreGood
  <2>10. \A id \in OpenIds(ordMgr') : IsCopy(srv, ordMgr'.open[id])
    BY <1>0, <2>6, <2>7, StoreKeepsOpen DEF GroupOK
  <2>11. \A i \in DOMAIN ordMgr'.recent : IsCopy(srv, ordMgr'.recent[i])
    BY <1>0, <2>6, <2>7, StoreKeepsOthers DEF GroupOK
  <2>12. \A id \in RecentIds(ordMgr') :
          id \in RecentIds(ordMgr) \/ (id = new.orderId /\ new.orderStatus >= Filled)
    BY <1>0, <2>2, <2>4, <2>5, <2>6, <2>7, StoreFate
  <2>13. closed(p) => new.orderStatus >= Filled \/ p.orderId \in RecentIds(ordMgr)
    BY <2>5, <2>6
  <2>14. GoesOn(t, new)
    BY <2>2, <2>6, <2>8, <2>13 DEF GoesOn
  <2> QED BY <2>9, <2>10, <2>11, <2>12, <2>14
<1> QED BY <1>1, <1>2

LEMMA MergeKeeps ==
  ASSUME IInv, NEW t \in Thread, NEW new, IsReturn(srv, new), Merge(t, new), srv' = srv
  PROVE  ThreadOK' /\ GroupOK'
<1>1. GroupOK'
  BY MergeEffect DEF GroupOK
<1>2. ThreadOK
  BY DEF IInv
<1>3. CASE thread' = [thread EXCEPT ![t] = Idle]
  <2>1. /\ Idle \in [pc : {"idle", "send", "cache"}, ret : Order \cup {NoOrder}]
        /\ Idle.pc = "idle"
    BY DEF Idle
  <2> QED BY <1>1, <1>2, <1>3, <2>1 DEF ThreadOK
<1>4. ASSUME NEW p, IsCopy(srv, p),
             thread' = [thread EXCEPT ![t] = [pc |-> "send", ret |-> p]]
      PROVE  ThreadOK'
  <2> DEFINE x == [pc |-> "send", ret |-> p]
  <2>1. /\ x \in [pc : {"idle", "send", "cache"}, ret : Order \cup {NoOrder}]
        /\ x.pc = "send" /\ x.ret = p
    BY <1>4 DEF IsCopy, WellDealt
  <2>2. thread' = [thread EXCEPT ![t] = x]
    BY <1>4
  <2> HIDE DEF x
  <2> QED BY <1>1, <1>2, <1>4, <2>1, <2>2 DEF ThreadOK
<1>5. GoesOn(t, new)
  BY MergeEffect
<1> QED BY <1>1, <1>3, <1>4, <1>5 DEF GoesOn

-----------------------------------------------------------------------------
\* Queues of copies that were told.
LEMMA ToldAppend ==
  ASSUME NEW s, NEW q, AllTold(s, q), NEW o, IsTold(s, o)
  PROVE  AllTold(s, Append(q, o))
BY DEF AllTold, IsTold, IsCopy, WellDealt

LEMMA ToldConcat ==
  ASSUME NEW s, NEW q, NEW r, AllTold(s, q), AllTold(s, r)
  PROVE  AllTold(s, q \o r)
<1>1. q \o r \in Seq(Order) /\ Len(q \o r) = Len(q) + Len(r)
  BY DEF AllTold
<1>2. ASSUME NEW i \in 1..Len(q \o r) PROVE IsTold(s, (q \o r)[i])
  <2>1. CASE i <= Len(q)
    BY <1>1, <2>1 DEF AllTold
  <2>2. CASE i > Len(q)
    <3>1. i - Len(q) \in 1..Len(r) /\ (q \o r)[i] = r[i - Len(q)]
      BY <1>1, <2>2 DEF AllTold
    <3> QED BY <3>1 DEF AllTold
  <2> QED BY <1>1, <2>1, <2>2 DEF AllTold
<1> QED BY <1>1, <1>2 DEF AllTold

LEMMA ToldTail ==
  ASSUME NEW s, NEW q, AllTold(s, q), q # << >>
  PROVE  AllTold(s, Tail(q)) /\ IsTold(s, Head(q))
<1>1. q \in Seq(Order) /\ 1 \in 1..Len(q) /\ Head(q) = q[1]
  BY DEF AllTold
<1>2. /\ Tail(q) \in Seq(Order) /\ Len(Tail(q)) = Len(q) - 1
      /\ \A i \in 1..Len(Tail(q)) : Tail(q)[i] = q[i + 1] /\ i + 1 \in 1..Len(q)
  BY <1>1
<1> QED BY <1>1, <1>2 DEF AllTold

-----------------------------------------------------------------------------
\* The trade server hears of an order for the first time.
LEMMA FirstTold ==
  ASSUME IInv, NEW id \in OrderId, ~Known(srv[id]), NEW r, WellDealt(r), r.orderId = id,
         srv' = [srv EXCEPT ![id] = r], exch' = exch,
         NEW h \in HttpStatus, http' = [http EXCEPT ![id] = h] \/ http' = http
  PROVE  SrvOK' /\ ExchOK' /\ Grows(srv, srv')
<1>1. r \in Order /\ Known(r)
  BY OrderIsKnown DEF WellDealt
<1>2. srv'[id] = r /\ \A x \in OrderId \ {id} : srv'[x] = srv[x]
  BY DEF IInv, SrvOK
<1>3. SrvOK'
  BY <1>1, <1>2 DEF IInv, SrvOK
<1>4. ExchOK'
  <2>1. r.orderSize \in Nat
    BY <1>1, SizeAssumption DEF Order
  <2>2. exch[id].dealt = 0
    BY DEF IInv, ExchOK
  <2> QED BY <1>1, <1>2, <2>1, <2>2 DEF IInv, ExchOK
<1>5. Grows(srv, srv')
  <2> SUFFICES ASSUME NEW x \in OrderId, Known(srv[x])
               PROVE  /\ Known(srv'[x]) /\ srv'[x].side = srv[x].side
                      /\ srv'[x].orderSize = srv[x].orderSize
                      /\ Abs(srv[x].dealSize) <= Abs(srv'[x].dealSize)
                      /\ closed(srv[x]) => closed(srv'[x])
                      /\ srv[x].dealSize \in Int /\ srv'[x].dealSize \in Int
    BY DEF Grows
  <2>1. srv'[x] = srv[x] /\ srv[x].dealSize \in Int
    BY <1>2 DEF IInv, SrvOK, WellDealt, Order
  <2> QED BY <2>1 DEF Abs
<1> QED BY <1>3, <1>4, <1>5

\* The trade server is sent a copy of an order it knows.
LEMMA ToldMore ==
  ASSUME IInv, NEW o, IsCopy(srv, o),
         srv' = [srv EXCEPT ![o.orderId] = Receive(@, o)], exch' = exch, http' = http
  PROVE  /\ SrvOK' /\ ExchOK' /\ Grows(srv, srv') /\ IsTold(srv', o)
         /\ \A x \in OrderId : closed(srv'[x]) =>
              closed(srv[x]) \/ (x = o.orderId /\ closed(o))
<1> DEFINE id == o.orderId
           c == srv[id]
           r == Receive(c, o)
<1>1. id \in OrderId /\ Known(c) /\ WellDealt(o) /\ o \in Order
  BY DEF IsCopy, WellDealt, Order
<1>2. WellDealt(c) /\ c.orderId = id /\ c \in Order
  BY <1>1 DEF IInv, SrvOK, WellDealt
<1>3. o.side = c.side /\ o.orderSize = c.orderSize
  BY DEF IsCopy
<1>4. /\ WellDealt(r) /\ r.orderId = id /\ r.side = c.side /\ r.orderSize = c.orderSize
      /\ Abs(r.dealSize) >= Abs(c.dealSize) /\ Abs(r.dealSize) >= Abs(o.dealSize)
      /\ closed(r) <=> closed(c) \/ closed(o)
  BY <1>1, <1>2, <1>3, ReceiveGood
<1>5. srv'[id] = r /\ \A x \in OrderId \ {id} : srv'[x] = srv[x]
  BY <1>1 DEF IInv, SrvOK
<1>6. r \in Order /\ Known(r)
  BY <1>4, OrderIsKnown DEF WellDealt
<1>7. srv' = [srv EXCEPT ![id] = r]
  OBVIOUS
<1>8. c.dealSize \in Int /\ r.dealSize \in Int /\ o.dealSize \in Int
  BY <1>1, <1>2, <1>6 DEF Order
<1> HIDE DEF r
<1>9. SrvOK'
  BY <1>1, <1>4, <1>5, <1>6, <1>7 DEF IInv, SrvOK
<1>10. ExchOK'
  BY <1>1, <1>4, <1>5, <1>6 DEF IInv, ExchOK
<1>11. Grows(srv, srv')
  <2> SUFFICES ASSUME NEW x \in OrderId, Known(srv[x])
               PROVE  /\ Known(srv'[x]) /\ srv'[x].side = srv[x].side
                      /\ srv'[x].orderSize = srv[x].orderSize
                      /\ Abs(srv[x].dealSize) <= Abs(srv'[x].dealSize)
                      /\ closed(srv[x]) => closed(srv'[x])
                      /\ srv[x].dealSize \in Int /\ srv'[x].dealSize \in Int
    BY DEF Grows
  <2>1. CASE x = id
    BY <1>4, <1>5, <1>6, <1>8, <2>1 DEF Abs
  <2>2. CASE x # id
    <3>1. srv'[x] = srv[x] /\ srv[x].dealSize \in Int
      BY <1>5, <2>2 DEF IInv, SrvOK, WellDealt, Order
    <3> QED BY <3>1 DEF Abs
  <2> QED BY <2>1, <2>2
<1>12. IsTold(srv', o)
  BY <1>1, <1>3, <1>4, <1>5, <1>6, <1>8 DEF IsTold, IsCopy, Abs
<1>13. \A x \in OrderId : closed(srv'[x]) => closed(srv[x]) \/ (x = id /\ closed(o))
  BY <1>4, <1>5
<1> QED BY <1>9, <1>10, <1>11, <1>12, <1>13

-----------------------------------------------------------------------------
\* The invariant holds at first.
LEMMA InvInit == Init => IInv
<1> SUFFICES ASSUME Init PROVE IInv
  OBVIOUS
<1> USE DEF Init
<1>0. NoOrder \in Order \cup {NoOrder} /\ ~Known(NoOrder)
  BY DEF Known
<1>1. SrvOK
  BY <1>0 DEF SrvOK
<1>2. ExchOK
  BY <1>0 DEF ExchOK, ExchStatus, HttpStatus
<1>3. ThreadOK
  BY <1>0 DEF ThreadOK, Idle
<1>4. GroupOK
  <2>1. GoodGroup(ordMgr) /\ OpenIds(ordMgr) = {} /\ ordMgr.recent = << >>
    BY EmptyGood DEF EmptyGroup
  <2> QED BY <2>1 DEF GroupOK
<1>5. ReportsOK
  BY DEF ReportsOK
<1>6. TasksOK /\ DbQueueOK
  BY DEF TasksOK, DbQueueOK, AllTold
<1>7. DbOK
  BY <1>0 DEF DbOK
<1> QED BY <1>1, <1>2, <1>3, <1>4, <1>5, <1>6, <1>7 DEF IInv

\* The order thread: an order is refused, taken, or taken and given back.
\* What a first return makes of what the trade server has of its new order.
LEMMA FirstReturn ==
  ASSUME IInv, NEW n, NEW o, WellDealt(n), WellDealt(o),
         n.orderId = o.orderId, n.side = o.side, n.orderSize = o.orderSize,
         ~Known(srv[n.orderId]), srv' = [srv EXCEPT ![n.orderId] = Receive(n, o)],
         exch' = exch,
         NEW h \in HttpStatus, http' = [http EXCEPT ![n.orderId] = h] \/ http' = http
  PROVE  /\ SrvOK' /\ ExchOK' /\ Grows(srv, srv') /\ IsTold(srv', o)
         /\ \A x \in OrderId : closed(srv'[x]) =>
              IF x = n.orderId THEN closed(n) \/ closed(o) ELSE closed(srv[x])
<1> DEFINE id == n.orderId
           r == Receive(n, o)
<1>1. n \in Order /\ o \in Order /\ id \in OrderId
  BY DEF WellDealt, Order
<1>2. /\ WellDealt(r) /\ r.orderId = id /\ r.side = n.side /\ r.orderSize = n.orderSize
      /\ Abs(r.dealSize) >= Abs(o.dealSize)
      /\ closed(r) <=> closed(n) \/ closed(o)
  BY ReceiveGood
<1> HIDE DEF r
<1>3. srv' = [srv EXCEPT ![id] = r]
  BY DEF r
<1> HIDE DEF id
<1>4. SrvOK' /\ ExchOK' /\ Grows(srv, srv')
  BY <1>1, <1>2, <1>3, FirstTold DEF id
<1>5. IsTold(srv', o)
  <2>1. srv'[id] = r /\ Known(r) /\ r \in Order
    BY <1>1, <1>2, <1>3, OrderIsKnown DEF IInv, SrvOK, WellDealt
  <2>2. o.dealSize \in Int /\ r.dealSize \in Int
    BY <1>1, <2>1 DEF Order
  <2>3. Abs(o.dealSize) <= Abs(r.dealSize)
    BY <1>2, <2>2 DEF Abs
  <2> QED BY <1>2, <2>1, <2>3 DEF IsTold, IsCopy, id
<1>6. \A x \in OrderId : closed(srv'[x]) =>
        IF x = id THEN closed(n) \/ closed(o) ELSE closed(srv[x])
  <2>1. srv'[id] = r /\ \A x \in OrderId \ {id} : srv'[x] = srv[x]
    BY <1>1, <1>3 DEF IInv, SrvOK, id
  <2> QED BY <1>2, <2>1
<1> QED BY <1>4, <1>5, <1>6 DEF id

LEMMA RefuseOrderKeeps ==
  ASSUME IInv, NEW id \in OrderId, NEW side \in Side, NEW size \in Size,
         RefuseOrder(id, side, size)
  PROVE  IInv'
<1> DEFINE n == NewOrder(id, side, size)
           o == [n EXCEPT !.orderStatus = Failed, !.statusCode = 1]
<1>1. /\ WellDealt(n) /\ n.orderId = id /\ n.side = side /\ n.orderSize = size
      /\ n.dealSize = 0
  BY NewOrderGood
<1>2. /\ srv' = [srv EXCEPT ![id] = Receive(n, o)] /\ syncTasks' = Append(syncTasks, o)
      /\ ~Known(srv[id])
      /\ UNCHANGED <<exch, canceling, up, crashes, ordMgr, thread, http, wsQueue, syncReq,
                     dbQueue, db, misled>>
  BY DEF RefuseOrder
<1> HIDE DEF n
<1>3. /\ WellDealt(o) /\ o.orderId = id /\ o.side = side /\ o.orderSize = size
      /\ o.dealSize = 0
  BY <1>1, FailedGood
<1> HIDE DEF o
<1>4. SrvOK' /\ ExchOK' /\ Grows(srv, srv') /\ IsTold(srv', o)
  BY <1>1, <1>2, <1>3, FirstReturn DEF HttpStatus
<1>5. TasksOK'
  <2>1. AllTold(srv', syncTasks)
    BY <1>4, GrowsKeeps DEF IInv, TasksOK, AllTold
  <2> QED BY <1>2, <1>4, <2>1, ToldAppend DEF TasksOK
<1> QED BY <1>2, <1>4, <1>5, Frame DEF IInv

LEMMA OnOrderKeeps ==
  ASSUME IInv, NEW id \in OrderId, NEW side \in Side, NEW size \in Size,
         OnOrder(id, side, size)
  PROVE  IInv'
<1> DEFINE n == NewOrder(id, side, size)
           o == [n EXCEPT !.orderStatus = Pending]
<1>1. /\ WellDealt(n) /\ n.orderId = id /\ n.side = side /\ n.orderSize = size
      /\ n.dealSize = 0
  BY NewOrderGood
<1>2. /\ srv' = [srv EXCEPT ![id] = Receive(n, o)] /\ syncTasks' = Append(syncTasks, o)
      /\ ~Known(srv[id]) /\ ordMgr' = add(ordMgr, o) /\ http' = [http EXCEPT ![id] = "request"]
      /\ UNCHANGED <<exch, canceling, up, crashes, thread, wsQueue, syncReq, dbQueue, db,
                     misled>>
  BY DEF OnOrder
<1> HIDE DEF n
<1>3. /\ WellDealt(o) /\ o.orderId = id /\ o.side = side /\ o.orderSize = size
      /\ o.dealSize = 0 /\ o.orderStatus = Pending
  BY <1>1, StatusGood DEF OrderStatus
<1> HIDE DEF o
<1>4. SrvOK' /\ ExchOK' /\ Grows(srv, srv') /\ IsTold(srv', o)
  BY <1>1, <1>2, <1>3, FirstReturn DEF HttpStatus
<1>5. TasksOK'
  <2>1. AllTold(srv', syncTasks)
    BY <1>4, GrowsKeeps DEF IInv, TasksOK, AllTold
  <2> QED BY <1>2, <1>4, <2>1, ToldAppend DEF TasksOK
<1>6. GroupOK'
  <2>1. id \notin OpenIds(ordMgr) \cup RecentIds(ordMgr)
    BY <1>2 DEF IInv, GroupOK, GoodGroup, IsCopy, RecentIds
  <2>2. o \in Order /\ Sound(o) /\ ~closed(o)
    BY <1>3, WellDealtIsSound DEF closed, Pending, Filled
  <2>3. /\ GoodGroup(ordMgr') /\ ordMgr'.recent = ordMgr.recent
        /\ OpenIds(ordMgr') = OpenIds(ordMgr) \cup {id} /\ ordMgr'.open[id] = o
        /\ \A x \in OpenIds(ordMgr) : ordMgr'.open[x] = ordMgr.open[x]
    BY <1>2, <1>3, <2>1, <2>2, AddGood DEF IInv, GroupOK
  <2>4. ASSUME NEW x \in OpenIds(ordMgr') PROVE IsCopy(srv', ordMgr'.open[x])
    <3>1. CASE x = id
      BY <1>4, <2>3, <3>1 DEF IsTold
    <3>2. CASE x # id
      <4>1. x \in OpenIds(ordMgr) /\ ordMgr'.open[x] = ordMgr.open[x]
        BY <2>3, <2>4, <3>2
      <4>2. IsCopy(srv, ordMgr.open[x])
        BY <4>1 DEF IInv, GroupOK
      <4> QED BY <1>4, <4>1, <4>2, GrowsKeeps
    <3> QED BY <3>1, <3>2
  <2>5. ASSUME NEW i \in DOMAIN ordMgr'.recent PROVE IsCopy(srv', ordMgr'.recent[i])
    BY <1>4, <2>3, <2>5, GrowsKeeps DEF IInv, GroupOK
  <2> QED BY <2>3, <2>4, <2>5 DEF GroupOK
<1> QED BY <1>2, <1>4, <1>5, <1>6, Frame DEF IInv

LEMMA OnOrderNotSentKeeps ==
  ASSUME IInv, NEW id \in OrderId, NEW side \in Side, NEW size \in Size,
         OnOrderNotSent(id, side, size)
  PROVE  IInv'
<1> DEFINE n == NewOrder(id, side, size)
           o == [n EXCEPT !.orderStatus = Pending]
           failed == [o EXCEPT !.orderStatus = Failed, !.statusCode = 1]
           m == Receive(n, o)
<1>1. /\ WellDealt(n) /\ n.orderId = id /\ n.side = side /\ n.orderSize = size
      /\ n.dealSize = 0
  BY NewOrderGood
<1>2. /\ srv' = [srv EXCEPT ![id] = Receive(m, failed)]
      /\ syncTasks' = syncTasks \o <<o, failed>>
      /\ ~Known(srv[id]) /\ ordMgr' = remove(add(ordMgr, o), id)
      /\ UNCHANGED <<exch, canceling, up, crashes, thread, http, wsQueue, syncReq,
                     dbQueue, db, misled>>
  BY DEF OnOrderNotSent
<1> HIDE DEF n
<1>3. /\ WellDealt(o) /\ o.orderId = id /\ o.side = side /\ o.orderSize = size
      /\ o.dealSize = 0 /\ o.orderStatus = Pending
  BY <1>1, StatusGood DEF OrderStatus
<1> HIDE DEF o
<1>4. /\ WellDealt(failed) /\ failed.orderId = id /\ failed.side = side
      /\ failed.orderSize = size /\ failed.dealSize = 0
  BY <1>3, FailedGood
<1> HIDE DEF failed
<1>5. WellDealt(m) /\ m.orderId = id /\ m.side = side /\ m.orderSize = size
  BY <1>1, <1>3, ReceiveGood
<1> HIDE DEF m
<1>6. SrvOK' /\ ExchOK' /\ Grows(srv, srv') /\ IsTold(srv', failed)
  BY <1>2, <1>4, <1>5, FirstReturn DEF HttpStatus
<1>7. IsTold(srv', o)
  <2>1. ~closed(o)
    BY <1>3 DEF closed, Pending, Filled
  <2> QED BY <1>3, <1>4, <1>6, <2>1 DEF IsTold, IsCopy
<1>8. TasksOK'
  <2>1. AllTold(srv', syncTasks)
    BY <1>6, GrowsKeeps DEF IInv, TasksOK, AllTold
  <2>2. AllTold(srv', <<o, failed>>)
    BY <1>6, <1>7 DEF AllTold, IsTold, IsCopy, WellDealt
  <2> QED BY <1>2, <2>1, <2>2, ToldConcat DEF TasksOK
<1>9. GroupOK'
  <2> DEFINE am == add(ordMgr, o)
  <2>1. id \notin OpenIds(ordMgr) \cup RecentIds(ordMgr)
    BY <1>2 DEF IInv, GroupOK, GoodGroup, IsCopy, RecentIds
  <2>2. o \in Order /\ Sound(o) /\ ~closed(o)
    BY <1>3, WellDealtIsSound DEF closed, Pending, Filled
  <2>3. /\ GoodGroup(am) /\ am.recent = ordMgr.recent
        /\ OpenIds(am) = OpenIds(ordMgr) \cup {id}
        /\ \A x \in OpenIds(ordMgr) : am.open[x] = ordMgr.open[x]
    BY <1>3, <2>1, <2>2, AddGood DEF IInv, GroupOK
  <2>4. ordMgr' = remove(am, id)
    BY <1>2
  <2> HIDE DEF am
  <2>5. /\ GoodGroup(ordMgr') /\ ordMgr'.recent = ordMgr.recent
        /\ OpenIds(ordMgr') = OpenIds(ordMgr)
        /\ \A x \in OpenIds(ordMgr) : ordMgr'.open[x] = ordMgr.open[x]
    <3> DEFINE rm == remove(am, id)
    <3>1. /\ GoodGroup(rm) /\ rm.recent = am.recent /\ OpenIds(rm) = OpenIds(am) \ {id}
          /\ \A x \in OpenIds(rm) : rm.open[x] = am.open[x]
      BY <2>3, RemoveGood
    <3>2. ordMgr' = rm
      BY <2>4
    <3> HIDE DEF rm
    <3>3. OpenIds(rm) = OpenIds(ordMgr)
      BY <2>1, <2>3, <3>1
    <3> QED BY <2>3, <3>1, <3>2, <3>3
  <2>6. \A x \in OpenIds(ordMgr) : IsCopy(srv', ordMgr.open[x])
    BY <1>6, GrowsKeeps DEF IInv, GroupOK
  <2>7. \A i \in DOMAIN ordMgr.recent : IsCopy(srv', ordMgr.recent[i])
    BY <1>6, GrowsKeeps DEF IInv, GroupOK
  <2> QED BY <2>5, <2>6, <2>7 DEF GroupOK
<1> QED BY <1>2, <1>6, <1>8, <1>9, Frame DEF IInv

\* A return is merged: the answer to an order request, or a report.
LEMMA HandleRspOfOrderKeeps ==
  ASSUME IInv, NEW id \in OrderId, HandleRspOfOrder(id)
  PROVE  IInv'
<1>1. /\ UNCHANGED <<srv, exch, canceling, up, crashes, syncTasks, wsQueue, syncReq,
                     dbQueue, db, misled>>
      /\ http' = [http EXCEPT ![id] = "done"]
      /\ \/ UNCHANGED <<ordMgr, thread>>
         \/ http[id] # "none" /\ Merge(id, Failure(id))
  BY DEF HandleRspOfOrder
<1>2. Grows(srv, srv')
  BY <1>1, SameGrows
<1>3. SrvOK' /\ ReportsOK' /\ TasksOK' /\ DbQueueOK' /\ DbOK'
  BY <1>1, <1>2, Frame DEF IInv, SrvOK
<1>4. http[id] # "none"
  BY DEF HandleRspOfOrder
<1>5. Known(srv[id])
  BY <1>4 DEF IInv, ExchOK
<1>6. ExchOK'
  BY <1>1, <1>5 DEF IInv, ExchOK, HttpStatus
<1>7. ThreadOK' /\ GroupOK'
  <2>1. CASE UNCHANGED <<ordMgr, thread>>
    BY <1>2, <2>1, Frame
  <2>2. CASE Merge(id, Failure(id))
    BY <1>1, <1>5, <2>2, FailureIsReturn, MergeKeeps DEF Thread
  <2> QED BY <1>1, <2>1, <2>2
<1> QED BY <1>3, <1>6, <1>7 DEF IInv

LEMMA HandleWSKeeps ==
  ASSUME IInv, HandleWS
  PROVE  IInv'
<1>1. /\ Merge(WS, Head(wsQueue)) /\ wsQueue # << >> /\ wsQueue' = Tail(wsQueue)
      /\ UNCHANGED <<srv, exch, canceling, up, crashes, syncTasks, http, syncReq, dbQueue,
                     db, misled>>
  BY DEF HandleWS
<1>2. Grows(srv, srv')
  BY <1>1, SameGrows
<1>3. SrvOK' /\ ExchOK' /\ TasksOK' /\ DbQueueOK' /\ DbOK'
  BY <1>1, <1>2, Frame DEF IInv, SrvOK, ExchOK
<1>4. wsQueue \in Seq(Report) /\ 1 \in 1..Len(wsQueue) /\ Head(wsQueue) = wsQueue[1]
  BY <1>1 DEF IInv, ReportsOK
<1>5. IsReturn(srv, Head(wsQueue))
  BY <1>4 DEF IInv, ReportsOK
<1>6. ThreadOK' /\ GroupOK'
  BY <1>1, <1>5, MergeKeeps DEF Thread
<1>7. ReportsOK'
  <2>1. /\ Tail(wsQueue) \in Seq(Report) /\ Len(Tail(wsQueue)) = Len(wsQueue) - 1
        /\ \A i \in 1..Len(Tail(wsQueue)) :
             Tail(wsQueue)[i] = wsQueue[i + 1] /\ i + 1 \in 1..Len(wsQueue)
    BY <1>1, <1>4
  <2>2. \A i \in 1..Len(wsQueue') : IsReturn(srv, wsQueue'[i])
    BY <1>1, <2>1 DEF IInv, ReportsOK
  <2> QED BY <1>1, <2>1, <2>2 DEF IInv, ReportsOK
<1> QED BY <1>3, <1>6, <1>7 DEF IInv

\* What was merged is sent, then queued as a sync task.
LEMMA SendRetKeeps ==
  ASSUME IInv, NEW t \in Thread, SendRet(t)
  PROVE  IInv'
<1> DEFINE ret == thread[t].ret
<1>1. /\ thread[t].pc = "send" /\ srv' = [srv EXCEPT ![ret.orderId] = Receive(@, ret)]
      /\ thread' = [thread EXCEPT ![t].pc = "cache"]
      /\ UNCHANGED <<exch, canceling, up, crashes, ordMgr, syncTasks, http, wsQueue,
                     syncReq, dbQueue, db, misled>>
  BY DEF SendRet
<1>2. IsCopy(srv, ret)
  BY <1>1 DEF IInv, ThreadOK
<1>3. SrvOK' /\ ExchOK' /\ Grows(srv, srv') /\ IsTold(srv', ret)
  BY <1>1, <1>2, ToldMore
<1>4. ThreadOK'
  <2>1. thread' \in [Thread -> [pc : {"idle", "send", "cache"}, ret : Order \cup {NoOrder}]]
    BY <1>1 DEF IInv, ThreadOK
  <2>2. thread'[t].pc = "cache" /\ thread'[t].ret = ret
    BY <1>1 DEF IInv, ThreadOK
  <2>3. ASSUME NEW x \in Thread, x # t PROVE thread'[x] = thread[x]
    BY <1>1, <2>3 DEF IInv, ThreadOK
  <2>4. ASSUME NEW x \in Thread
        PROVE  /\ thread'[x].pc = "send" => IsCopy(srv', thread'[x].ret)
               /\ thread'[x].pc = "cache" => IsTold(srv', thread'[x].ret)
    <3>1. CASE x = t
      BY <1>3, <2>2, <3>1
    <3>2. CASE x # t
      BY <1>3, <2>3, <3>2, GrowsKeeps DEF IInv, ThreadOK
    <3> QED BY <3>1, <3>2
  <2> QED BY <2>1, <2>4 DEF ThreadOK
<1> QED BY <1>1, <1>3, <1>4, Frame DEF IInv

LEMMA CacheSyncTaskKeeps ==
  ASSUME IInv, NEW t \in Thread, CacheSyncTask(t)
  PROVE  IInv'
<1>1. /\ thread[t].pc = "cache" /\ syncTasks' = Append(syncTasks, thread[t].ret)
      /\ thread' = [thread EXCEPT ![t] = Idle]
      /\ UNCHANGED <<srv, exch, canceling, up, crashes, ordMgr, http, wsQueue, syncReq,
                     dbQueue, db, misled>>
  BY DEF CacheSyncTask
<1>2. IsTold(srv, thread[t].ret)
  BY <1>1 DEF IInv, ThreadOK
<1>3. TasksOK'
  BY <1>1, <1>2, ToldAppend DEF IInv, TasksOK
<1>4. ThreadOK'
  <2>1. /\ Idle \in [pc : {"idle", "send", "cache"}, ret : Order \cup {NoOrder}]
        /\ Idle.pc = "idle"
    BY DEF Idle
  <2> QED BY <1>1, <2>1 DEF IInv, ThreadOK
<1>5. Grows(srv, srv')
  BY <1>1, SameGrows
<1> QED BY <1>1, <1>3, <1>4, <1>5, Frame DEF IInv, SrvOK, ExchOK

-----------------------------------------------------------------------------
\* A report is queued for the WS thread, or was lost on its way.
LEMMA ReportQueued ==
  ASSUME IInv, NEW r, IsReturn(srv, r), srv' = srv, syncReq' \subseteq syncReq,
         wsQueue' = Append(wsQueue, r) \/ wsQueue' = wsQueue
  PROVE  ReportsOK'
<1>1. wsQueue \in Seq(Report) /\ r \in Report /\ Len(wsQueue) \in Nat
  BY DEF IInv, ReportsOK, IsReturn
<1>2. CASE wsQueue' = Append(wsQueue, r)
  <2>1. /\ wsQueue' \in Seq(Report) /\ Len(wsQueue') = Len(wsQueue) + 1
        /\ wsQueue'[Len(wsQueue) + 1] = r
        /\ \A i \in 1..Len(wsQueue) : wsQueue'[i] = wsQueue[i]
    BY <1>1, <1>2
  <2>2. \A i \in 1..Len(wsQueue') : i = Len(wsQueue) + 1 \/ i \in 1..Len(wsQueue)
    BY <1>1, <2>1
  <2> QED BY <2>1, <2>2 DEF IInv, ReportsOK
<1>3. CASE wsQueue' = wsQueue
  BY <1>3 DEF IInv, ReportsOK
<1> QED BY <1>2, <1>3

\* The exchange takes an order, deals, cancels, or drops it.
LEMMA MovesKeeps ==
  ASSUME IInv, NEW id \in OrderId, Known(srv[id]),
         NEW e \in [status : ExchStatus, dealt : Nat], e.dealt <= srv[id].orderSize,
         e.status = "live" => e.dealt < srv[id].orderSize,
         Moves(id, e), http' \in [OrderId -> HttpStatus],
         \A x \in OrderId \ {id} : http'[x] = http[x]
  PROVE  IInv'
<1>1. /\ exch' = [exch EXCEPT ![id] = e]
      /\ wsQueue' = Append(wsQueue, ReturnOf(id, e)) \/ wsQueue' = wsQueue
      /\ UNCHANGED <<srv, canceling, up, crashes, ordMgr, thread, syncTasks, syncReq,
                     dbQueue, db, misled>>
  BY DEF Moves, Push, gwVars
<1>2. ReportsOK'
  BY <1>1, ReturnIsReturn, ReportQueued
<1>3. ExchOK'
  BY <1>1 DEF IInv, ExchOK
<1>4. Grows(srv, srv')
  BY <1>1, SameGrows
<1> QED BY <1>1, <1>2, <1>3, <1>4, Frame DEF IInv, SrvOK

LEMMA ExchangeKeeps ==
  ASSUME IInv, NEW id \in OrderId,
         \/ ExchTakesOrder(id) \/ ExchDeals(id) \/ ExchCancels(id) \/ ExchExpires(id)
  PROVE  IInv'
<1> DEFINE size == srv[id].orderSize
<1>1. exch[id] \in [status : ExchStatus, dealt : Nat] /\ http \in [OrderId -> HttpStatus]
  BY DEF IInv, ExchOK
<1>2. Known(srv[id])
  <2>1. http[id] # "none" \/ exch[id].status # "absent"
    BY DEF ExchTakesOrder, ExchDeals, ExchCancels, ExchExpires
  <2>2. ~Known(srv[id]) => exch[id].status = "absent" /\ http[id] = "none"
    BY DEF IInv, ExchOK
  <2> QED BY <2>1, <2>2
<1>3. /\ size \in Nat \ {0} /\ exch[id].dealt <= size
      /\ exch[id].status = "live" => exch[id].dealt < size
  BY <1>2, SizeAssumption DEF IInv, ExchOK, SrvOK, WellDealt, Order
<1>4. CASE ExchTakesOrder(id)
  <2> DEFINE e == [status |-> "live", dealt |-> 0]
  <2>1. Moves(id, e)
    BY <1>4 DEF ExchTakesOrder
  <2>2. /\ e \in [status : ExchStatus, dealt : Nat] /\ e.dealt <= size
        /\ e.status = "live" => e.dealt < size
    BY <1>3 DEF ExchStatus
  <2>3. http' \in [OrderId -> HttpStatus] /\ \A x \in OrderId \ {id} : http'[x] = http[x]
    BY <1>1, <1>4 DEF ExchTakesOrder, HttpStatus
  <2> HIDE DEF e
  <2> QED BY <1>2, <2>1, <2>2, <2>3, MovesKeeps
<1>5. CASE ExchDeals(id)
  <2> DEFINE dealt == exch[id].dealt + 1
             st == IF dealt = size THEN "filled" ELSE "live"
             e == [status |-> st, dealt |-> dealt]
  <2>1. Moves(id, e) /\ http' = http /\ exch[id].status = "live"
    BY <1>5 DEF ExchDeals
  <2>2. st \in ExchStatus /\ dealt \in Nat /\ dealt <= size /\ (st = "live" => dealt < size)
    BY <1>1, <1>3, <2>1 DEF ExchStatus
  <2> HIDE DEF st, dealt
  <2>3. /\ e \in [status : ExchStatus, dealt : Nat] /\ e.dealt <= size
        /\ e.status = "live" => e.dealt < size
    BY <2>2
  <2> HIDE DEF e
  <2> QED BY <1>1, <1>2, <2>1, <2>3, MovesKeeps
<1>6. ASSUME NEW st \in {"canceled", "expired"},
             Moves(id, [exch[id] EXCEPT !.status = st]), http' = http
      PROVE  IInv'
  <2> DEFINE e == [exch[id] EXCEPT !.status = st]
  <2>1. /\ e \in [status : ExchStatus, dealt : Nat] /\ e.dealt <= size
        /\ e.status # "live"
    BY <1>1, <1>3 DEF ExchStatus
  <2>2. Moves(id, e)
    BY <1>6
  <2> HIDE DEF e
  <2> QED BY <1>1, <1>2, <1>6, <2>1, <2>2, MovesKeeps
<1>7. CASE ExchCancels(id)
  BY <1>6, <1>7 DEF ExchCancels
<1>8. CASE ExchExpires(id)
  BY <1>6, <1>8 DEF ExchExpires
<1> QED BY <1>4, <1>5, <1>7, <1>8

\* The exchange refuses an order, or the connection breaks.
LEMMA RequestLostKeeps ==
  ASSUME IInv, NEW id \in OrderId, ExchRefusesOrder(id) \/ ConnectionBreaks(id)
  PROVE  IInv'
<1>1. /\ http' \in [OrderId -> HttpStatus] /\ http[id] # "none"
      /\ \A x \in OrderId \ {id} : http'[x] = http[x]
  BY DEF ExchRefusesOrder, ConnectionBreaks, IInv, ExchOK, HttpStatus
<1>2. /\ exch' = [exch EXCEPT ![id].status = "rejected"] \/ exch' = exch
      /\ UNCHANGED <<srv, ordMgr, thread, syncTasks, wsQueue, syncReq, dbQueue, db>>
  BY DEF ExchRefusesOrder, ConnectionBreaks, gwVars
<1>3. Known(srv[id])
  BY <1>1 DEF IInv, ExchOK
<1>4. /\ exch' \in [OrderId -> [status : ExchStatus, dealt : Nat]]
      /\ \A x \in OrderId : x # id => exch'[x] = exch[x]
      /\ exch'[id].dealt = exch[id].dealt
      /\ exch'[id].status = "rejected" \/ exch'[id] = exch[id]
  BY <1>2 DEF IInv, ExchOK, ExchStatus
<1>5. ExchOK'
  BY <1>1, <1>2, <1>3, <1>4 DEF IInv, ExchOK
<1>6. Grows(srv, srv')
  BY <1>2, SameGrows
<1> QED BY <1>2, <1>5, <1>6, Frame DEF IInv, SrvOK

-----------------------------------------------------------------------------
\* Orders are asked about, and the exchange answers or does not.
LEMMA QueryKeeps ==
  ASSUME IInv, NEW id \in OrderId, QueryOrder(id) \/ QueryRefused(id) \/ QueryFails(id)
  PROVE  IInv'
<1>1. /\ id \in syncReq /\ syncReq' = syncReq \ {id}
      /\ UNCHANGED <<srv, exch, http, ordMgr, thread, syncTasks, dbQueue, db>>
      /\ \/ wsQueue' = Append(wsQueue, Failure(id))
         \/ wsQueue' = Append(wsQueue, ReturnOf(id, exch[id]))
         \/ wsQueue' = wsQueue
  BY DEF QueryOrder, QueryRefused, QueryFails, gwVars
<1>2. Known(srv[id])
  BY <1>1 DEF IInv, ReportsOK
<1>3. IsReturn(srv, Failure(id))
  BY <1>2, FailureIsReturn
<1>4. IsReturn(srv, ReturnOf(id, exch[id]))
  BY <1>2, ReturnIsReturn DEF IInv, ExchOK
<1>5. ReportsOK'
  BY <1>1, <1>3, <1>4, ReportQueued
<1>6. Grows(srv, srv')
  BY <1>1, SameGrows
<1> QED BY <1>1, <1>5, <1>6, Frame DEF IInv, SrvOK, ExchOK

LEMMA SyncUnclosedOrdersKeeps ==
  ASSUME IInv, SyncUnclosedOrders
  PROVE  IInv'
<1>1. /\ syncReq' = syncReq \cup {id \in OpenIds(ordMgr) : OldEnough(id)}
      /\ UNCHANGED <<srv, exch, http, wsQueue, ordMgr, thread, syncTasks, dbQueue, db>>
  BY DEF SyncUnclosedOrders, gwVars
<1>2. \A id \in OpenIds(ordMgr) : id \in OrderId /\ Known(srv[id])
  BY DEF IInv, GroupOK, GoodGroup, IsCopy, WellDealt, Order
<1>3. ReportsOK'
  BY <1>1, <1>2 DEF IInv, ReportsOK
<1>4. Grows(srv, srv')
  BY <1>1, SameGrows
<1> QED BY <1>1, <1>3, <1>4, Frame DEF IInv, SrvOK, ExchOK

-----------------------------------------------------------------------------
\* Storing: the sync tasks are queued, and a statement is run.
LEMMA HandleSyncTaskGroupKeeps ==
  ASSUME IInv, HandleSyncTaskGroup
  PROVE  IInv'
<1>1. /\ dbQueue' = dbQueue \o syncTasks /\ syncTasks' = << >>
      /\ UNCHANGED <<srv, exch, http, wsQueue, syncReq, ordMgr, thread, db>>
  BY DEF HandleSyncTaskGroup
<1>2. DbQueueOK'
  BY <1>1, ToldConcat DEF IInv, DbQueueOK, TasksOK
<1>3. TasksOK'
  BY <1>1 DEF TasksOK, AllTold
<1>4. Grows(srv, srv')
  BY <1>1, SameGrows
<1> QED BY <1>1, <1>2, <1>3, <1>4, Frame DEF IInv, SrvOK, ExchOK

LEMMA ExecSQLKeeps ==
  ASSUME IInv, ExecSQL
  PROVE  IInv'
<1> DEFINE o == Head(dbQueue)
<1>1. /\ dbQueue # << >> /\ dbQueue' = Tail(dbQueue)
      /\ db' = [db EXCEPT ![o.orderId] = o] \/ db' = db
      /\ UNCHANGED <<srv, exch, http, wsQueue, syncReq, ordMgr, thread, syncTasks>>
  BY DEF ExecSQL, gwVars
<1>2. AllTold(srv, Tail(dbQueue)) /\ IsTold(srv, o)
  BY <1>1, ToldTail DEF IInv, DbQueueOK
<1>3. DbQueueOK'
  BY <1>1, <1>2 DEF DbQueueOK
<1>4. o \in Order /\ o.orderId \in OrderId
  BY <1>2 DEF IsTold, IsCopy, WellDealt, Order
<1> HIDE DEF o
<1>5. DbOK'
  <2>1. CASE db' = [db EXCEPT ![o.orderId] = o]
    BY <1>1, <1>2, <1>4, <2>1 DEF IInv, DbOK
  <2>2. CASE db' = db
    BY <1>1, <2>2 DEF IInv, DbOK
  <2> QED BY <1>1, <2>1, <2>2
<1>6. Grows(srv, srv')
  BY <1>1, SameGrows
<1> QED BY <1>1, <1>3, <1>5, <1>6, Frame DEF IInv, SrvOK, ExchOK

-----------------------------------------------------------------------------
\* A crash forgets everything but the database; a restart loads from it.
LEMMA CrashKeeps ==
  ASSUME IInv, Crash
  PROVE  IInv'
<1>1. /\ ordMgr' = EmptyGroup /\ thread' = [t \in Thread |-> Idle]
      /\ wsQueue' = << >> /\ syncTasks' = << >> /\ dbQueue' = << >> /\ syncReq' = {}
      /\ UNCHANGED <<srv, exch, db>>
  BY DEF Crash
<1>2. ExchOK'
  <2>1. PICK arriving \in SUBSET {id \in OrderId : http[id] = "request"} :
          http' = [id \in OrderId |-> IF id \in arriving THEN "lost"
                                     ELSE IF http[id] = "none" THEN "none" ELSE "done"]
    BY DEF Crash
  <2>2. /\ http' \in [OrderId -> HttpStatus]
        /\ \A id \in OrderId : http[id] = "none" => http'[id] = "none"
    BY <2>1 DEF HttpStatus
  <2> QED BY <1>1, <2>2 DEF IInv, ExchOK
<1>3. ThreadOK'
  BY <1>1 DEF ThreadOK, Idle
<1>4. GroupOK'
  <2>1. GoodGroup(ordMgr') /\ OpenIds(ordMgr') = {} /\ ordMgr'.recent = << >>
    BY <1>1, EmptyGood DEF EmptyGroup
  <2> QED BY <2>1 DEF GroupOK
<1>5. ReportsOK' /\ TasksOK' /\ DbQueueOK'
  BY <1>1 DEF ReportsOK, TasksOK, DbQueueOK, AllTold
<1>6. Grows(srv, srv')
  BY <1>1, SameGrows
<1> QED BY <1>1, <1>2, <1>3, <1>4, <1>5, <1>6, Frame DEF IInv, SrvOK

LEMMA RestartKeeps ==
  ASSUME IInv, Restart
  PROVE  IInv'
<1> DEFINE S == {id \in OrderId : Known(db[id]) /\ ~closed(db[id])}
           f == [id \in S |-> db[id]]
<1>1. /\ ordMgr' = [open |-> f, recent |-> << >>]
      /\ UNCHANGED <<srv, exch, http, wsQueue, syncReq, thread, syncTasks, dbQueue, db>>
  BY DEF Restart
<1>2. \A id \in S : /\ IsCopy(srv, db[id]) /\ db[id] \in Order /\ db[id].orderId = id
                    /\ ~closed(db[id]) /\ Sound(db[id])
  BY WellDealtIsSound DEF IInv, DbOK, IsTold, IsCopy, WellDealt
<1>3. f \in [S -> Order] /\ S \in SUBSET OrderId /\ \A id \in S : f[id] = db[id]
  BY <1>2
<1> HIDE DEF S, f
<1>4. OpenIds(ordMgr') = S /\ ordMgr'.open = f /\ ordMgr'.recent = << >> /\ RecentIds(ordMgr') = {}
  BY <1>1, <1>3 DEF OpenIds, RecentIds
<1>5. IsGroup(ordMgr')
  <2>1. ordMgr' \in [open : [S -> Order], recent : Seq(Order)]
    BY <1>1, <1>3
  <2> QED BY <1>3, <1>4, <2>1 DEF IsGroup
<1>6. GoodGroup(ordMgr')
  <2>1. \A id \in OpenIds(ordMgr') : /\ ordMgr'.open[id].orderId = id
                                     /\ ~closed(ordMgr'.open[id]) /\ Sound(ordMgr'.open[id])
    BY <1>2, <1>3, <1>4
  <2>2. DOMAIN ordMgr'.recent = {} /\ Len(ordMgr'.recent) = 0 /\ MaxClosed \in Nat
    BY <1>4, MaxClosedAssumption
  <2>3. OpenIds(ordMgr') \cap RecentIds(ordMgr') = {}
    BY <1>4
  <2> QED BY <1>5, <2>1, <2>2, <2>3 DEF GoodGroup
<1>7. GroupOK'
  BY <1>1, <1>2, <1>3, <1>4, <1>6 DEF GroupOK
<1>8. Grows(srv, srv')
  BY <1>1, SameGrows
<1> QED BY <1>1, <1>7, <1>8, Frame DEF IInv, SrvOK, ExchOK

-----------------------------------------------------------------------------
\* What neither the trade server, the gateway nor the exchange does.
LEMMA UnchangedKeeps ==
  ASSUME IInv, UNCHANGED <<srv, exch, http, wsQueue, syncReq, ordMgr, thread, syncTasks,
                           dbQueue, db>>
  PROVE  IInv'
<1>1. Grows(srv, srv')
  BY SameGrows
<1> QED BY <1>1, Frame DEF IInv, SrvOK, ExchOK

LEMMA InvStep == IInv /\ [Next]_vars => IInv'
<1> SUFFICES ASSUME IInv, [Next]_vars PROVE IInv'
  OBVIOUS
<1>1. CASE UNCHANGED vars
  BY <1>1, UnchangedKeeps DEF vars, gwVars
<1>2. ASSUME NEW id \in OrderId, OnCancelOrder(id) PROVE IInv'
  BY <1>2, UnchangedKeeps DEF OnCancelOrder, gwVars
<1>3. ASSUME NEW id \in OrderId, NEW side \in Side, NEW size \in Size,
             \/ RefuseOrder(id, side, size) \/ OnOrder(id, side, size)
             \/ OnOrderNotSent(id, side, size)
      PROVE  IInv'
  BY <1>3, RefuseOrderKeeps, OnOrderKeeps, OnOrderNotSentKeeps
<1>4. ASSUME NEW id \in OrderId,
             \/ HandleRspOfOrder(id)
             \/ ExchTakesOrder(id) \/ ExchRefusesOrder(id) \/ ConnectionBreaks(id)
             \/ ExchDeals(id) \/ ExchCancels(id) \/ ExchExpires(id)
             \/ QueryOrder(id) \/ QueryRefused(id) \/ QueryFails(id)
      PROVE  IInv'
  BY <1>4, HandleRspOfOrderKeeps, ExchangeKeeps, RequestLostKeeps, QueryKeeps
<1>5. ASSUME NEW t \in Thread, SendRet(t) \/ CacheSyncTask(t) PROVE IInv'
  BY <1>5, SendRetKeeps, CacheSyncTaskKeeps
<1>6. CASE \/ HandleWS \/ SyncUnclosedOrders \/ HandleSyncTaskGroup \/ ExecSQL
           \/ Crash \/ Restart
  BY <1>6, HandleWSKeeps, SyncUnclosedOrdersKeeps, HandleSyncTaskGroupKeeps, ExecSQLKeeps,
     CrashKeeps, RestartKeeps
<1> QED BY <1>1, <1>2, <1>3, <1>4, <1>5, <1>6 DEF Next

\* The database never knows more of an order than the trade server was told,
\* whatever is lost on the way, and however often the gateway crashes: what is
\* stored was queued, and what is queued was sent before.
THEOREM DBIsBehind == Spec => []DBNotAheadOfSrv
<1>1. IInv => DBNotAheadOfSrv
  <2> SUFFICES ASSUME IInv, NEW id \in OrderId, Known(db[id])
               PROVE  /\ Abs(db[id].dealSize) <= Abs(srv[id].dealSize)
                      /\ closed(db[id]) => closed(srv[id])
    BY DEF DBNotAheadOfSrv
  <2>1. IsTold(srv, db[id]) /\ db[id].orderId = id
    BY DEF IInv, DbOK
  <2> QED BY <2>1 DEF IsTold
<1> QED BY <1>1, InvInit, InvStep, PTL DEF Spec

-----------------------------------------------------------------------------
(***************************************************************************)
(* Where an order ends.  Whatever says that an order is closed, the trade  *)
(* server's copy, the order manager, a report for the WS thread or what a  *)
(* thread is about to send, is right for good or was misled: an order that *)
(* is absent at the exchange may still arrive there only while its request *)
(* is on its way, and until then nobody asks about it.                     *)
(***************************************************************************)
Ended(id) == NeverLive(id) \/ id \in misled

RequestsOK ==
  \A id \in OrderId :
    /\ http[id] \in {"none", "request", "lost"} => exch[id].status = "absent"
    /\ http[id] = "refused" => exch[id].status = "rejected"
    /\ http[id] = "broken" => id \in misled
    /\ id \in syncReq => http[id] \notin {"request", "lost"}

SrvEnded == \A id \in OrderId : Known(srv[id]) /\ closed(srv[id]) => Ended(id)
RecentEnded == \A id \in RecentIds(ordMgr) : Ended(id)
ReportsEnded ==
  \A i \in 1..Len(wsQueue) : wsQueue[i].orderStatus >= Filled => Ended(wsQueue[i].orderId)
SentEnded ==
  \A t \in Thread : thread[t].pc = "send" /\ closed(thread[t].ret)
                      => Ended(thread[t].ret.orderId)

EndInv == RequestsOK /\ SrvEnded /\ RecentEnded /\ ReportsEnded /\ SentEnded

\* What a step may do to an order at the exchange and to its request.
LEMMA WorldStep ==
  ASSUME IInv, [Next]_vars, NEW id \in OrderId
  PROVE  /\ exch'[id] = exch[id] \/ http[id] \in {"request", "lost"} \/ exch[id].status = "live"
         /\ \/ http'[id] = http[id]
            \/ http'[id] \in {"accepted", "refused", "broken", "done"}
            \/ http'[id] = "request" /\ ~Known(srv[id])
            \/ http'[id] = "lost" /\ http[id] = "request"
         /\ misled \subseteq misled'
<1>0. /\ exch \in [OrderId -> [status : ExchStatus, dealt : Nat]]
      /\ http \in [OrderId -> HttpStatus]
  BY DEF IInv, ExchOK
<1> DEFINE P == /\ \/ exch'[id] = exch[id] \/ http[id] \in {"request", "lost"}
                   \/ exch[id].status = "live"
                /\ \/ http'[id] = http[id]
                   \/ http'[id] \in {"accepted", "refused", "broken", "done"}
                   \/ http'[id] = "request" /\ ~Known(srv[id])
                   \/ http'[id] = "lost" /\ http[id] = "request"
                /\ misled \subseteq misled'
<1>1. ASSUME UNCHANGED <<exch, http, misled>> PROVE P
  BY <1>1
<1>2. CASE UNCHANGED vars
  BY <1>1, <1>2 DEF vars
<1>3. ASSUME NEW x \in OrderId, NEW side \in Side, NEW size \in Size,
             \/ RefuseOrder(x, side, size) \/ OnOrder(x, side, size)
             \/ OnOrderNotSent(x, side, size)
      PROVE  P
  <2>1. exch' = exch /\ misled' = misled
        /\ (http' = http \/ (http' = [http EXCEPT ![x] = "request"] /\ ~Known(srv[x])))
    BY <1>3 DEF RefuseOrder, OnOrder, OnOrderNotSent
  <2> QED BY <1>0, <2>1
<1>4. ASSUME NEW x \in OrderId,
             \/ OnCancelOrder(x) \/ QueryOrder(x) \/ QueryRefused(x) \/ QueryFails(x)
      PROVE  P
  <2>1. exch' = exch /\ http' = http /\ (misled' = misled \/ misled' = misled \cup {x})
    BY <1>4 DEF OnCancelOrder, QueryOrder, QueryRefused, QueryFails
  <2> QED BY <2>1
<1>5. ASSUME NEW x \in OrderId,
             HandleRspOfOrder(x) \/ ExchRefusesOrder(x) \/ ConnectionBreaks(x)
      PROVE  P
  <2>1. /\ misled' = misled \/ misled' = misled \cup {x}
        /\ \/ http' = [http EXCEPT ![x] = "done"] \/ http' = [http EXCEPT ![x] = "broken"]
           \/ http' = [http EXCEPT ![x] = IF @ = "lost" THEN "done" ELSE "refused"]
        /\ \/ exch' = exch
           \/ exch' = [exch EXCEPT ![x].status = "rejected"] /\ http[x] \in {"request", "lost"}
    BY <1>5 DEF HandleRspOfOrder, ExchRefusesOrder, ConnectionBreaks
  <2> QED BY <1>0, <2>1
<1>6. ASSUME NEW x \in OrderId, NEW e, Moves(x, e),
             http[x] \in {"request", "lost"} \/ exch[x].status = "live",
             \/ http' = http
             \/ http' = [http EXCEPT ![x] = IF @ = "lost" THEN "done" ELSE "accepted"]
      PROVE  P
  BY <1>0, <1>6 DEF Moves
<1>7. ASSUME NEW x \in OrderId,
             ExchTakesOrder(x) \/ ExchDeals(x) \/ ExchCancels(x) \/ ExchExpires(x)
      PROVE  P
  BY <1>6, <1>7 DEF ExchTakesOrder, ExchDeals, ExchCancels, ExchExpires
<1>8. ASSUME NEW t \in Thread, SendRet(t) \/ CacheSyncTask(t) PROVE P
  BY <1>1, <1>8 DEF SendRet, CacheSyncTask
<1>9. CASE HandleWS \/ SyncUnclosedOrders \/ HandleSyncTaskGroup \/ ExecSQL \/ Restart
  BY <1>1, <1>9 DEF HandleWS, SyncUnclosedOrders, HandleSyncTaskGroup, ExecSQL, Restart
<1>10. CASE Crash
  <2>1. PICK arriving \in SUBSET {x \in OrderId : http[x] = "request"} :
          http' = [x \in OrderId |-> IF x \in arriving THEN "lost"
                                     ELSE IF http[x] = "none" THEN "none" ELSE "done"]
    BY <1>10 DEF Crash
  <2>2. exch' = exch /\ misled' = misled
    BY <1>10 DEF Crash
  <2> QED BY <2>1, <2>2
<1> QED BY <1>2, <1>3, <1>4, <1>5, <1>7, <1>8, <1>9, <1>10 DEF Next

\* An order that has ended stays so: only a new one can still arrive.
LEMMA EndedStays ==
  ASSUME IInv, EndInv, [Next]_vars, NEW id \in OrderId, Known(srv[id]), Ended(id)
  PROVE  Ended(id)'
<1>1. CASE id \in misled
  BY <1>1, WorldStep DEF Ended
<1>2. CASE FinishedAtExch(id)
  <2>1. http[id] \notin {"request", "lost"} /\ exch[id].status # "live"
    BY <1>2 DEF FinishedAtExch, EndInv, RequestsOK
  <2>2. exch'[id] = exch[id]
    BY <2>1, WorldStep
  <2> QED BY <1>2, <2>2 DEF Ended, NeverLive, FinishedAtExch
<1>3. CASE exch[id].status = "absent" /\ http[id] \notin {"request", "lost"}
  <2>1. exch'[id] = exch[id] /\ http'[id] \notin {"request", "lost"}
    BY <1>3, WorldStep
  <2> QED BY <1>3, <2>1 DEF Ended, NeverLive
<1> QED BY <1>1, <1>2, <1>3 DEF Ended, NeverLive

\* Requests and queries: who is asked about is not on its way to the exchange.
LEMMA RequestsStep ==
  ASSUME IInv, EndInv, [Next]_vars
  PROVE  RequestsOK'
<1>0. /\ exch \in [OrderId -> [status : ExchStatus, dealt : Nat]]
      /\ http \in [OrderId -> HttpStatus]
      /\ syncReq \subseteq {id \in OrderId : Known(srv[id])}
      /\ RequestsOK
  BY DEF IInv, ExchOK, ReportsOK, EndInv
<1>1. ASSUME UNCHANGED <<exch, http>>, misled \subseteq misled',
             \A id \in syncReq' : id \in syncReq \/ http[id] \notin {"request", "lost"}
      PROVE  RequestsOK'
  BY <1>0, <1>1 DEF RequestsOK
<1>2. CASE UNCHANGED vars
  BY <1>1, <1>2 DEF vars
<1>3. ASSUME NEW x \in OrderId, NEW side \in Side, NEW size \in Size,
             \/ RefuseOrder(x, side, size) \/ OnOrder(x, side, size)
             \/ OnOrderNotSent(x, side, size)
      PROVE  RequestsOK'
  <2>1. exch' = exch /\ misled' = misled /\ syncReq' = syncReq /\ ~Known(srv[x])
        /\ (http' = http \/ http' = [http EXCEPT ![x] = "request"])
    BY <1>3 DEF RefuseOrder, OnOrder, OnOrderNotSent
  <2>2. exch[x].status = "absent" /\ x \notin syncReq
    BY <1>0, <2>1 DEF IInv, ExchOK
  <2> QED BY <1>0, <2>1, <2>2 DEF RequestsOK
<1>4. ASSUME NEW x \in OrderId,
             \/ OnCancelOrder(x) \/ QueryOrder(x) \/ QueryRefused(x) \/ QueryFails(x)
      PROVE  RequestsOK'
  BY <1>1, <1>4 DEF OnCancelOrder, QueryOrder, QueryRefused, QueryFails
<1>5. ASSUME NEW x \in OrderId, HandleRspOfOrder(x) PROVE RequestsOK'
  BY <1>0, <1>5 DEF HandleRspOfOrder, RequestsOK
<1>6. ASSUME NEW x \in OrderId, ConnectionBreaks(x) PROVE RequestsOK'
  BY <1>0, <1>6 DEF ConnectionBreaks, RequestsOK
<1>7. ASSUME NEW x \in OrderId, ExchRefusesOrder(x) PROVE RequestsOK'
  BY <1>0, <1>7 DEF ExchRefusesOrder, RequestsOK
<1>8. ASSUME NEW x \in OrderId, NEW e, exch' = [exch EXCEPT ![x] = e],
             misled' = misled, syncReq' = syncReq,
             \/ http' = http /\ exch[x].status = "live"
             \/ /\ http' = [http EXCEPT ![x] = IF @ = "lost" THEN "done" ELSE "accepted"]
      PROVE  RequestsOK'
  BY <1>0, <1>8 DEF RequestsOK
<1>9. ASSUME NEW x \in OrderId,
             ExchTakesOrder(x) \/ ExchDeals(x) \/ ExchCancels(x) \/ ExchExpires(x)
      PROVE  RequestsOK'
  BY <1>8, <1>9 DEF ExchTakesOrder, ExchDeals, ExchCancels, ExchExpires, Moves
<1>10. ASSUME NEW t \in Thread, SendRet(t) \/ CacheSyncTask(t) PROVE RequestsOK'
  BY <1>1, <1>10 DEF SendRet, CacheSyncTask
<1>11. CASE HandleWS \/ SyncUnclosedOrders \/ HandleSyncTaskGroup \/ ExecSQL \/ Restart
  BY <1>1, <1>11 DEF HandleWS, SyncUnclosedOrders, HandleSyncTaskGroup, ExecSQL, Restart,
     OldEnough
<1>12. CASE Crash
  <2>1. PICK arriving \in SUBSET {x \in OrderId : http[x] = "request"} :
          http' = [x \in OrderId |-> IF x \in arriving THEN "lost"
                                     ELSE IF http[x] = "none" THEN "none" ELSE "done"]
    BY <1>12 DEF Crash
  <2>2. exch' = exch /\ misled' = misled /\ syncReq' = {}
    BY <1>12 DEF Crash
  <2> QED BY <1>0, <2>1, <2>2 DEF RequestsOK
<1> QED BY <1>2, <1>3, <1>4, <1>5, <1>6, <1>7, <1>9, <1>10, <1>11, <1>12 DEF Next

\* What a step leaves alone stays right about where the orders end.
LEMMA EndFrame ==
  ASSUME IInv, EndInv, [Next]_vars
  PROVE  /\ srv' = srv => SrvEnded'
         /\ RecentIds(ordMgr') \subseteq RecentIds(ordMgr) => RecentEnded'
         /\ wsQueue' = wsQueue \/ wsQueue' = << >> => ReportsEnded'
         /\ thread' = thread => SentEnded'
<1>1. srv' = srv => SrvEnded'
  BY EndedStays DEF EndInv, SrvEnded
<1>2. RecentIds(ordMgr') \subseteq RecentIds(ordMgr) => RecentEnded'
  <2>1. \A id \in RecentIds(ordMgr) : id \in OrderId /\ Known(srv[id])
    BY DEF IInv, GroupOK, RecentIds, IsCopy, WellDealt, Order
  <2> QED BY <2>1, EndedStays DEF EndInv, RecentEnded
<1>3. wsQueue' = wsQueue => ReportsEnded'
  BY EndedStays DEF IInv, ReportsOK, IsReturn, EndInv, ReportsEnded
<1>4. wsQueue' = << >> => ReportsEnded'
  BY DEF ReportsEnded
<1>5. thread' = thread => SentEnded'
  <2>1. \A t \in Thread : thread[t].pc = "send" =>
          thread[t].ret.orderId \in OrderId /\ Known(srv[thread[t].ret.orderId])
    BY DEF IInv, ThreadOK, IsCopy, WellDealt, Order
  <2> QED BY <2>1, EndedStays DEF EndInv, SentEnded
<1> QED BY <1>1, <1>2, <1>3, <1>4, <1>5

\* The order thread closes an order only as it refuses it.
LEMMA FirstEnded ==
  ASSUME IInv, EndInv, [Next]_vars,
         NEW n, NEW o, WellDealt(n), WellDealt(o), ~closed(n),
         n.orderId = o.orderId, n.side = o.side, n.orderSize = o.orderSize,
         ~Known(srv[n.orderId]), srv' = [srv EXCEPT ![n.orderId] = Receive(n, o)],
         exch' = exch, ~closed(o) \/ http' = http,
         NEW h \in HttpStatus, http' = [http EXCEPT ![n.orderId] = h] \/ http' = http
  PROVE  SrvEnded'
<1> DEFINE id == n.orderId
<1>1. id \in OrderId
  BY DEF WellDealt, Order
<1>2. \A x \in OrderId : closed(srv'[x]) =>
        IF x = id THEN closed(n) \/ closed(o) ELSE closed(srv[x])
  BY FirstReturn
<1>3. exch[id].status = "absent" /\ http[id] = "none"
  BY <1>1 DEF IInv, ExchOK
<1>4. ASSUME NEW x \in OrderId, Known(srv'[x]), closed(srv'[x]) PROVE Ended(x)'
  <2>1. CASE x = id
    <3>1. http' = http
      BY <1>2, <1>4, <2>1
    <3> QED BY <1>3, <2>1, <3>1 DEF Ended, NeverLive
  <2>2. CASE x # id
    <3>1. srv'[x] = srv[x]
      BY <1>1, <2>2 DEF IInv, SrvOK
    <3> QED BY <1>4, <3>1, EndedStays DEF EndInv, SrvEnded
  <2> QED BY <2>1, <2>2
<1> QED BY <1>4 DEF SrvEnded

LEMMA OrderThreadEnded ==
  ASSUME IInv, EndInv, [Next]_vars, NEW id \in OrderId, NEW side \in Side, NEW size \in Size,
         \/ RefuseOrder(id, side, size) \/ OnOrder(id, side, size)
         \/ OnOrderNotSent(id, side, size)
  PROVE  EndInv'
<1> DEFINE n == NewOrder(id, side, size)
           pending == [n EXCEPT !.orderStatus = Pending]
<1>1. /\ WellDealt(n) /\ n.orderId = id /\ n.side = side /\ n.orderSize = size
      /\ n.orderStatus = Created
  BY NewOrderGood
<1>2. ~closed(n)
  BY <1>1 DEF closed, Created, Filled
<1>3. /\ exch' = exch /\ thread' = thread /\ wsQueue' = wsQueue /\ ~Known(srv[id])
  BY DEF RefuseOrder, OnOrder, OnOrderNotSent
<1>4. /\ WellDealt(pending) /\ pending.orderId = id /\ pending.side = side
      /\ pending.orderSize = size /\ pending.orderStatus = Pending
  BY <1>1, StatusGood DEF OrderStatus
<1>5. ~closed(pending)
  BY <1>4 DEF closed, Pending, Filled
<1>6. ASSUME NEW om, GoodGroup(om), NEW o, WellDealt(o), ~closed(o), o.orderId = id,
             om = ordMgr
      PROVE  /\ GoodGroup(add(om, o)) /\ RecentIds(add(om, o)) = RecentIds(om)
             /\ RecentIds(remove(add(om, o), id)) = RecentIds(om)
  <2>1. id \notin OpenIds(ordMgr) \cup RecentIds(ordMgr)
    BY <1>3 DEF IInv, GroupOK, GoodGroup, IsCopy, RecentIds
  <2>2. GoodGroup(add(om, o)) /\ RecentIds(add(om, o)) = RecentIds(om)
    BY <1>6, <2>1, AddGood, WellDealtIsSound DEF WellDealt
  <2> QED BY <2>2, RemoveGood
<1>7. GoodGroup(ordMgr)
  BY DEF IInv, GroupOK
<1>8. CASE RefuseOrder(id, side, size)
  <2> DEFINE o == [n EXCEPT !.orderStatus = Failed, !.statusCode = 1]
  <2>1. srv' = [srv EXCEPT ![id] = Receive(n, o)] /\ http' = http /\ ordMgr' = ordMgr
    BY <1>8 DEF RefuseOrder
  <2>2. WellDealt(o) /\ o.orderId = id /\ o.side = side /\ o.orderSize = size
    BY <1>1, FailedGood
  <2> HIDE DEF o, n
  <2>3. SrvEnded'
    BY <1>1, <1>2, <1>3, <2>1, <2>2, FirstEnded DEF HttpStatus
  <2> QED BY <1>3, <2>1, <2>3, RequestsStep, EndFrame DEF EndInv
<1>9. CASE OnOrder(id, side, size)
  <2>1. /\ srv' = [srv EXCEPT ![id] = Receive(n, pending)]
        /\ http' = [http EXCEPT ![id] = "request"] /\ ordMgr' = add(ordMgr, pending)
    BY <1>9 DEF OnOrder
  <2> HIDE DEF pending, n
  <2>2. SrvEnded'
    BY <1>1, <1>2, <1>3, <1>4, <1>5, <2>1, FirstEnded DEF HttpStatus
  <2>3. RecentIds(ordMgr') = RecentIds(ordMgr)
    BY <1>4, <1>5, <1>6, <1>7, <2>1
  <2> QED BY <1>3, <2>2, <2>3, RequestsStep, EndFrame DEF EndInv
<1>10. CASE OnOrderNotSent(id, side, size)
  <2> DEFINE m == Receive(n, pending)
             failed == [pending EXCEPT !.orderStatus = Failed, !.statusCode = 1]
  <2>1. /\ srv' = [srv EXCEPT ![id] = Receive(m, failed)] /\ http' = http
        /\ ordMgr' = remove(add(ordMgr, pending), id)
    BY <1>10 DEF OnOrderNotSent
  <2> HIDE DEF pending, n
  <2>2. /\ WellDealt(failed) /\ failed.orderId = id /\ failed.side = side
        /\ failed.orderSize = size
    BY <1>4, FailedGood
  <2> HIDE DEF failed
  <2>3. WellDealt(m) /\ m.orderId = id /\ m.side = side /\ m.orderSize = size /\ ~closed(m)
    BY <1>1, <1>2, <1>4, <1>5, ReceiveGood
  <2> HIDE DEF m
  <2>4. SrvEnded'
    BY <1>3, <2>1, <2>2, <2>3, FirstEnded DEF HttpStatus
  <2>5. RecentIds(ordMgr') = RecentIds(ordMgr)
    BY <1>4, <1>5, <1>6, <1>7, <2>1
  <2> QED BY <1>3, <2>4, <2>5, RequestsStep, EndFrame DEF EndInv
<1> QED BY <1>8, <1>9, <1>10

\* A return is merged: what it closes is said to be closed by it.
LEMMA MergeEnded ==
  ASSUME IInv, EndInv, [Next]_vars, NEW t \in Thread, NEW new, IsReturn(srv, new),
         Merge(t, new), new.orderStatus >= Filled => Ended(new.orderId), srv' = srv
  PROVE  RecentEnded' /\ SentEnded'
<1>1. new.orderId \in OrderId /\ Known(srv[new.orderId])
  BY DEF IsReturn
<1>2. new.orderStatus >= Filled => Ended(new.orderId)'
  BY <1>1, EndedStays
<1>3. \A id \in RecentIds(ordMgr) : id \in OrderId /\ Known(srv[id]) /\ Ended(id)
  BY DEF IInv, GroupOK, RecentIds, IsCopy, WellDealt, Order, EndInv, RecentEnded
<1>4. \A id \in RecentIds(ordMgr) : Ended(id)'
  BY <1>3, EndedStays
<1>5. RecentEnded'
  <2>1. \A id \in RecentIds(ordMgr') :
          id \in RecentIds(ordMgr) \/ (id = new.orderId /\ new.orderStatus >= Filled)
    BY MergeEffect
  <2> QED BY <1>2, <1>4, <2>1 DEF RecentEnded
<1>6. \A x \in Thread : thread[x].pc = "send" => thread[x].ret.orderId \in OrderId
  BY DEF IInv, ThreadOK, IsCopy, WellDealt, Order
<1>9. \A x \in Thread : \A id \in OrderId :
        thread[x].pc = "send" /\ closed(thread[x].ret) /\ thread[x].ret.orderId = id
          => Ended(id)'
  <2>1. \A x \in Thread : thread[x].pc = "send" =>
          thread[x].ret.orderId \in OrderId /\ Known(srv[thread[x].ret.orderId])
    BY DEF IInv, ThreadOK, IsCopy, WellDealt, Order
  <2> QED BY <2>1, EndedStays DEF EndInv, SentEnded
<1>7. thread \in [Thread -> [pc : {"idle", "send", "cache"}, ret : Order \cup {NoOrder}]]
  BY DEF IInv, ThreadOK
<1>8. SentEnded'
  <2>1. CASE thread' = [thread EXCEPT ![t] = Idle]
    <3>1. Idle.pc = "idle"
      BY DEF Idle
    <3> QED BY <1>6, <1>7, <1>9, <2>1, <3>1 DEF SentEnded
  <2>2. ASSUME NEW p \in Order,
               thread' = [thread EXCEPT ![t] = [pc |-> "send", ret |-> p]],
               p.orderId = new.orderId,
               closed(p) => new.orderStatus >= Filled \/ p.orderId \in RecentIds(ordMgr)
        PROVE  SentEnded'
    <3> DEFINE x == [pc |-> "send", ret |-> p]
    <3>1. x.ret = p /\ thread' = [thread EXCEPT ![t] = x]
      BY <2>2
    <3> HIDE DEF x
    <3>2. closed(p) => Ended(p.orderId)'
      BY <1>2, <1>4, <2>2
    <3> QED BY <1>6, <1>7, <1>9, <3>1, <3>2 DEF SentEnded
  <2>3. GoesOn(t, new)
    BY MergeEffect
  <2> QED BY <2>1, <2>2, <2>3 DEF GoesOn
<1> QED BY <1>5, <1>8

\* The threads of the gateway: merge, send.
LEMMA HandlersEnded ==
  ASSUME IInv, EndInv, [Next]_vars
  PROVE  /\ \A id \in OrderId : HandleRspOfOrder(id) => EndInv'
         /\ HandleWS => EndInv'
         /\ \A t \in Thread : SendRet(t) \/ CacheSyncTask(t) => EndInv'
<1>1. ASSUME NEW id \in OrderId, HandleRspOfOrder(id) PROVE EndInv'
  <2>1. /\ srv' = srv /\ wsQueue' = wsQueue
        /\ \/ UNCHANGED <<ordMgr, thread>>
           \/ http[id] \in {"refused", "broken"} /\ Merge(id, Failure(id))
    BY <1>1 DEF HandleRspOfOrder
  <2>2. CASE UNCHANGED <<ordMgr, thread>>
    BY <2>1, <2>2, RequestsStep, EndFrame DEF EndInv
  <2>3. CASE http[id] \in {"refused", "broken"} /\ Merge(id, Failure(id))
    <3>1. Known(srv[id])
      BY <2>3 DEF IInv, ExchOK
    <3>2. IsReturn(srv, Failure(id)) /\ Failure(id).orderId = id
      BY <3>1, FailureIsReturn
    <3>3. Ended(id)
      BY <2>3 DEF EndInv, RequestsOK, Ended, NeverLive, FinishedAtExch
    <3>4. RecentEnded' /\ SentEnded'
      BY <2>1, <2>3, <3>2, <3>3, MergeEnded DEF Thread
    <3> QED BY <2>1, <3>4, RequestsStep, EndFrame DEF EndInv
  <2> QED BY <2>1, <2>2, <2>3
<1>2. ASSUME HandleWS PROVE EndInv'
  <2>1. /\ Merge(WS, Head(wsQueue)) /\ wsQueue # << >> /\ wsQueue' = Tail(wsQueue)
        /\ srv' = srv
    BY <1>2 DEF HandleWS
  <2>2. wsQueue \in Seq(Report) /\ 1 \in 1..Len(wsQueue) /\ Head(wsQueue) = wsQueue[1]
    BY <2>1 DEF IInv, ReportsOK
  <2>3. \A i \in 1..Len(wsQueue) : \A id : wsQueue[i].orderStatus >= Filled
                                           /\ wsQueue[i].orderId = id => Ended(id)'
    BY EndedStays DEF IInv, ReportsOK, IsReturn, EndInv, ReportsEnded
  <2>4. ReportsEnded'
    <3>1. /\ Len(Tail(wsQueue)) = Len(wsQueue) - 1
          /\ \A i \in 1..Len(Tail(wsQueue)) :
               Tail(wsQueue)[i] = wsQueue[i + 1] /\ i + 1 \in 1..Len(wsQueue)
      BY <2>1, <2>2
    <3> QED BY <2>1, <2>3, <3>1 DEF ReportsEnded
  <2>5. IsReturn(srv, Head(wsQueue))
    BY <2>2 DEF IInv, ReportsOK
  <2>6. Head(wsQueue).orderStatus >= Filled => Ended(Head(wsQueue).orderId)
    BY <2>2 DEF EndInv, ReportsEnded
  <2>7. RecentEnded' /\ SentEnded'
    BY <2>1, <2>5, <2>6, MergeEnded DEF Thread
  <2> QED BY <2>1, <2>4, <2>7, RequestsStep, EndFrame DEF EndInv
<1>3. ASSUME NEW t \in Thread, SendRet(t) PROVE EndInv'
  <2> DEFINE ret == thread[t].ret
  <2>1. /\ thread[t].pc = "send" /\ srv' = [srv EXCEPT ![ret.orderId] = Receive(@, ret)]
        /\ thread' = [thread EXCEPT ![t].pc = "cache"]
        /\ UNCHANGED <<exch, http, ordMgr, wsQueue>>
    BY <1>3 DEF SendRet
  <2>2. IsCopy(srv, ret)
    BY <2>1 DEF IInv, ThreadOK
  <2>3. ret.orderId \in OrderId /\ Known(srv[ret.orderId])
    BY <2>2 DEF IsCopy, WellDealt, Order
  <2>4. \A x \in OrderId : closed(srv'[x]) => closed(srv[x]) \/ (x = ret.orderId /\ closed(ret))
    BY <2>1, <2>2, ToldMore
  <2>5. \A x \in OrderId : x # ret.orderId => srv'[x] = srv[x]
    BY <2>1 DEF IInv, SrvOK
  <2>6. SrvEnded'
    <3> SUFFICES ASSUME NEW x \in OrderId, Known(srv'[x]), closed(srv'[x]) PROVE Ended(x)'
      BY DEF SrvEnded
    <3>1. Known(srv[x]) /\ Ended(x)
      BY <2>1, <2>3, <2>4, <2>5 DEF EndInv, SrvEnded, SentEnded
    <3> QED BY <3>1, EndedStays
  <2>7. SentEnded'
    <3>1. \A x \in Thread : thread'[x].pc = "send" => thread'[x] = thread[x]
      BY <2>1 DEF IInv, ThreadOK
    <3>2. \A x \in Thread : thread[x].pc = "send" =>
            thread[x].ret.orderId \in OrderId /\ Known(srv[thread[x].ret.orderId])
      BY DEF IInv, ThreadOK, IsCopy, WellDealt, Order
    <3> QED BY <3>1, <3>2, EndedStays DEF EndInv, SentEnded
  <2> QED BY <2>1, <2>6, <2>7, RequestsStep, EndFrame DEF EndInv
<1>4. ASSUME NEW t \in Thread, CacheSyncTask(t) PROVE EndInv'
  <2>1. thread' = [thread EXCEPT ![t] = Idle] /\ UNCHANGED <<srv, ordMgr, wsQueue>>
    BY <1>4 DEF CacheSyncTask
  <2>2. SentEnded'
    <3>1. \A x \in Thread : thread'[x].pc = "send" => thread'[x] = thread[x]
      BY <2>1 DEF IInv, ThreadOK, Idle
    <3>2. \A x \in Thread : thread[x].pc = "send" =>
            thread[x].ret.orderId \in OrderId /\ Known(srv[thread[x].ret.orderId])
      BY DEF IInv, ThreadOK, IsCopy, WellDealt, Order
    <3> QED BY <3>1, <3>2, EndedStays DEF EndInv, SentEnded
  <2> QED BY <2>1, <2>2, RequestsStep, EndFrame DEF EndInv
<1> QED BY <1>1, <1>2, <1>3, <1>4

\* A report is queued that says an order is closed: it has ended.
LEMMA QueuedEnded ==
  ASSUME IInv, EndInv, [Next]_vars, NEW r, IsReturn(srv, r),
         r.orderStatus >= Filled => Ended(r.orderId)',
         wsQueue' = Append(wsQueue, r) \/ wsQueue' = wsQueue
  PROVE  ReportsEnded'
<1>1. wsQueue \in Seq(Report) /\ r \in Report /\ Len(wsQueue) \in Nat
  BY DEF IInv, ReportsOK, IsReturn
<1>2. \A i \in 1..Len(wsQueue) : \A id : wsQueue[i].orderStatus >= Filled
                                         /\ wsQueue[i].orderId = id => Ended(id)'
  BY EndedStays DEF IInv, ReportsOK, IsReturn, EndInv, ReportsEnded
<1>3. CASE wsQueue' = Append(wsQueue, r)
  <2>1. /\ Len(wsQueue') = Len(wsQueue) + 1 /\ wsQueue'[Len(wsQueue) + 1] = r
        /\ \A i \in 1..Len(wsQueue) : wsQueue'[i] = wsQueue[i]
    BY <1>1, <1>3
  <2>2. \A i \in 1..Len(wsQueue') : i = Len(wsQueue) + 1 \/ i \in 1..Len(wsQueue)
    BY <1>1, <2>1
  <2> QED BY <1>2, <2>1, <2>2 DEF ReportsEnded
<1>4. CASE wsQueue' = wsQueue
  BY <1>4, EndFrame
<1> QED BY <1>3, <1>4

\* The exchange, the connection and the queries.
LEMMA MovesEnded ==
  ASSUME IInv, EndInv, [Next]_vars, NEW id \in OrderId, Known(srv[id]),
         NEW e \in [status : ExchStatus, dealt : Nat], e.dealt <= srv[id].orderSize,
         Moves(id, e), e.status \in {"live", "filled", "canceled", "expired"}
  PROVE  EndInv'
<1>1. /\ exch' = [exch EXCEPT ![id] = e]
      /\ wsQueue' = Append(wsQueue, ReturnOf(id, e)) \/ wsQueue' = wsQueue
      /\ UNCHANGED <<srv, ordMgr, thread, misled>>
  BY DEF Moves, Push, gwVars
<1>2. /\ IsReturn(srv, ReturnOf(id, e)) /\ ReturnOf(id, e).orderId = id
      /\ ReturnOf(id, e).orderStatus = StatusAtExch(e)
  BY ReturnIsReturn
<1>3. exch'[id] = e
  BY <1>1 DEF IInv, ExchOK
<1>4. StatusAtExch(e) >= Filled => e.status \in {"filled", "canceled", "expired"}
  BY DEF StatusAtExch, ConfirmedByExch, PartialFilled, Filled
<1>5. StatusAtExch(e) >= Filled => Ended(id)'
  BY <1>3, <1>4 DEF Ended, NeverLive, FinishedAtExch
<1>6. ReportsEnded'
  BY <1>1, <1>2, <1>5, QueuedEnded
<1> QED BY <1>1, <1>6, RequestsStep, EndFrame DEF EndInv

LEMMA ExchangeEnded ==
  ASSUME IInv, EndInv, [Next]_vars, NEW id \in OrderId,
         \/ ExchTakesOrder(id) \/ ExchDeals(id) \/ ExchCancels(id) \/ ExchExpires(id)
         \/ ExchRefusesOrder(id) \/ ConnectionBreaks(id)
  PROVE  EndInv'
<1> DEFINE size == srv[id].orderSize
<1>1. exch[id] \in [status : ExchStatus, dealt : Nat]
  BY DEF IInv, ExchOK
<1>2. Known(srv[id])
  <2>1. http[id] # "none" \/ exch[id].status # "absent"
    BY DEF ExchTakesOrder, ExchDeals, ExchCancels, ExchExpires, ExchRefusesOrder,
       ConnectionBreaks
  <2>2. ~Known(srv[id]) => exch[id].status = "absent" /\ http[id] = "none"
    BY DEF IInv, ExchOK
  <2> QED BY <2>1, <2>2
<1>3. /\ size \in Nat \ {0} /\ exch[id].dealt <= size
      /\ exch[id].status = "live" => exch[id].dealt < size
  BY <1>2, SizeAssumption DEF IInv, ExchOK, SrvOK, WellDealt, Order
<1>4. CASE ExchTakesOrder(id)
  <2> DEFINE e == [status |-> "live", dealt |-> 0]
  <2>1. Moves(id, e)
    BY <1>4 DEF ExchTakesOrder
  <2>2. e \in [status : ExchStatus, dealt : Nat] /\ e.dealt <= size /\ e.status = "live"
    BY <1>3 DEF ExchStatus
  <2> HIDE DEF e
  <2> QED BY <1>2, <2>1, <2>2, MovesEnded
<1>5. CASE ExchDeals(id)
  <2> DEFINE dealt == exch[id].dealt + 1
             st == IF dealt = size THEN "filled" ELSE "live"
             e == [status |-> st, dealt |-> dealt]
  <2>1. Moves(id, e) /\ exch[id].status = "live"
    BY <1>5 DEF ExchDeals
  <2>2. st \in ExchStatus /\ st \in {"live", "filled"} /\ dealt \in Nat /\ dealt <= size
    BY <1>1, <1>3, <2>1 DEF ExchStatus
  <2> HIDE DEF st, dealt
  <2>3. /\ e \in [status : ExchStatus, dealt : Nat] /\ e.dealt <= size
        /\ e.status \in {"live", "filled"}
    BY <2>2
  <2> HIDE DEF e
  <2> QED BY <1>2, <2>1, <2>3, MovesEnded
<1>6. ASSUME NEW st \in {"canceled", "expired"}, Moves(id, [exch[id] EXCEPT !.status = st])
      PROVE  EndInv'
  <2> DEFINE e == [exch[id] EXCEPT !.status = st]
  <2>1. /\ e \in [status : ExchStatus, dealt : Nat] /\ e.dealt <= size
        /\ e.status \in {"canceled", "expired"}
    BY <1>1, <1>3 DEF ExchStatus
  <2>2. Moves(id, e)
    BY <1>6
  <2> HIDE DEF e
  <2> QED BY <1>2, <2>1, <2>2, MovesEnded
<1>7. CASE ExchCancels(id)
  BY <1>6, <1>7 DEF ExchCancels
<1>8. CASE ExchExpires(id)
  BY <1>6, <1>8 DEF ExchExpires
<1>9. CASE ExchRefusesOrder(id) \/ ConnectionBreaks(id)
  <2>1. UNCHANGED <<srv, ordMgr, thread, wsQueue>>
    BY <1>9 DEF ExchRefusesOrder, ConnectionBreaks, gwVars
  <2> QED BY <2>1, RequestsStep, EndFrame DEF EndInv
<1> QED BY <1>4, <1>5, <1>7, <1>8, <1>9

LEMMA QueryEnded ==
  ASSUME IInv, EndInv, [Next]_vars, NEW id \in OrderId,
         QueryOrder(id) \/ QueryRefused(id) \/ QueryFails(id)
  PROVE  EndInv'
<1>1. id \in syncReq /\ UNCHANGED <<srv, exch, http, ordMgr, thread>>
  BY DEF QueryOrder, QueryRefused, QueryFails, gwVars
<1>2. Known(srv[id]) /\ http[id] \notin {"request", "lost"}
  BY <1>1 DEF IInv, ReportsOK, EndInv, RequestsOK
<1>3. IsReturn(srv, Failure(id)) /\ Failure(id).orderId = id
  BY <1>2, FailureIsReturn
<1>4. ReportsEnded'
  <2>1. CASE QueryRefused(id)
    <3>1. wsQueue' = Append(wsQueue, Failure(id)) /\ id \in misled'
      BY <2>1 DEF QueryRefused
    <3> QED BY <1>3, <3>1, QueuedEnded DEF Ended
  <2>2. CASE QueryFails(id)
    BY <2>2, EndFrame DEF QueryFails
  <2>3. CASE QueryOrder(id) /\ exch[id].status \in {"absent", "rejected"}
    <3>1. wsQueue' = Append(wsQueue, Failure(id))
      BY <2>3 DEF QueryOrder
    <3>2. Ended(id)'
      BY <1>1, <1>2, <2>3 DEF Ended, NeverLive, FinishedAtExch
    <3> QED BY <1>3, <3>1, <3>2, QueuedEnded
  <2>4. CASE QueryOrder(id) /\ exch[id].status \notin {"absent", "rejected"}
    <3>1. wsQueue' = Append(wsQueue, ReturnOf(id, exch[id]))
      BY <2>4 DEF QueryOrder
    <3>2. exch[id] \in [status : ExchStatus, dealt : Nat] /\ exch[id].dealt <= srv[id].orderSize
      BY <1>2 DEF IInv, ExchOK
    <3>3. /\ IsReturn(srv, ReturnOf(id, exch[id])) /\ ReturnOf(id, exch[id]).orderId = id
          /\ ReturnOf(id, exch[id]).orderStatus = StatusAtExch(exch[id])
      BY <1>2, <3>2, ReturnIsReturn
    <3>4. StatusAtExch(exch[id]) >= Filled => Ended(id)'
      BY <1>1, <2>4, <3>2 DEF StatusAtExch, ConfirmedByExch, PartialFilled, Filled,
         ExchStatus, Ended, NeverLive, FinishedAtExch
    <3> QED BY <3>1, <3>3, <3>4, QueuedEnded
  <2> QED BY <2>1, <2>2, <2>3, <2>4
<1> QED BY <1>1, <1>4, RequestsStep, EndFrame DEF EndInv

-----------------------------------------------------------------------------
LEMMA EndInit == Init => EndInv
<1> SUFFICES ASSUME Init PROVE EndInv
  OBVIOUS
<1> USE DEF Init
<1>1. RequestsOK
  BY DEF RequestsOK
<1>2. SrvEnded
  BY DEF SrvEnded, Known
<1>3. RecentEnded
  BY EmptyGood DEF RecentEnded
<1>4. ReportsEnded
  BY DEF ReportsEnded
<1>5. SentEnded
  BY DEF SentEnded, Idle
<1> QED BY <1>1, <1>2, <1>3, <1>4, <1>5 DEF EndInv

LEMMA EndStep == IInv /\ EndInv /\ [Next]_vars => EndInv'
<1> SUFFICES ASSUME IInv, EndInv, [Next]_vars PROVE EndInv'
  OBVIOUS
<1>1. ASSUME UNCHANGED <<srv, ordMgr, thread, wsQueue>> PROVE EndInv'
  BY <1>1, RequestsStep, EndFrame DEF EndInv
<1>2. CASE UNCHANGED vars
  BY <1>1, <1>2 DEF vars, gwVars
<1>3. ASSUME NEW id \in OrderId, OnCancelOrder(id) PROVE EndInv'
  BY <1>1, <1>3 DEF OnCancelOrder, gwVars
<1>4. CASE SyncUnclosedOrders \/ HandleSyncTaskGroup \/ ExecSQL
  BY <1>1, <1>4 DEF SyncUnclosedOrders, HandleSyncTaskGroup, ExecSQL, gwVars
<1>5. CASE Crash
  <2>1. /\ srv' = srv /\ ordMgr' = EmptyGroup /\ thread' = [t \in Thread |-> Idle]
        /\ wsQueue' = << >>
    BY <1>5 DEF Crash
  <2>2. SentEnded'
    BY <2>1 DEF SentEnded, Idle
  <2>3. RecentEnded'
    BY <2>1, EmptyGood DEF RecentEnded
  <2> QED BY <2>1, <2>2, <2>3, RequestsStep, EndFrame DEF EndInv
<1>6. CASE Restart
  <2>1. srv' = srv /\ ordMgr'.recent = << >> /\ thread' = thread /\ wsQueue' = wsQueue
    BY <1>6 DEF Restart
  <2>2. RecentIds(ordMgr') = {}
    BY <2>1 DEF RecentIds
  <2> QED BY <2>1, <2>2, RequestsStep, EndFrame DEF EndInv
<1> QED BY <1>2, <1>3, <1>4, <1>5, <1>6, OrderThreadEnded, HandlersEnded, ExchangeEnded,
        QueryEnded DEF Next

\* An order the gateway, the trade server or the database holds closed is
\* finished at the exchange or will never be there, unless the connection or
\* a refused query was taken for its failure.
THEOREM ClosedAreFinished == Spec => []ClosedIsFinished
<1>1. IInv /\ EndInv => ClosedIsFinished
  <2> SUFFICES ASSUME IInv, EndInv, NEW id \in OrderId,
                      \/ id \in RecentIds(ordMgr)
                      \/ Known(srv[id]) /\ closed(srv[id])
                      \/ Known(db[id]) /\ closed(db[id])
               PROVE  Ended(id)
    BY DEF ClosedIsFinished, Ended
  <2>1. Known(db[id]) /\ closed(db[id]) => Known(srv[id]) /\ closed(srv[id])
    BY DEF IInv, DbOK, IsTold, IsCopy
  <2> QED BY <2>1 DEF EndInv, RecentEnded, SrvEnded
<1> QED BY <1>1, InvInit, InvStep, EndInit, EndStep, PTL DEF Spec

-----------------------------------------------------------------------------
(***************************************************************************)
(* What agrees once the threads rest.  While the gateway has not crashed,  *)
(* what its order manager holds of an order is what the trade server has   *)
(* of it and what threads are about to send, joined.  A copy of an order   *)
(* that was not misled is Truthful: it says how far the exchange was with  *)
(* the order at some time.  Truthful copies follow each other, the one of  *)
(* the higher status being the later one, so of two that are merged one is *)
(* what results: some copy on its way to the database, or its row, is just *)
(* what the trade server has.                                              *)
(***************************************************************************)
Below(a, b) ==
  /\ a.orderStatus <= b.orderStatus /\ Abs(a.dealSize) <= Abs(b.dealSize)
  /\ closed(a) => a.orderStatus = b.orderStatus

\* The copies a thread is about to send, and those that were sent: on their
\* way to the database, or there.
Sending == {thread[t].ret : t \in {u \in Thread : thread[u].pc = "send"}}
Cached == {thread[t].ret : t \in {u \in Thread : thread[u].pc = "cache"}}
Elems(q) == {q[i] : i \in 1 .. Len(q)}
Stored == {db[id] : id \in {x \in OrderId : Known(db[x])}}
Carried == Cached \cup Elems(syncTasks) \cup Elems(dbQueue) \cup Stored
Sent == {srv[id] : id \in {x \in OrderId : Known(srv[x])}}
Held == {CopyOf(ordMgr, id) : id \in HeldIds(ordMgr)}
Reports == Elems(wsQueue)

\* What is held of an order, h, is what was sent of it or is about to be.
JoinOf(id, h) ==
  /\ Below(srv[id], h)
  /\ \A p \in Sending : p.orderId = id => Below(p, h)
  /\ \/ srv[id].orderStatus = h.orderStatus
     \/ \E p \in Sending : p.orderId = id /\ p.orderStatus = h.orderStatus
  /\ \/ Abs(srv[id].dealSize) = Abs(h.dealSize)
     \/ \E p \in Sending : p.orderId = id /\ Abs(p.dealSize) = Abs(h.dealSize)

HeldIsJoin == \A id \in HeldIds(ordMgr) : JoinOf(id, CopyOf(ordMgr, id))

\* How far the exchange is, or was, with an order.
SaysTruth(id, status, dealt) ==
  /\ dealt \in 0 .. exch[id].dealt
  /\ status < PartialFilled => dealt = 0
  /\ status >= Filled => /\ NeverLive(id)
                         /\ status = StatusAtExch(exch[id]) /\ dealt = exch[id].dealt
Truthful(x) == x.orderId \notin misled => SaysTruth(x.orderId, x.orderStatus, Abs(x.dealSize))

AllTruthful ==
  /\ \A x \in Sent \cup Held \cup Sending \cup Carried : Truthful(x)
  /\ \A r \in Reports : Truthful(r) /\ (r.dealSize # 0 => r.avgPriced)

NotAhead ==
  \A x \in Carried :
    x.orderId \notin misled => x.orderStatus <= srv[x.orderId].orderStatus
SomeAgrees ==
  \A id \in OrderId \ misled :
    Known(srv[id]) => \E x \in Carried : x.orderId = id /\ Agree(srv[id], x)

UndealtYet == \A id \in OrderId : exch[id].status \in {"absent", "rejected"} => exch[id].dealt = 0

Rest == HeldIsJoin /\ AllTruthful /\ NotAhead /\ SomeAgrees
RestInv ==
  /\ UndealtYet /\ crashes \in Nat
  /\ crashes = 0 => up /\ Rest

-----------------------------------------------------------------------------
\* Whoever holds a copy holds one of an order the trade server sent.
LEMMA CopiesAreKnown ==
  ASSUME IInv
  PROVE  /\ \A x \in Sent \cup Held \cup Sending \cup Carried :
              IsCopy(srv, x) /\ x \in Order /\ x.orderId \in OrderId
         /\ \A x \in Carried : IsTold(srv, x)
         /\ \A r \in Reports : IsReturn(srv, r)
<1>1. ASSUME NEW x \in Sent PROVE IsCopy(srv, x)
  <2>1. PICK id \in OrderId : x = srv[id] /\ Known(srv[id])
    BY DEF Sent
  <2> QED BY <2>1 DEF IInv, SrvOK, IsCopy
<1>2. ASSUME NEW x \in Held PROVE IsCopy(srv, x)
  <2>0. GoodGroup(ordMgr)
    BY DEF IInv, GroupOK
  <2>1. PICK id \in HeldIds(ordMgr) : x = CopyOf(ordMgr, id)
    BY DEF Held
  <2>2. CASE id \in OpenIds(ordMgr)
    BY <2>0, <2>1, <2>2, CopyIs DEF IInv, GroupOK
  <2>3. CASE id \notin OpenIds(ordMgr)
    <3>1. PICK i \in DOMAIN ordMgr.recent : ordMgr.recent[i].orderId = id
      BY <2>3 DEF HeldIds, RecentIds
    <3> QED BY <2>0, <2>1, <3>1, CopyIs DEF IInv, GroupOK
  <2> QED BY <2>2, <2>3
<1>3. \A x \in Sending : IsCopy(srv, x)
  BY DEF IInv, ThreadOK, Sending
<1>4. ASSUME NEW x \in Carried PROVE IsTold(srv, x)
  <2>1. x \in Cached => IsTold(srv, x)
    BY DEF IInv, ThreadOK, Cached
  <2>2. x \in Elems(syncTasks) => IsTold(srv, x)
    BY DEF IInv, TasksOK, AllTold, Elems
  <2>3. x \in Elems(dbQueue) => IsTold(srv, x)
    BY DEF IInv, DbQueueOK, AllTold, Elems
  <2>4. x \in Stored => IsTold(srv, x)
    BY DEF IInv, DbOK, Stored
  <2> QED BY <2>1, <2>2, <2>3, <2>4 DEF Carried
<1>5. \A r \in Reports : IsReturn(srv, r)
  BY DEF IInv, ReportsOK, Reports, Elems
<1>6. \A x : IsCopy(srv, x) => x \in Order /\ x.orderId \in OrderId
  BY DEF IsCopy, WellDealt, Order
<1> QED BY <1>1, <1>2, <1>3, <1>4, <1>5, <1>6 DEF IsTold

LEMMA StatusIsNat == OrderStatus \subseteq Nat
BY DEF OrderStatus, Created, ConfirmedInLocal, Pending, ConfirmedByExch, PartialFilled,
   Filled, Canceled, PartialFilledCanceled, Failed

\* Below Filled no status is above PartialFilled.
LEMMA StatusBelow == \A s \in OrderStatus : s < Filled => s <= PartialFilled
BY DEF OrderStatus, Created, ConfirmedInLocal, Pending, ConfirmedByExch, PartialFilled,
   Filled, Canceled, PartialFilledCanceled, Failed

LEMMA DealtIsNat == \A x \in Order : Abs(x.dealSize) \in Nat /\ x.orderStatus \in Nat
<1> SUFFICES ASSUME NEW x \in Order PROVE Abs(x.dealSize) \in Nat /\ x.orderStatus \in Nat
  OBVIOUS
<1>1. x.dealSize \in Int /\ x.orderStatus \in OrderStatus
  BY DEF Order
<1>2. Abs(x.dealSize) \in Nat
  BY <1>1 DEF Abs
<1> QED BY <1>1, <1>2, StatusIsNat

\* Of two truthful accounts of an order the later one is what both say together.
LEMMA LaterOfTwo ==
  ASSUME NEW id \in OrderId, exch[id].dealt \in Nat,
         NEW s1 \in OrderStatus, NEW d1 \in Nat, SaysTruth(id, s1, d1),
         NEW s2 \in OrderStatus, NEW d2 \in Nat, SaysTruth(id, s2, d2),
         NEW s, s = IF s2 > s1 /\ ~(s1 >= Filled) THEN s2 ELSE s1,
         NEW d, d = IF d2 > d1 THEN d2 ELSE d1
  PROVE  (s = s1 /\ d = d1) \/ (s = s2 /\ d = d2)
<1>0. /\ s1 \in Nat /\ s2 \in Nat
      /\ s1 < Filled => s1 <= PartialFilled
      /\ s2 < Filled => s2 <= PartialFilled
      /\ Filled \in Nat /\ PartialFilled \in Nat
  BY StatusIsNat, StatusBelow DEF Filled, PartialFilled
<1>1. /\ d1 <= exch[id].dealt /\ d2 <= exch[id].dealt
      /\ s1 < PartialFilled => d1 = 0
      /\ s2 < PartialFilled => d2 = 0
      /\ s1 >= Filled => d1 = exch[id].dealt
      /\ s2 >= Filled => d2 = exch[id].dealt
  BY DEF SaysTruth
<1>2. CASE s1 >= Filled
  BY <1>0, <1>1, <1>2
<1>3. CASE ~(s1 >= Filled) /\ s2 > s1
  <2>1. d1 = 0 \/ d2 = exch[id].dealt
    BY <1>0, <1>1, <1>3
  <2> QED BY <1>0, <1>1, <1>3, <2>1
<1>4. CASE ~(s1 >= Filled) /\ ~(s2 > s1)
  <2>1. s2 = s1 \/ d2 = 0
    BY <1>0, <1>1, <1>4
  <2> QED BY <1>0, <1>1, <1>4, <2>1
<1> QED BY <1>2, <1>3, <1>4

\* What a return, and what a report, makes of a copy.
LEMMA ReceiveKey ==
  ASSUME NEW c, NEW ret, WellDealt(c), WellDealt(ret), c.orderId = ret.orderId,
         c.side = ret.side, c.orderSize = ret.orderSize
  PROVE  LET r == Receive(c, ret) IN
         /\ r.orderStatus = IF ret.orderStatus > c.orderStatus /\ ~closed(c)
                            THEN ret.orderStatus ELSE c.orderStatus
         /\ Abs(r.dealSize) = IF Abs(ret.dealSize) > Abs(c.dealSize)
                              THEN Abs(ret.dealSize) ELSE Abs(c.dealSize)
<1> DEFINE new == ReportOf(ret)
           r == updateByOrderInfoFromTDGW(c, new)
<1>1. /\ c \in Order /\ c.dealSize \in Int /\ ret.dealSize \in Int
      /\ Abs(ret.dealSize) <= c.orderSize
  BY DEF WellDealt, Order
<1>2. /\ new.dealSize = ret.dealSize /\ new.orderStatus = ret.orderStatus
      /\ new.avgPriced = (ret.dealSize # 0)
  BY DEF ReportOf
<1> HIDE DEF new
<1>3. /\ r.orderStatus = IF StatusAdvances(c, new) THEN new.orderStatus ELSE c.orderStatus
      /\ r.dealSize = IF DealSizeIsValid(c, new) THEN new.dealSize ELSE c.dealSize
  BY <1>1 DEF updateByOrderInfoFromTDGW, WithStaticFields, Order
<1>4. Receive(c, ret) = r
  BY DEF Receive, new
<1> HIDE DEF r
<1>5. r.orderStatus = IF ret.orderStatus > c.orderStatus /\ ~closed(c)
                      THEN ret.orderStatus ELSE c.orderStatus
  BY <1>2, <1>3 DEF StatusAdvances
<1>6. DealSizeIsValid(c, new) <=> Abs(ret.dealSize) > Abs(c.dealSize)
  <2>1. Abs(ret.dealSize) > Abs(c.dealSize) => ret.dealSize # 0
    BY <1>1 DEF Abs
  <2>2. DealSizeIsValid(c, new) <=> Abs(ret.dealSize) > Abs(c.dealSize) /\ ret.dealSize # 0
    BY <1>1, <1>2 DEF DealSizeIsValid
  <2> QED BY <2>1, <2>2
<1>7. r.dealSize = IF Abs(ret.dealSize) > Abs(c.dealSize) THEN ret.dealSize ELSE c.dealSize
  BY <1>2, <1>3, <1>6
<1> QED BY <1>4, <1>5, <1>7

LEMMA MergeKey ==
  ASSUME NEW s, NEW o, NEW new, IsCopy(s, o), IsReturn(s, new), o.orderId = new.orderId,
         new.dealSize # 0 => new.avgPriced
  PROVE  LET p == updateByOrderInfoFromExch(o, new) IN
         /\ p.orderStatus = IF new.orderStatus > o.orderStatus /\ ~closed(o)
                            THEN new.orderStatus ELSE o.orderStatus
         /\ Abs(p.dealSize) = IF new.dealSize > Abs(o.dealSize)
                              THEN new.dealSize ELSE Abs(o.dealSize)
         /\ ~IsSomeFieldOfOrderUpdated(o, new) =>
              p.orderStatus = o.orderStatus /\ Abs(p.dealSize) = Abs(o.dealSize)
<1> DEFINE p == updateByOrderInfoFromExch(o, new)
<1>1. /\ o \in Order /\ o.dealSize \in Int /\ new.dealSize \in Nat /\ o.side \in {"Bid", "Ask"}
      /\ new.dealSize <= o.orderSize /\ ~IsRtnTrade(new)
  BY DEF IsCopy, IsReturn, WellDealt, Order, IsRtnTrade
<1>2. /\ p.orderStatus = IF StatusAdvances(o, new) THEN new.orderStatus ELSE o.orderStatus
      /\ p.dealSize = IF DealSizeIsValid(o, new) THEN Signed(o.side, new.dealSize)
                      ELSE o.dealSize
  BY <1>1 DEF updateByOrderInfoFromExch, WithStaticFields, Order, DealSizeFromExch, StatusFromExch
<1> HIDE DEF p
<1>3. Abs(Signed(o.side, new.dealSize)) = new.dealSize /\ Abs(new.dealSize) = new.dealSize
  BY <1>1 DEF Signed, Abs
<1>4. DealSizeIsValid(o, new) <=> new.dealSize > Abs(o.dealSize)
  <2>1. new.dealSize > Abs(o.dealSize) => new.dealSize # 0
    BY <1>1 DEF Abs
  <2>2. DealSizeIsValid(o, new) <=> new.dealSize > Abs(o.dealSize) /\ new.avgPriced
    BY <1>1, <1>3 DEF DealSizeIsValid
  <2> QED BY <2>1, <2>2
<1>5. Abs(p.dealSize) = IF DealSizeIsValid(o, new) THEN new.dealSize ELSE Abs(o.dealSize)
  BY <1>2, <1>3
<1>6. ~IsSomeFieldOfOrderUpdated(o, new) => ~StatusAdvances(o, new) /\ ~DealSizeIsValid(o, new)
  BY DEF IsSomeFieldOfOrderUpdated
<1>7. StatusAdvances(o, new) <=> new.orderStatus > o.orderStatus /\ ~closed(o)
  BY DEF StatusAdvances
<1>8. p.orderStatus = IF new.orderStatus > o.orderStatus /\ ~closed(o)
                      THEN new.orderStatus ELSE o.orderStatus
  BY <1>2, <1>7
<1>9. Abs(p.dealSize) = IF new.dealSize > Abs(o.dealSize) THEN new.dealSize ELSE Abs(o.dealSize)
  BY <1>4, <1>5
<1>10. ~IsSomeFieldOfOrderUpdated(o, new) =>
         p.orderStatus = o.orderStatus /\ Abs(p.dealSize) = Abs(o.dealSize)
  BY <1>2, <1>5, <1>6
<1> QED BY <1>8, <1>9, <1>10 DEF p

-----------------------------------------------------------------------------
\* The exchange takes nothing back, and what is over there stays so.
LEMMA DealtGrows ==
  ASSUME IInv, EndInv, UndealtYet, [Next]_vars
  PROVE  /\ UndealtYet'
         /\ \A id \in OrderId : /\ exch[id].dealt \in Nat /\ exch'[id].dealt \in Nat
                                /\ exch[id].dealt <= exch'[id].dealt
<1> DEFINE P == /\ UndealtYet'
                /\ \A id \in OrderId : /\ exch[id].dealt \in Nat /\ exch'[id].dealt \in Nat
                                       /\ exch[id].dealt <= exch'[id].dealt
<1>0. /\ exch \in [OrderId -> [status : ExchStatus, dealt : Nat]]
      /\ \A id \in OrderId : exch[id].dealt \in Nat
      /\ RequestsOK
  BY DEF IInv, ExchOK, EndInv
<1>1. ASSUME exch' = exch PROVE P
  BY <1>0, <1>1 DEF UndealtYet
<1>2. ASSUME NEW x \in OrderId, NEW e, exch' = [exch EXCEPT ![x] = e], e.dealt \in Nat,
             exch[x].dealt <= e.dealt, e.status \in {"absent", "rejected"} => e.dealt = 0
      PROVE  P
  <2>1. exch'[x] = e /\ \A id \in OrderId \ {x} : exch'[id] = exch[id]
    BY <1>0, <1>2
  <2> QED BY <1>0, <1>2, <2>1 DEF UndealtYet
<1>3. CASE UNCHANGED vars
  BY <1>1, <1>3 DEF vars
<1>4. ASSUME NEW x \in OrderId, NEW side \in Side, NEW size \in Size,
             \/ RefuseOrder(x, side, size) \/ OnOrder(x, side, size)
             \/ OnOrderNotSent(x, side, size)
      PROVE  P
  BY <1>1, <1>4 DEF RefuseOrder, OnOrder, OnOrderNotSent
<1>5. ASSUME NEW x \in OrderId,
             \/ OnCancelOrder(x) \/ QueryOrder(x) \/ QueryRefused(x) \/ QueryFails(x)
             \/ HandleRspOfOrder(x) \/ ConnectionBreaks(x)
      PROVE  P
  BY <1>1, <1>5 DEF OnCancelOrder, QueryOrder, QueryRefused, QueryFails, HandleRspOfOrder,
     ConnectionBreaks
<1>6. ASSUME NEW x \in OrderId, ExchTakesOrder(x) \/ ExchRefusesOrder(x) PROVE P
  <2>1. exch[x].dealt = 0
    BY <1>0, <1>6 DEF ExchTakesOrder, ExchRefusesOrder, RequestsOK, UndealtYet
  <2>2. CASE ExchTakesOrder(x)
    <3> DEFINE e == [status |-> "live", dealt |-> 0]
    <3>1. exch' = [exch EXCEPT ![x] = e]
      BY <2>2 DEF ExchTakesOrder, Moves
    <3>2. e.dealt \in Nat /\ exch[x].dealt <= e.dealt /\ e.dealt = 0
      BY <2>1
    <3> HIDE DEF e
    <3> QED BY <1>2, <3>1, <3>2
  <2>3. CASE ExchRefusesOrder(x)
    <3> DEFINE e == [exch[x] EXCEPT !.status = "rejected"]
    <3>1. exch' = [exch EXCEPT ![x] = e]
      BY <2>3 DEF ExchRefusesOrder
    <3>2. e.dealt \in Nat /\ exch[x].dealt <= e.dealt /\ e.dealt = 0
      BY <1>0, <2>1
    <3> HIDE DEF e
    <3> QED BY <1>2, <3>1, <3>2
  <2> QED BY <1>6, <2>2, <2>3
<1>7. ASSUME NEW x \in OrderId, ExchDeals(x) PROVE P
  <2> DEFINE dealt == exch[x].dealt + 1
             st == IF dealt = srv[x].orderSize THEN "filled" ELSE "live"
             e == [status |-> st, dealt |-> dealt]
  <2>1. exch' = [exch EXCEPT ![x] = e]
    BY <1>7 DEF ExchDeals, Moves
  <2>2. st \notin {"absent", "rejected"} /\ dealt \in Nat /\ exch[x].dealt <= dealt
    BY <1>0
  <2> HIDE DEF st, dealt
  <2>3. e.status = st /\ e.dealt = dealt
    OBVIOUS
  <2> HIDE DEF e
  <2> QED BY <1>2, <2>1, <2>2, <2>3
<1>8. ASSUME NEW x \in OrderId, NEW st \in {"canceled", "expired"},
             Moves(x, [exch[x] EXCEPT !.status = st])
      PROVE  P
  <2> DEFINE e == [exch[x] EXCEPT !.status = st]
  <2>1. exch' = [exch EXCEPT ![x] = e]
    BY <1>8 DEF Moves
  <2>2. e.status \notin {"absent", "rejected"} /\ e.dealt = exch[x].dealt
    BY <1>0
  <2> HIDE DEF e
  <2>3. e.dealt \in Nat /\ exch[x].dealt <= e.dealt
    BY <1>0, <2>2
  <2>4. e.status \in {"absent", "rejected"} => e.dealt = 0
    BY <2>2
  <2> HIDE DEF P
  <2> QED BY <1>2, <2>1, <2>3, <2>4
<1>9. ASSUME NEW x \in OrderId, ExchCancels(x) \/ ExchExpires(x) PROVE P
  BY <1>8, <1>9 DEF ExchCancels, ExchExpires
<1>10. ASSUME NEW t \in Thread, SendRet(t) \/ CacheSyncTask(t) PROVE P
  BY <1>1, <1>10 DEF SendRet, CacheSyncTask
<1>11. CASE \/ HandleWS \/ SyncUnclosedOrders \/ HandleSyncTaskGroup \/ ExecSQL
            \/ Crash \/ Restart
  BY <1>1, <1>11 DEF HandleWS, SyncUnclosedOrders, HandleSyncTaskGroup, ExecSQL, Crash,
     Restart
<1> QED BY <1>3, <1>4, <1>5, <1>6, <1>7, <1>9, <1>10, <1>11 DEF Next

LEMMA NeverLiveStays ==
  ASSUME IInv, EndInv, [Next]_vars, NEW id \in OrderId, Known(srv[id]), NeverLive(id)
  PROVE  exch'[id] = exch[id] /\ NeverLive(id)'
<1>1. CASE FinishedAtExch(id)
  <2>1. http[id] \notin {"request", "lost"} /\ exch[id].status # "live"
    BY <1>1 DEF FinishedAtExch, EndInv, RequestsOK
  <2>2. exch'[id] = exch[id]
    BY <2>1, WorldStep
  <2> QED BY <1>1, <2>2 DEF NeverLive, FinishedAtExch
<1>2. CASE exch[id].status = "absent" /\ http[id] \notin {"request", "lost"}
  <2>1. exch'[id] = exch[id] /\ http'[id] \notin {"request", "lost"}
    BY <1>2, WorldStep
  <2> QED BY <1>2, <2>1 DEF NeverLive
<1> QED BY <1>1, <1>2 DEF NeverLive

\* What was truthful of an order stays so.
LEMMA TruthStays ==
  ASSUME IInv, EndInv, UndealtYet, [Next]_vars, NEW id \in OrderId, Known(srv[id]),
         NEW s, NEW d \in Nat, SaysTruth(id, s, d)
  PROVE  SaysTruth(id, s, d)'
<1>1. exch[id].dealt \in Nat /\ exch'[id].dealt \in Nat /\ exch[id].dealt <= exch'[id].dealt
  BY DealtGrows
<1>2. d \in 0 .. exch'[id].dealt
  BY <1>1 DEF SaysTruth
<1>3. CASE s >= Filled
  <2>1. exch'[id] = exch[id] /\ NeverLive(id)'
    BY <1>3, NeverLiveStays DEF SaysTruth
  <2> QED BY <1>2, <2>1 DEF SaysTruth
<1>4. CASE ~(s >= Filled)
  BY <1>2, <1>4 DEF SaysTruth
<1> QED BY <1>3, <1>4

LEMMA TruthfulStays ==
  ASSUME IInv, EndInv, UndealtYet, [Next]_vars, NEW x, x.orderId \in OrderId,
         Known(srv[x.orderId]), Abs(x.dealSize) \in Nat, Truthful(x)
  PROVE  Truthful(x)'
<1>1. misled \subseteq misled'
  BY WorldStep
<1>2. x.orderId \notin misled => SaysTruth(x.orderId, x.orderStatus, Abs(x.dealSize))'
  BY TruthStays DEF Truthful
<1> QED BY <1>1, <1>2 DEF Truthful

\* What a step adds to the copies and to the reports must be truthful.
LEMMA TruthStep ==
  ASSUME IInv, EndInv, UndealtYet, [Next]_vars, AllTruthful,
         \A x \in (Sent \cup Held \cup Sending \cup Carried)' :
           x \in Sent \cup Held \cup Sending \cup Carried \/ Truthful(x)',
         \A r \in Reports' :
           r \in Reports \/ (Truthful(r)' /\ (r.dealSize # 0 => r.avgPriced))
  PROVE  AllTruthful'
<1>1. ASSUME NEW x \in Sent \cup Held \cup Sending \cup Carried PROVE Truthful(x)'
  <2>1. /\ IsCopy(srv, x) /\ x \in Order /\ x.orderId \in OrderId /\ Truthful(x)
    BY CopiesAreKnown DEF AllTruthful
  <2>2. Abs(x.dealSize) \in Nat /\ Known(srv[x.orderId])
    BY <2>1, DealtIsNat DEF IsCopy
  <2> QED BY <2>1, <2>2, TruthfulStays
<1>2. ASSUME NEW r \in Reports PROVE Truthful(r)' /\ (r.dealSize # 0 => r.avgPriced)
  <2>1. IsReturn(srv, r) /\ Truthful(r) /\ (r.dealSize # 0 => r.avgPriced)
    BY CopiesAreKnown DEF AllTruthful
  <2>2. /\ r.orderId \in OrderId /\ Known(srv[r.orderId]) /\ Abs(r.dealSize) \in Nat
    BY <2>1 DEF IsReturn, Abs
  <2> QED BY <2>1, <2>2, TruthfulStays
<1> QED BY <1>1, <1>2 DEF AllTruthful

\* ... and if it leaves the rest alone, nothing else can go wrong.
LEMMA JoinFrame ==
  ASSUME HeldIsJoin, srv' = srv, ordMgr' = ordMgr, Sending' = Sending
  PROVE  HeldIsJoin' /\ Held' = Held
BY DEF HeldIsJoin, JoinOf, Held

LEMMA CarryFrame ==
  ASSUME NotAhead, SomeAgrees, srv' = srv, Carried' = Carried, misled \subseteq misled'
  PROVE  NotAhead' /\ SomeAgrees'
BY DEF NotAhead, SomeAgrees

\* What a step of thread t does to the copies that threads hold.
LEMMA ThreadSets ==
  ASSUME IInv, NEW t \in Thread, NEW r, thread' = [thread EXCEPT ![t] = r]
  PROVE  /\ thread[t].pc # "send" => Sending \subseteq Sending'
         /\ thread[t].pc = "send" => Sending \subseteq Sending' \cup {thread[t].ret}
         /\ r.pc # "send" => Sending' \subseteq Sending
         /\ r.pc = "send" => Sending' \subseteq Sending \cup {r.ret} /\ r.ret \in Sending'
         /\ thread[t].pc # "cache" => Cached \subseteq Cached'
         /\ thread[t].pc = "cache" => Cached \subseteq Cached' \cup {thread[t].ret}
         /\ r.pc # "cache" => Cached' \subseteq Cached
         /\ r.pc = "cache" => Cached' \subseteq Cached \cup {r.ret} /\ r.ret \in Cached'
<1>1. thread'[t] = r /\ \A u \in Thread \ {t} : thread'[u] = thread[u]
  BY DEF IInv, ThreadOK
<1> QED BY <1>1 DEF Sending, Cached

\* What a queue holds.
LEMMA QueueHolds ==
  ASSUME NEW S, NEW q \in Seq(S)
  PROVE  /\ \A o \in S : Elems(Append(q, o)) = Elems(q) \cup {o}
         /\ \A r \in Seq(S) : Elems(q \o r) = Elems(q) \cup Elems(r)
         /\ q # << >> => Elems(q) = Elems(Tail(q)) \cup {Head(q)}
         /\ Elems(<< >>) = {}
<1>1. ASSUME NEW o \in S PROVE Elems(Append(q, o)) = Elems(q) \cup {o}
  <2>1. /\ Len(Append(q, o)) = Len(q) + 1 /\ Append(q, o)[Len(q) + 1] = o
        /\ \A i \in 1 .. Len(q) : Append(q, o)[i] = q[i]
        /\ Len(q) \in Nat
    OBVIOUS
  <2>2. 1 .. Len(q) + 1 = 1 .. Len(q) \cup {Len(q) + 1}
    BY <2>1
  <2> QED BY <2>1, <2>2 DEF Elems
<1>2. ASSUME NEW r \in Seq(S) PROVE Elems(q \o r) = Elems(q) \cup Elems(r)
  <2>1. /\ Len(q \o r) = Len(q) + Len(r) /\ Len(q) \in Nat /\ Len(r) \in Nat
        /\ \A i \in 1 .. Len(q) : (q \o r)[i] = q[i]
        /\ \A i \in 1 .. Len(r) : (q \o r)[Len(q) + i] = r[i]
    OBVIOUS
  <2>2. \A i \in 1 .. Len(q \o r) :
          i \in 1 .. Len(q) \/ \E j \in 1 .. Len(r) : i = Len(q) + j
    <3> SUFFICES ASSUME NEW i \in 1 .. Len(q \o r), i \notin 1 .. Len(q)
                 PROVE  \E j \in 1 .. Len(r) : i = Len(q) + j
      OBVIOUS
    <3>1. i - Len(q) \in 1 .. Len(r) /\ i = Len(q) + (i - Len(q))
      BY <2>1
    <3> QED BY <3>1
  <2>3. /\ \A i \in 1 .. Len(q) : i \in 1 .. Len(q \o r)
        /\ \A j \in 1 .. Len(r) : Len(q) + j \in 1 .. Len(q \o r)
    BY <2>1
  <2> QED BY <2>1, <2>2, <2>3 DEF Elems
<1>3. ASSUME q # << >> PROVE Elems(q) = Elems(Tail(q)) \cup {Head(q)}
  <2>1. /\ Len(q) \in Nat /\ Len(q) >= 1 /\ Head(q) = q[1] /\ Len(Tail(q)) = Len(q) - 1
        /\ \A i \in 1 .. Len(q) - 1 : Tail(q)[i] = q[i + 1]
    BY <1>3
  <2>2. \A i \in 1 .. Len(q) : i = 1 \/ (i - 1 \in 1 .. Len(q) - 1 /\ i = (i - 1) + 1)
    BY <2>1
  <2>3. 1 \in 1 .. Len(q) /\ \A i \in 1 .. Len(q) - 1 : i + 1 \in 1 .. Len(q)
    BY <2>1
  <2> QED BY <2>1, <2>2, <2>3 DEF Elems
<1>4. Elems(<< >>) = {}
  BY DEF Elems
<1> QED BY <1>1, <1>2, <1>3, <1>4

LEMMA BelowIsTransitive ==
  ASSUME NEW a \in Order, NEW b \in Order, NEW c \in Order, Below(a, b), Below(b, c)
  PROVE  Below(a, c)
<1>1. /\ Abs(a.dealSize) \in Nat /\ Abs(b.dealSize) \in Nat /\ Abs(c.dealSize) \in Nat
      /\ a.orderStatus \in Nat /\ b.orderStatus \in Nat /\ c.orderStatus \in Nat
  BY DealtIsNat
<1> QED BY <1>1 DEF Below, closed

\* Sizes of one sign that are equal but for it are equal.
LEMMA SameDeal ==
  ASSUME NEW a, NEW b, WellDealt(a), WellDealt(b), a.side = b.side,
         Abs(a.dealSize) = Abs(b.dealSize)
  PROVE  a.dealSize = b.dealSize
BY DEF WellDealt, Signed

\* A copy is put back higher: thread t is about to send it, or nothing changed.
LEMMA JoinMore ==
  ASSUME NEW id \in OrderId, NEW o \in Order, NEW p \in Order, JoinOf(id, o), Below(o, p),
         srv' = srv, srv[id] \in Order, Sending \subseteq Order, p.orderId = id,
         Sending' \subseteq Sending \cup {p}, Sending \subseteq Sending',
         \/ p \in Sending'
         \/ /\ p.orderStatus = o.orderStatus /\ Abs(p.dealSize) = Abs(o.dealSize)
  PROVE  JoinOf(id, p)'
<1>1. Below(srv[id], p) /\ \A q \in Sending : q.orderId = id => Below(q, p)
  BY BelowIsTransitive DEF JoinOf
<1>2. Below(p, p)
  BY DealtIsNat DEF Below
<1>3. \A q \in Sending' : q.orderId = id => Below(q, p)
  BY <1>1, <1>2
<1>4. CASE p \in Sending'
  BY <1>1, <1>3, <1>4 DEF JoinOf
<1>5. CASE p.orderStatus = o.orderStatus /\ Abs(p.dealSize) = Abs(o.dealSize)
  BY <1>1, <1>3, <1>5 DEF JoinOf
<1> QED BY <1>4, <1>5

\* A truthful report is merged.
LEMMA MergeRests ==
  ASSUME IInv, EndInv, UndealtYet, Rest, [Next]_vars, NEW t \in Thread, thread[t] = Idle,
         NEW new, IsReturn(srv, new), new.dealSize # 0 => new.avgPriced, Truthful(new),
         Merge(t, new), UNCHANGED <<srv, syncTasks, dbQueue, db>>, Reports' \subseteq Reports
  PROVE  Rest'
<1> DEFINE x == new.orderId
           o == CopyOf(ordMgr, x)
           merged == updateByOrderInfoFromExch(o, new)
           updated == IsSomeFieldOfOrderUpdated(o, new)
<1>0. HeldIsJoin /\ AllTruthful /\ NotAhead /\ SomeAgrees /\ misled \subseteq misled'
  BY WorldStep DEF Rest, Truthful, IsReturn
<1>1. /\ GoodGroup(ordMgr) /\ x \in OrderId /\ x # Unset /\ new \in Report
      /\ new.dealSize \in Nat /\ new.orderStatus \in OrderStatus
  BY OrderIdAssumption DEF IInv, GroupOK, IsReturn, Unset, Report
<1>2. ordMgr' = UpdateFromExch(ordMgr, new)
  BY DEF Merge
<1>3. /\ x \notin HeldIds(ordMgr) => ordMgr' = ordMgr
      /\ HeldIds(ordMgr') \subseteq HeldIds(ordMgr)
      /\ \A id \in HeldIds(ordMgr') :
           CopyOf(ordMgr', id) = IF id = x THEN merged ELSE CopyOf(ordMgr, id)
  BY <1>1, <1>2, UpdateCopies
<1>4. thread[t].pc = "idle" /\ Idle.pc = "idle"
  BY DEF Idle
<1>5. Sent' = Sent /\ Elems(syncTasks)' = Elems(syncTasks) /\ Elems(dbQueue)' = Elems(dbQueue)
      /\ Stored' = Stored
  BY DEF Sent, Elems, Stored
<1>6. CASE x \notin HeldIds(ordMgr)
  <2>1. thread' = [thread EXCEPT ![t] = Idle]
    BY <1>1, <1>6, LookupIsCopy DEF Merge
  <2>2. Sending' = Sending /\ Cached' = Cached
    BY <1>4, <2>1, ThreadSets
  <2>3. HeldIsJoin' /\ Held' = Held
    BY <1>0, <1>3, <1>6, <2>2, JoinFrame
  <2>4. Carried' = Carried
    BY <1>5, <2>2 DEF Carried
  <2>5. AllTruthful'
    BY <1>0, <1>5, <2>2, <2>3, <2>4, TruthStep
  <2> QED BY <1>0, <2>3, <2>4, <2>5, CarryFrame DEF Rest
<1>7. CASE x \in HeldIds(ordMgr)
  <2>0. PICK p : p = merged
    OBVIOUS
  <2>1. o \in Held /\ o.orderId = x /\ JoinOf(x, o)
    BY <1>0, <1>1, <1>7, CopyIs DEF Held, HeldIsJoin
  <2>2. Lookup(ordMgr, new) = o /\ Found(ordMgr, new)
    BY <1>1, <1>7, LookupIsCopy
  <2> DEFINE r == IF updated THEN [pc |-> "send", ret |-> p] ELSE Idle
  <2>3. thread' = [thread EXCEPT ![t] = r]
    BY <2>0, <2>2 DEF Merge
  <2>4. IF updated THEN r.pc = "send" /\ r.ret = p ELSE r.pc = "idle"
    BY <1>4
  <2> HIDE DEF r, o
  <2>5. IsCopy(srv, o) /\ o \in Order /\ Truthful(o)
    BY <1>0, <2>1, CopiesAreKnown DEF AllTruthful
  <2>6. /\ p.orderStatus = IF new.orderStatus > o.orderStatus /\ ~closed(o)
                           THEN new.orderStatus ELSE o.orderStatus
        /\ Abs(p.dealSize) = IF new.dealSize > Abs(o.dealSize)
                             THEN new.dealSize ELSE Abs(o.dealSize)
        /\ ~updated => p.orderStatus = o.orderStatus /\ Abs(p.dealSize) = Abs(o.dealSize)
    BY <2>0, <2>1, <2>5, MergeKey
  <2>7. IsCopy(srv, p) /\ p \in Order /\ p.orderId = x
    BY <2>0, <2>1, <2>5, MergeCopy
  <2> HIDE DEF merged, updated
  <2>8. Abs(o.dealSize) \in Nat /\ o.orderStatus \in Nat /\ new.orderStatus \in Nat
    BY <1>1, <2>5, DealtIsNat, StatusIsNat
  <2>9. Below(o, p)
    BY <1>1, <2>6, <2>8 DEF Below
  <2>10. Truthful(p)
    <3> SUFFICES ASSUME x \notin misled PROVE SaysTruth(x, p.orderStatus, Abs(p.dealSize))
      BY <2>7 DEF Truthful
    <3>1. SaysTruth(x, o.orderStatus, Abs(o.dealSize))
      BY <2>1, <2>5 DEF Truthful
    <3>2. SaysTruth(x, new.orderStatus, new.dealSize)
      BY <1>1 DEF Truthful, Abs
    <3>3. o.orderStatus \in OrderStatus /\ exch[x].dealt \in Nat
      BY <1>1, <2>5 DEF Order, IInv, ExchOK
    <3>4. \/ p.orderStatus = o.orderStatus /\ Abs(p.dealSize) = Abs(o.dealSize)
          \/ p.orderStatus = new.orderStatus /\ Abs(p.dealSize) = new.dealSize
      BY <1>1, <2>6, <2>8, <3>1, <3>2, <3>3, LaterOfTwo DEF closed
    <3> QED BY <3>1, <3>2, <3>4
  <2>11. Truthful(p)'
    <3>1. Known(srv[x]) /\ Abs(p.dealSize) \in Nat
      BY <1>1, <2>7, DealtIsNat DEF IsReturn
    <3> QED BY <1>1, <2>7, <2>10, <3>1, TruthfulStays
  <2>12. /\ Sending \subseteq Sending' /\ Sending' \subseteq Sending \cup {p}
         /\ updated => p \in Sending'
         /\ Cached' = Cached
    BY <1>4, <2>3, <2>4, ThreadSets
  <2>13. Carried' = Carried
    BY <1>5, <2>12 DEF Carried
  <2>14. HeldIsJoin'
    <3> SUFFICES ASSUME NEW id \in HeldIds(ordMgr'), NEW h, h = CopyOf(ordMgr', id)
                 PROVE  JoinOf(id, h)'
      BY DEF HeldIsJoin
    <3>1. CASE id = x
      <4>1. h = p
        BY <1>3, <2>0, <3>1
      <4>2. Sending \subseteq Order /\ srv[x] \in Order
        BY <1>1, CopiesAreKnown DEF IsReturn, Sent
      <4>3. JoinOf(x, p)'
        BY <1>1, <2>1, <2>5, <2>6, <2>7, <2>9, <2>12, <4>2, JoinMore
      <4> QED BY <3>1, <4>1, <4>3
    <3>2. CASE id # x
      <4>1. JoinOf(id, h)
        BY <1>0, <1>3, <3>2 DEF HeldIsJoin
      <4> QED BY <2>7, <2>12, <3>2, <4>1 DEF JoinOf
    <3> QED BY <3>1, <3>2
  <2>15. Held' \subseteq Held \cup {p}
    BY <1>3, <2>0 DEF Held
  <2>16. AllTruthful'
    BY <1>0, <1>5, <2>11, <2>12, <2>13, <2>15, TruthStep
  <2> QED BY <1>0, <2>13, <2>14, <2>16, CarryFrame DEF Rest
<1> QED BY <1>6, <1>7

\* What a thread has merged is sent: it is truthful, so the trade server has
\* what it had or what it is sent.
LEMMA SendRests ==
  ASSUME IInv, EndInv, UndealtYet, Rest, [Next]_vars, NEW t \in Thread, SendRet(t)
  PROVE  Rest'
<1>0. HeldIsJoin /\ AllTruthful /\ NotAhead /\ SomeAgrees
  BY DEF Rest
<1>1. PICK ret : ret = thread[t].ret
  OBVIOUS
<1> DEFINE x == ret.orderId
<1>2. PICK c : c = srv[x]
  OBVIOUS
<1>3. PICK r : r = Receive(c, ret)
  OBVIOUS
<1>4. /\ thread[t].pc = "send" /\ srv' = [srv EXCEPT ![x] = r]
      /\ thread' = [thread EXCEPT ![t].pc = "cache"]
      /\ UNCHANGED <<exch, ordMgr, syncTasks, http, wsQueue, dbQueue, db, misled>>
  BY <1>1, <1>2, <1>3 DEF SendRet
<1>5. ret \in Sending
  BY <1>1, <1>4 DEF Sending
<1>6. /\ IsCopy(srv, ret) /\ ret \in Order /\ x \in OrderId /\ Truthful(ret)
      /\ Known(c) /\ c \in Sent
  BY <1>0, <1>2, <1>5, CopiesAreKnown DEF AllTruthful, IsCopy, Sent
<1>7. /\ WellDealt(c) /\ WellDealt(ret) /\ c \in Order /\ c.orderId = x /\ Truthful(c)
      /\ c.side = ret.side /\ c.orderSize = ret.orderSize
  BY <1>0, <1>2, <1>6 DEF IInv, SrvOK, WellDealt, IsCopy, AllTruthful
<1>8. /\ r.orderStatus = IF ret.orderStatus > c.orderStatus /\ ~closed(c)
                         THEN ret.orderStatus ELSE c.orderStatus
      /\ Abs(r.dealSize) = IF Abs(ret.dealSize) > Abs(c.dealSize)
                           THEN Abs(ret.dealSize) ELSE Abs(c.dealSize)
      /\ WellDealt(r) /\ r \in Order /\ r.orderId = x /\ r.side = c.side
  BY <1>3, <1>7, ReceiveKey, ReceiveGood DEF WellDealt
<1>9. srv'[x] = r /\ \A id \in OrderId \ {x} : srv'[id] = srv[id]
  BY <1>4, <1>6 DEF IInv, SrvOK
<1>10. /\ Sending' \subseteq Sending /\ Sending \subseteq Sending' \cup {ret}
       /\ Cached \subseteq Cached' /\ Cached' \subseteq Cached \cup {ret} /\ ret \in Cached'
  <2> DEFINE n == [thread[t] EXCEPT !.pc = "cache"]
  <2>1. thread' = [thread EXCEPT ![t] = n] /\ n.pc = "cache" /\ n.ret = ret
    BY <1>1, <1>4 DEF IInv, ThreadOK
  <2> HIDE DEF n
  <2> QED BY <1>1, <1>4, <2>1, ThreadSets
<1>11. Elems(syncTasks)' = Elems(syncTasks) /\ Elems(dbQueue)' = Elems(dbQueue)
       /\ Stored' = Stored /\ Reports' = Reports /\ Held' = Held
  BY <1>4 DEF Elems, Stored, Reports, Held
<1>12. Carried \subseteq Carried' /\ Carried' \subseteq Carried \cup {ret} /\ ret \in Carried'
  BY <1>10, <1>11 DEF Carried
<1>13. /\ Abs(c.dealSize) \in Nat /\ c.orderStatus \in Nat
       /\ Abs(ret.dealSize) \in Nat /\ ret.orderStatus \in Nat
       /\ Abs(r.dealSize) \in Nat /\ r.orderStatus \in Nat
  BY <1>6, <1>7, <1>8, DealtIsNat
<1>14. x \notin misled =>
         /\ \/ r.orderStatus = c.orderStatus /\ Abs(r.dealSize) = Abs(c.dealSize)
            \/ r.orderStatus = ret.orderStatus /\ Abs(r.dealSize) = Abs(ret.dealSize)
         /\ ret.orderStatus <= r.orderStatus
  <2> SUFFICES ASSUME x \notin misled
               PROVE  /\ \/ r.orderStatus = c.orderStatus /\ Abs(r.dealSize) = Abs(c.dealSize)
                         \/ r.orderStatus = ret.orderStatus /\ Abs(r.dealSize) = Abs(ret.dealSize)
                      /\ ret.orderStatus <= r.orderStatus
    OBVIOUS
  <2>1. SaysTruth(x, c.orderStatus, Abs(c.dealSize))
        /\ SaysTruth(x, ret.orderStatus, Abs(ret.dealSize))
    BY <1>6, <1>7 DEF Truthful
  <2>2. c.orderStatus \in OrderStatus /\ ret.orderStatus \in OrderStatus
        /\ exch[x].dealt \in Nat
    BY <1>6, <1>7 DEF Order, IInv, ExchOK
  <2>3. \/ r.orderStatus = c.orderStatus /\ Abs(r.dealSize) = Abs(c.dealSize)
        \/ r.orderStatus = ret.orderStatus /\ Abs(r.dealSize) = Abs(ret.dealSize)
    BY <1>6, <1>8, <1>13, <2>1, <2>2, LaterOfTwo DEF closed
  <2>4. ret.orderStatus <= r.orderStatus
    <3>1. closed(c) /\ closed(ret) => ret.orderStatus = c.orderStatus
      BY <2>1 DEF SaysTruth, closed
    <3> QED BY <1>8, <1>13, <3>1 DEF closed, Filled
  <2> QED BY <2>3, <2>4
<1>15. Truthful(r)'
  <2>1. Truthful(r)
    BY <1>6, <1>7, <1>8, <1>14 DEF Truthful
  <2>2. Known(srv[x])
    BY <1>2, <1>6
  <2> QED BY <1>6, <1>8, <1>13, <2>1, <2>2, TruthfulStays
<1>16. AllTruthful'
  <2>1. Sent' \subseteq Sent \cup {r}
    BY <1>9 DEF Sent
  <2> QED BY <1>0, <1>5, <1>10, <1>11, <1>12, <1>15, <2>1, TruthStep
<1>17. HeldIsJoin'
  <2> SUFFICES ASSUME NEW id \in HeldIds(ordMgr), NEW h, h = CopyOf(ordMgr, id)
               PROVE  JoinOf(id, h)'
    BY <1>4 DEF HeldIsJoin
  <2>1. JoinOf(id, h) /\ h \in Order /\ id \in OrderId
    BY <1>0, CopyIs DEF HeldIsJoin, IInv, GroupOK
  <2>2. CASE id # x
    BY <1>9, <1>10, <2>1, <2>2 DEF JoinOf
  <2>3. CASE id = x
    <3>1. Below(c, h) /\ Below(ret, h) /\ Abs(h.dealSize) \in Nat /\ h.orderStatus \in Nat
      BY <1>2, <1>5, <2>1, <2>3, DealtIsNat DEF JoinOf
    <3>2. Below(r, h)
      BY <1>8, <3>1 DEF Below, closed
    <3>3. r.orderStatus = h.orderStatus
          \/ \E p \in Sending' : p.orderId = x /\ p.orderStatus = h.orderStatus
      <4>1. \/ c.orderStatus = h.orderStatus \/ ret.orderStatus = h.orderStatus
            \/ \E p \in Sending' : p.orderId = x /\ p.orderStatus = h.orderStatus
        BY <1>2, <1>10, <2>1, <2>3 DEF JoinOf
      <4>2. c.orderStatus = h.orderStatus \/ ret.orderStatus = h.orderStatus
              => r.orderStatus = h.orderStatus
        BY <1>8, <1>13, <3>1 DEF Below, closed
      <4> QED BY <4>1, <4>2
    <3>4. Abs(r.dealSize) = Abs(h.dealSize)
          \/ \E p \in Sending' : p.orderId = x /\ Abs(p.dealSize) = Abs(h.dealSize)
      <4>1. \/ Abs(c.dealSize) = Abs(h.dealSize) \/ Abs(ret.dealSize) = Abs(h.dealSize)
            \/ \E p \in Sending' : p.orderId = x /\ Abs(p.dealSize) = Abs(h.dealSize)
        BY <1>2, <1>10, <2>1, <2>3 DEF JoinOf
      <4>2. Abs(c.dealSize) = Abs(h.dealSize) \/ Abs(ret.dealSize) = Abs(h.dealSize)
              => Abs(r.dealSize) = Abs(h.dealSize)
        BY <1>8, <1>13, <3>1 DEF Below
      <4> QED BY <4>1, <4>2
    <3>5. \A p \in Sending' : p.orderId = x => Below(p, h)
      BY <1>10, <2>1, <2>3 DEF JoinOf
    <3> QED BY <1>9, <2>3, <3>2, <3>3, <3>4, <3>5 DEF JoinOf
  <2> QED BY <2>2, <2>3
<1>18. NotAhead'
  <2> SUFFICES ASSUME NEW y \in Carried', y.orderId \notin misled
               PROVE  y.orderStatus <= srv'[y.orderId].orderStatus
    BY <1>4 DEF NotAhead
  <2>1. CASE y \in Carried
    <3>1. y.orderStatus <= srv[y.orderId].orderStatus /\ y \in Order /\ y.orderId \in OrderId
      BY <1>0, <2>1, CopiesAreKnown DEF NotAhead
    <3>2. CASE y.orderId = x
      <4>1. c.orderStatus <= r.orderStatus /\ y.orderStatus \in Nat
        BY <1>8, <1>13, <3>1, DealtIsNat
      <4> QED BY <1>2, <1>9, <1>13, <3>1, <3>2, <4>1
    <3>3. CASE y.orderId # x
      BY <1>9, <3>1, <3>3
    <3> QED BY <3>2, <3>3
  <2>2. CASE y = ret
    BY <1>9, <1>14, <2>2
  <2> QED BY <1>12, <2>1, <2>2
<1>19. SomeAgrees'
  <2> SUFFICES ASSUME NEW id \in OrderId \ misled, Known(srv'[id])
               PROVE  \E y \in Carried' : y.orderId = id /\ Agree(srv'[id], y)
    BY <1>4 DEF SomeAgrees
  <2>1. CASE id # x
    BY <1>0, <1>9, <1>12, <2>1 DEF SomeAgrees
  <2>2. CASE id = x /\ r.orderStatus = ret.orderStatus /\ Abs(r.dealSize) = Abs(ret.dealSize)
    <3>1. r.dealSize = ret.dealSize
      BY <1>7, <1>8, <2>2, SameDeal
    <3> QED BY <1>9, <1>12, <2>2, <3>1 DEF Agree
  <2>3. CASE id = x /\ r.orderStatus = c.orderStatus /\ Abs(r.dealSize) = Abs(c.dealSize)
    <3>1. r.dealSize = c.dealSize
      BY <1>7, <1>8, <2>3, SameDeal
    <3>2. PICK y \in Carried : y.orderId = x /\ Agree(c, y)
      BY <1>0, <1>2, <1>6, <2>3 DEF SomeAgrees
    <3> QED BY <1>9, <1>12, <2>3, <3>1, <3>2 DEF Agree
  <2> QED BY <1>14, <2>1, <2>2, <2>3
<1> QED BY <1>16, <1>17, <1>18, <1>19 DEF Rest

\* What is queued, and handed to the DB thread, is on its way as before.
LEMMA QueueingRests ==
  ASSUME IInv, EndInv, UndealtYet, Rest, [Next]_vars,
         HandleSyncTaskGroup \/ \E t \in Thread : CacheSyncTask(t)
  PROVE  Rest'
<1>1. UNCHANGED <<srv, ordMgr, wsQueue, db, misled>>
  BY DEF HandleSyncTaskGroup, CacheSyncTask
<1>2. Sent' = Sent /\ Held' = Held /\ Stored' = Stored /\ Reports' = Reports
  BY <1>1 DEF Sent, Held, Stored, Reports, Elems
<1>3. Sending' = Sending /\ Carried' = Carried
  <2>1. CASE HandleSyncTaskGroup
    <3>1. /\ dbQueue' = dbQueue \o syncTasks /\ syncTasks' = << >> /\ thread' = thread
      BY <2>1 DEF HandleSyncTaskGroup
    <3>2. dbQueue \in Seq(Order) /\ syncTasks \in Seq(Order)
      BY DEF IInv, TasksOK, DbQueueOK, AllTold
    <3>3. Elems(dbQueue \o syncTasks) = Elems(dbQueue) \cup Elems(syncTasks) /\ Elems(<< >>) = {}
      BY <3>2, QueueHolds
    <3>4. Elems(dbQueue') = Elems(dbQueue) \cup Elems(syncTasks) /\ Elems(syncTasks') = {}
      BY <3>1, <3>3
    <3>5. Sending' = Sending /\ Cached' = Cached
      BY <3>1 DEF Sending, Cached
    <3> QED BY <1>2, <3>4, <3>5 DEF Carried
  <2>2. ASSUME NEW t \in Thread, CacheSyncTask(t) PROVE Sending' = Sending /\ Carried' = Carried
    <3>1. PICK ret : ret = thread[t].ret
      OBVIOUS
    <3>2. /\ thread[t].pc = "cache" /\ syncTasks' = Append(syncTasks, ret)
          /\ thread' = [thread EXCEPT ![t] = Idle] /\ dbQueue' = dbQueue
      BY <2>2, <3>1 DEF CacheSyncTask
    <3>3. syncTasks \in Seq(Order) /\ ret \in Order
      BY <3>1, <3>2 DEF IInv, TasksOK, AllTold, ThreadOK, IsTold, IsCopy, WellDealt
    <3>4. Elems(syncTasks') = Elems(syncTasks) \cup {ret}
      BY <3>2, <3>3, QueueHolds
    <3>5. Elems(dbQueue') = Elems(dbQueue)
      BY <3>2
    <3>6. Idle.pc = "idle" /\ ret \in Cached
      BY <3>1, <3>2 DEF Idle, Cached
    <3>7. /\ Sending' = Sending /\ Cached' \subseteq Cached /\ Cached \subseteq Cached' \cup {ret}
      BY <3>1, <3>2, <3>6, ThreadSets
    <3> QED BY <1>2, <3>4, <3>5, <3>6, <3>7 DEF Carried
  <2> QED BY <2>1, <2>2
<1>4. AllTruthful'
  BY <1>2, <1>3, TruthStep DEF Rest
<1> QED BY <1>1, <1>3, <1>4, JoinFrame, CarryFrame DEF Rest

\* A row is replaced by a later copy only: what agrees with the trade server
\* is stored, or the row agrees with it already.
LEMMA RowFollows ==
  ASSUME NEW id \in OrderId, exch[id].dealt \in Nat,
         NEW s \in Order, NEW o \in Order, NEW row \in Order,
         SaysTruth(id, s.orderStatus, Abs(s.dealSize)),
         SaysTruth(id, o.orderStatus, Abs(o.dealSize)),
         SaysTruth(id, row.orderStatus, Abs(row.dealSize)),
         o.orderStatus <= s.orderStatus, Abs(o.dealSize) <= Abs(s.dealSize),
         row.orderStatus <= s.orderStatus, Abs(row.dealSize) <= Abs(s.dealSize)
  PROVE  /\ o.orderStatus = s.orderStatus /\ Abs(o.dealSize) = Abs(s.dealSize)
            /\ ~RowReplaced(row, o)
              => row.orderStatus = s.orderStatus /\ Abs(row.dealSize) = Abs(s.dealSize)
         /\ row.orderStatus = s.orderStatus /\ Abs(row.dealSize) = Abs(s.dealSize)
              => ~RowReplaced(row, o)
<1>1. /\ Abs(s.dealSize) \in Nat /\ s.orderStatus \in Nat
      /\ Abs(o.dealSize) \in Nat /\ o.orderStatus \in Nat
      /\ Abs(row.dealSize) \in Nat /\ row.orderStatus \in Nat
  BY DealtIsNat
<1>2. \A c \in Order : SaysTruth(id, c.orderStatus, Abs(c.dealSize)) =>
        /\ c.orderStatus < PartialFilled => Abs(c.dealSize) = 0
        /\ c.orderStatus >= Filled => /\ c.orderStatus = StatusAtExch(exch[id])
                                      /\ Abs(c.dealSize) = exch[id].dealt
        /\ c.orderStatus < Filled => c.orderStatus <= PartialFilled
  BY StatusBelow DEF SaysTruth, Order
<1>3. ASSUME o.orderStatus = s.orderStatus, Abs(o.dealSize) = Abs(s.dealSize),
             ~RowReplaced(row, o)
      PROVE  row.orderStatus = s.orderStatus /\ Abs(row.dealSize) = Abs(s.dealSize)
  <2>1. CASE row.orderStatus >= Filled
    <3>1. s.orderStatus >= Filled
      BY <1>1, <2>1 DEF Filled
    <3> QED BY <1>2, <2>1, <3>1
  <2>2. CASE ~(row.orderStatus >= Filled)
    <3>1. /\ ~(o.orderStatus > row.orderStatus)
          /\ o.orderStatus = row.orderStatus /\ o.orderStatus = PartialFilled
               => ~(Abs(o.dealSize) > Abs(row.dealSize))
      BY <1>3, <2>2 DEF RowReplaced, closed
    <3>2. row.orderStatus = s.orderStatus
      BY <1>1, <1>3, <3>1
    <3>3. CASE s.orderStatus = PartialFilled
      BY <1>1, <1>3, <3>1, <3>2, <3>3
    <3>4. CASE s.orderStatus # PartialFilled
      <4>1. s.orderStatus < PartialFilled
        BY <1>1, <1>2, <2>2, <3>2, <3>4 DEF Filled, PartialFilled
      <4> QED BY <1>2, <3>2, <4>1
    <3> QED BY <3>2, <3>3, <3>4
  <2> QED BY <2>1, <2>2
<1>4. ASSUME row.orderStatus = s.orderStatus, Abs(row.dealSize) = Abs(s.dealSize)
      PROVE  ~RowReplaced(row, o)
  BY <1>1, <1>4 DEF RowReplaced
<1> QED BY <1>3, <1>4

LEMMA StoringRests ==
  ASSUME IInv, EndInv, UndealtYet, Rest, [Next]_vars, ExecSQL
  PROVE  Rest'
<1>0. HeldIsJoin /\ AllTruthful /\ NotAhead /\ SomeAgrees
  BY DEF Rest
<1>1. PICK o : o = Head(dbQueue)
  OBVIOUS
<1> DEFINE x == o.orderId
<1>2. PICK row : row = db[x]
  OBVIOUS
<1>3. /\ dbQueue # << >> /\ dbQueue' = Tail(dbQueue)
      /\ db' = IF ~Known(row) \/ RowReplaced(row, o) THEN [db EXCEPT ![x] = o] ELSE db
      /\ UNCHANGED <<srv, exch, ordMgr, thread, syncTasks, wsQueue, misled>>
  BY <1>1, <1>2 DEF ExecSQL, gwVars
<1>4. /\ Sent' = Sent /\ Held' = Held /\ Sending' = Sending /\ Reports' = Reports
      /\ Cached' = Cached /\ Elems(syncTasks') = Elems(syncTasks)
  BY <1>3 DEF Sent, Held, Sending, Reports, Cached, Elems
<1>5. Elems(dbQueue) = Elems(dbQueue') \cup {o}
  <2>1. dbQueue \in Seq(Order)
    BY DEF IInv, DbQueueOK, AllTold
  <2>2. Elems(dbQueue) = Elems(Tail(dbQueue)) \cup {Head(dbQueue)}
    BY <1>3, <2>1, QueueHolds
  <2> QED BY <1>1, <1>3, <2>2
<1>6. o \in Carried /\ o \in Order /\ x \in OrderId /\ IsTold(srv, o) /\ Truthful(o) /\ Known(o)
  <2>1. o \in Carried
    BY <1>5 DEF Carried
  <2> QED BY <1>0, <2>1, CopiesAreKnown, OrderIsKnown DEF AllTruthful
<1>7. \A id \in OrderId : Known(db[id]) =>
        db[id] \in Carried /\ db[id].orderId = id /\ IsTold(srv, db[id]) /\ Truthful(db[id])
                           /\ db[id] \in Order
  BY <1>0, CopiesAreKnown DEF Carried, Stored, AllTruthful, IInv, DbOK
<1>8. \A id \in OrderId : db'[id] = IF id = x /\ (~Known(row) \/ RowReplaced(row, o))
                                    THEN o ELSE db[id]
  BY <1>3, <1>6 DEF IInv, DbOK
<1>9. Stored' \subseteq Stored \cup {o} /\ Carried' \subseteq Carried
  <2>1. Stored' \subseteq Stored \cup {o}
    BY <1>8 DEF Stored
  <2> QED BY <1>4, <1>5, <2>1 DEF Carried
<1>10. AllTruthful'
  BY <1>0, <1>4, <1>9, TruthStep
<1>11. NotAhead'
  BY <1>0, <1>3, <1>9 DEF NotAhead
<1>12. SomeAgrees'
  <2> SUFFICES ASSUME NEW id \in OrderId \ misled, Known(srv[id])
               PROVE  \E y \in Carried' : y.orderId = id /\ Agree(srv[id], y)
    BY <1>3 DEF SomeAgrees
  <2>1. PICK y \in Carried : y.orderId = id /\ Agree(srv[id], y)
    BY <1>0 DEF SomeAgrees
  <2>2. \A z \in OrderId : Known(db'[z]) => db'[z] \in Carried'
    BY DEF Carried, Stored
  <2>3. CASE id # x
    <3>1. y # o
      BY <2>1, <2>3
    <3>2. y \in Stored => y \in Carried'
      <4> SUFFICES ASSUME y \in Stored PROVE y \in Carried'
        OBVIOUS
      <4>1. PICK z \in OrderId : y = db[z] /\ Known(db[z])
        BY DEF Stored
      <4>2. z = id
        BY <1>7, <2>1, <4>1
      <4>3. db'[z] = db[z]
        BY <1>8, <2>3, <4>2
      <4> QED BY <2>2, <4>1, <4>3
    <3>3. y \in Carried'
      BY <1>4, <1>5, <3>1, <3>2 DEF Carried
    <3> QED BY <2>1, <3>3
  <2>4. CASE id = x /\ ~Known(row)
    <3>1. db'[x] = o /\ o \in Carried'
      BY <1>6, <1>8, <2>2, <2>4
    <3>2. y \notin Stored
      <4> SUFFICES ASSUME NEW z \in OrderId, y = db[z], Known(db[z]) PROVE FALSE
        BY DEF Stored
      <4> QED BY <1>2, <1>7, <2>1, <2>4
    <3>3. y \in Carried'
      BY <1>4, <1>5, <3>1, <3>2 DEF Carried
    <3> QED BY <2>1, <3>3
  <2>5. CASE id = x /\ Known(row)
    <3> DEFINE s == srv[x]
    <3>1. /\ s \in Order /\ WellDealt(s) /\ Truthful(s) /\ s.orderId = x
          /\ exch[x].dealt \in Nat
      BY <1>0, <1>6, <2>5 DEF IInv, SrvOK, WellDealt, ExchOK, AllTruthful, Sent
    <3>2. /\ row \in Order /\ row.orderId = x /\ row \in Carried /\ IsTold(srv, row)
          /\ Truthful(row)
      BY <1>2, <1>6, <1>7, <2>5
    <3>3. /\ SaysTruth(x, s.orderStatus, Abs(s.dealSize))
          /\ SaysTruth(x, o.orderStatus, Abs(o.dealSize))
          /\ SaysTruth(x, row.orderStatus, Abs(row.dealSize))
          /\ o.orderStatus <= s.orderStatus /\ row.orderStatus <= s.orderStatus
          /\ Abs(o.dealSize) <= Abs(s.dealSize) /\ Abs(row.dealSize) <= Abs(s.dealSize)
      BY <1>0, <1>6, <2>5, <3>1, <3>2 DEF Truthful, NotAhead, IsTold
    <3> DEFINE keys(c) == c.orderStatus = s.orderStatus /\ Abs(c.dealSize) = Abs(s.dealSize)
    <3>4. /\ keys(o) /\ ~RowReplaced(row, o) => keys(row)
          /\ keys(row) => ~RowReplaced(row, o)
      BY <1>6, <3>1, <3>2, <3>3, RowFollows
    <3>5. ASSUME NEW c, IsTold(srv, c), c.orderId = x, keys(c) PROVE Agree(s, c)
      <4>1. WellDealt(c) /\ c.side = s.side
        BY <3>5 DEF IsTold, IsCopy
      <4> QED BY <3>1, <3>5, <4>1, SameDeal DEF Agree
    <3>6. Agree(s, y) => keys(y)
      BY DEF Agree
    <3>7. CASE RowReplaced(row, o)
      <4>1. db'[x] = o /\ o \in Carried'
        BY <1>6, <1>8, <2>2, <3>7
      <4>2. y \notin Stored
        <5> SUFFICES ASSUME NEW z \in OrderId, y = db[z], Known(db[z]) PROVE FALSE
          BY DEF Stored
        <5>1. y = row
          BY <1>2, <1>7, <2>1, <2>5
        <5> QED BY <2>1, <2>5, <3>4, <3>6, <3>7, <5>1
      <4>3. y \in Carried'
        BY <1>4, <1>5, <4>1, <4>2 DEF Carried
      <4> QED BY <2>1, <4>3
    <3>8. CASE ~RowReplaced(row, o)
      <4>1. db' = db /\ row \in Carried'
        BY <1>2, <1>3, <1>6, <2>2, <2>5, <3>8
      <4>2. Stored' = Stored
        BY <4>1 DEF Stored
      <4>3. CASE y = o
        <5>1. keys(row)
          BY <2>1, <2>5, <3>4, <3>6, <3>8, <4>3
        <5>2. Agree(s, row)
          BY <3>2, <3>5, <5>1
        <5> QED BY <2>5, <3>2, <4>1, <5>2
      <4>4. CASE y # o
        <5>1. y \in Carried'
          BY <1>4, <1>5, <4>2, <4>4 DEF Carried
        <5> QED BY <2>1, <5>1
      <4> QED BY <4>3, <4>4
    <3> QED BY <3>7, <3>8
  <2> QED BY <2>3, <2>4, <2>5
<1> QED BY <1>0, <1>3, <1>4, <1>10, <1>11, <1>12, JoinFrame DEF Rest

-----------------------------------------------------------------------------
\* What a failure and a return of the exchange say.
LEMMA FailureKey ==
  ASSUME NEW id \in OrderId
  PROVE  /\ Failure(id).orderId = id /\ Failure(id).orderStatus = Failed
         /\ Failure(id).dealSize = 0
<1> DEFINE b == ReportOf(NewOrder(id, "Bid", 1))
           r == [b EXCEPT !.orderStatus = Failed, !.statusCode = 1]
<1>1. b \in Report /\ b.orderId = id /\ b.dealSize = 0
  BY BlankReport
<1>2. Failure(id) = r
  BY DEF Failure
<1> HIDE DEF b
<1>3. r.orderId = id /\ r.dealSize = 0 /\ r.orderStatus = Failed
  BY <1>1 DEF Report
<1> QED BY <1>2, <1>3

LEMMA ReturnKey ==
  ASSUME NEW id, NEW e \in [status : ExchStatus \ {"absent", "rejected"}, dealt : Nat]
  PROVE  LET r == ReturnOf(id, e) IN
         /\ r.orderId = id /\ r.orderStatus = StatusAtExch(e) /\ r.dealSize = e.dealt
         /\ r.dealSize # 0 => r.avgPriced
         /\ r.orderStatus < PartialFilled => e.dealt = 0
         /\ r.orderStatus >= Filled => e.status \in {"filled", "canceled", "expired"}
<1> DEFINE priced == e.dealt # 0
           st == StatusAtExch(e)
           r == ReturnOf(id, e)
<1>1. r = [orderId |-> id, exchOrderId |-> id, orderStatus |-> st,
           dealSize |-> e.dealt, avgPriced |-> priced, lastDealSize |-> 0,
           lastPriced |-> FALSE, feeCurrency |-> Unset, statusCode |-> Unset]
  BY Zenon DEF ReturnOf
<1> HIDE DEF priced, st, r
<1>2. r.orderId = id /\ r.orderStatus = st /\ r.dealSize = e.dealt /\ r.avgPriced = priced
  BY <1>1
<1>3. r.dealSize # 0 => r.avgPriced
  BY <1>2, Zenon DEF priced
<1>4. /\ st < PartialFilled => e.dealt = 0
      /\ st >= Filled => e.status \in {"filled", "canceled", "expired"}
  BY DEF st, StatusAtExch, ExchStatus, ConfirmedByExch, PartialFilled, Filled, Canceled,
     PartialFilledCanceled, Failed
<1> QED BY <1>2, <1>3, <1>4 DEF st, r

\* An order the exchange does not have, and will not have, has failed.
LEMMA FailureIsTrue ==
  ASSUME IInv, UndealtYet, NEW id \in OrderId, NeverLive(id),
         exch[id].status \in {"absent", "rejected"}
  PROVE  Truthful(Failure(id))
<1>1. SaysTruth(id, Failed, 0)
  BY DEF SaysTruth, UndealtYet, StatusAtExch, Failed, PartialFilled, Filled
<1>2. Abs(0) = 0
  BY DEF Abs
<1> QED BY <1>1, <1>2, FailureKey DEF Truthful

\* The answer to an order request and a report are merged.
LEMMA HandlersRest ==
  ASSUME IInv, EndInv, UndealtYet, Rest, [Next]_vars,
         HandleWS \/ \E id \in OrderId : HandleRspOfOrder(id)
  PROVE  Rest'
<1>0. HeldIsJoin /\ AllTruthful /\ NotAhead /\ SomeAgrees
  BY DEF Rest
<1>1. CASE HandleWS
  <2>1. /\ thread[WS] = Idle /\ wsQueue # << >> /\ Merge(WS, Head(wsQueue))
        /\ wsQueue' = Tail(wsQueue) /\ UNCHANGED <<srv, syncTasks, dbQueue, db>>
    BY <1>1 DEF HandleWS
  <2>2. PICK new : new = Head(wsQueue)
    OBVIOUS
  <2>3. Elems(wsQueue) = Elems(Tail(wsQueue)) \cup {Head(wsQueue)}
    <3>1. wsQueue \in Seq(Report)
      BY DEF IInv, ReportsOK
    <3> QED BY <2>1, <3>1, QueueHolds
  <2>4. Reports' \subseteq Reports /\ new \in Reports
    BY <2>1, <2>2, <2>3 DEF Reports
  <2>5. IsReturn(srv, new) /\ Truthful(new) /\ (new.dealSize # 0 => new.avgPriced)
    BY <1>0, <2>4, CopiesAreKnown DEF AllTruthful
  <2> QED BY <2>1, <2>2, <2>4, <2>5, MergeRests DEF Thread
<1>2. ASSUME NEW id \in OrderId, HandleRspOfOrder(id) PROVE Rest'
  <2>1. /\ thread[id] = Idle /\ UNCHANGED <<srv, wsQueue, syncTasks, dbQueue, db>>
        /\ \/ UNCHANGED <<ordMgr, thread, misled>>
           \/ http[id] \in {"refused", "broken"} /\ Merge(id, Failure(id))
    BY <1>2 DEF HandleRspOfOrder
  <2>2. Reports' = Reports
    BY <2>1 DEF Reports, Elems
  <2>3. CASE UNCHANGED <<ordMgr, thread, misled>>
    <3>1. /\ Sent' = Sent /\ Held' = Held /\ Sending' = Sending /\ Cached' = Cached
          /\ Stored' = Stored /\ Elems(syncTasks') = Elems(syncTasks)
          /\ Elems(dbQueue') = Elems(dbQueue)
      BY <2>1, <2>3 DEF Sent, Held, Sending, Cached, Stored
    <3>2. Carried' = Carried
      BY <3>1 DEF Carried
    <3>3. AllTruthful'
      BY <1>0, <2>2, <3>1, <3>2, TruthStep
    <3> QED BY <1>0, <2>1, <2>3, <3>1, <3>2, <3>3, JoinFrame, CarryFrame DEF Rest
  <2>4. CASE http[id] \in {"refused", "broken"} /\ Merge(id, Failure(id))
    <3>1. Known(srv[id])
      BY <2>4 DEF IInv, ExchOK
    <3>2. PICK new : new = Failure(id)
      OBVIOUS
    <3>3. IsReturn(srv, new) /\ new.orderId = id /\ new.dealSize = 0
      BY <3>1, <3>2, FailureIsReturn, FailureKey
    <3>4. Truthful(new)
      <4>1. CASE http[id] = "refused"
        <5>1. exch[id].status = "rejected"
          BY <4>1 DEF EndInv, RequestsOK
        <5> QED BY <3>2, <5>1, FailureIsTrue DEF NeverLive, FinishedAtExch
      <4>2. CASE http[id] = "broken"
        BY <3>3, <4>2 DEF EndInv, RequestsOK, Truthful
      <4> QED BY <2>4, <4>1, <4>2
    <3> QED BY <2>1, <2>2, <2>4, <3>2, <3>3, <3>4, MergeRests DEF Thread
  <2> QED BY <2>1, <2>3, <2>4
<1> QED BY <1>1, <1>2

\* Nothing changes but the exchange, the requests and the reports.
LEMMA ReportRests ==
  ASSUME IInv, EndInv, UndealtYet, Rest, [Next]_vars,
         UNCHANGED <<srv, ordMgr, thread, syncTasks, dbQueue, db>>,
         \A r \in Reports' :
           r \in Reports \/ (Truthful(r)' /\ (r.dealSize # 0 => r.avgPriced))
  PROVE  Rest'
<1>0. HeldIsJoin /\ AllTruthful /\ NotAhead /\ SomeAgrees
  BY DEF Rest
<1>1. /\ Sent' = Sent /\ Held' = Held /\ Sending' = Sending /\ Cached' = Cached
      /\ Stored' = Stored /\ Elems(syncTasks') = Elems(syncTasks)
      /\ Elems(dbQueue') = Elems(dbQueue)
  BY DEF Sent, Held, Sending, Cached, Stored
<1>2. Carried' = Carried
  BY <1>1 DEF Carried
<1>3. AllTruthful'
  BY <1>0, <1>1, <1>2, TruthStep
<1>4. SomeAgrees' /\ NotAhead'
  <2>1. OrderId # {} => misled \subseteq misled'
    BY WorldStep
  <2>2. CASE OrderId = {}
    <3>1. Carried = {}
      BY <2>2, CopiesAreKnown
    <3> QED BY <1>2, <2>2, <3>1 DEF SomeAgrees, NotAhead
  <2> QED BY <1>0, <1>2, <2>1, <2>2, CarryFrame
<1> QED BY <1>0, <1>1, <1>3, <1>4, JoinFrame DEF Rest

\* A report is queued, or lost.
LEMMA ReportAdded ==
  ASSUME IInv, NEW r \in Report, wsQueue' = Append(wsQueue, r) \/ wsQueue' = wsQueue
  PROVE  Reports' \subseteq Reports \cup {r}
<1>1. Elems(Append(wsQueue, r)) = Elems(wsQueue) \cup {r}
  BY QueueHolds DEF IInv, ReportsOK
<1> QED BY <1>1 DEF Reports

LEMMA MovesRests ==
  ASSUME IInv, EndInv, UndealtYet, Rest, [Next]_vars, NEW id \in OrderId, Known(srv[id]),
         NEW e \in [status : ExchStatus \ {"absent", "rejected"}, dealt : Nat],
         e.dealt <= srv[id].orderSize, Moves(id, e)
  PROVE  Rest'
<1>1. /\ exch' = [exch EXCEPT ![id] = e]
      /\ wsQueue' = Append(wsQueue, ReturnOf(id, e)) \/ wsQueue' = wsQueue
      /\ UNCHANGED <<srv, ordMgr, thread, syncTasks, dbQueue, db, misled>>
  BY DEF Moves, Push, gwVars
<1>2. PICK r : r = ReturnOf(id, e)
  OBVIOUS
<1>3. r \in Report /\ r.dealSize \in Nat
  BY <1>2, ReturnIsReturn DEF IsReturn
<1>4. exch'[id] = e
  BY <1>1 DEF IInv, ExchOK
<1>5. /\ r.orderId = id /\ r.orderStatus = StatusAtExch(e) /\ r.dealSize = e.dealt
      /\ r.dealSize # 0 => r.avgPriced
      /\ r.orderStatus < PartialFilled => e.dealt = 0
      /\ r.orderStatus >= Filled => e.status \in {"filled", "canceled", "expired"}
  BY <1>2, ReturnKey
<1>6. SaysTruth(id, r.orderStatus, r.dealSize)'
  BY <1>3, <1>4, <1>5 DEF SaysTruth, NeverLive, FinishedAtExch
<1>7. Abs(r.dealSize) = r.dealSize
  BY <1>3 DEF Abs
<1>8. Truthful(r)'
  BY <1>5, <1>6, <1>7 DEF Truthful
<1>9. Reports' \subseteq Reports \cup {r}
  BY <1>1, <1>2, <1>3, ReportAdded
<1> QED BY <1>1, <1>5, <1>8, <1>9, ReportRests

LEMMA ExchangeRests ==
  ASSUME IInv, EndInv, UndealtYet, Rest, [Next]_vars, NEW id \in OrderId,
         \/ ExchTakesOrder(id) \/ ExchDeals(id) \/ ExchCancels(id) \/ ExchExpires(id)
         \/ ExchRefusesOrder(id) \/ ConnectionBreaks(id)
  PROVE  Rest'
<1> DEFINE size == srv[id].orderSize
<1>1. exch[id] \in [status : ExchStatus, dealt : Nat]
  BY DEF IInv, ExchOK
<1>2. Known(srv[id])
  <2>1. http[id] # "none" \/ exch[id].status # "absent"
    BY DEF ExchTakesOrder, ExchDeals, ExchCancels, ExchExpires, ExchRefusesOrder,
       ConnectionBreaks
  <2>2. ~Known(srv[id]) => exch[id].status = "absent" /\ http[id] = "none"
    BY DEF IInv, ExchOK
  <2> QED BY <2>1, <2>2
<1>3. /\ size \in Nat \ {0} /\ exch[id].dealt <= size
      /\ exch[id].status = "live" => exch[id].dealt < size
  BY <1>2, SizeAssumption DEF IInv, ExchOK, SrvOK, WellDealt, Order
<1>4. CASE ExchTakesOrder(id)
  <2> DEFINE e == [status |-> "live", dealt |-> 0]
  <2>1. Moves(id, e)
    BY <1>4 DEF ExchTakesOrder
  <2>2. /\ e \in [status : ExchStatus \ {"absent", "rejected"}, dealt : Nat]
        /\ e.dealt <= size
    BY <1>3 DEF ExchStatus
  <2> HIDE DEF e
  <2> QED BY <1>2, <2>1, <2>2, MovesRests
<1>5. CASE ExchDeals(id)
  <2> DEFINE dealt == exch[id].dealt + 1
             st == IF dealt = size THEN "filled" ELSE "live"
             e == [status |-> st, dealt |-> dealt]
  <2>1. Moves(id, e) /\ exch[id].status = "live"
    BY <1>5 DEF ExchDeals
  <2>2. st \in ExchStatus \ {"absent", "rejected"} /\ dealt \in Nat /\ dealt <= size
    BY <1>1, <1>3, <2>1 DEF ExchStatus
  <2> HIDE DEF st, dealt
  <2>3. /\ e \in [status : ExchStatus \ {"absent", "rejected"}, dealt : Nat]
        /\ e.dealt <= size
    BY <2>2
  <2> HIDE DEF e
  <2> QED BY <1>2, <2>1, <2>3, MovesRests
<1>6. ASSUME NEW st \in {"canceled", "expired"}, Moves(id, [exch[id] EXCEPT !.status = st])
      PROVE  Rest'
  <2> DEFINE e == [exch[id] EXCEPT !.status = st]
  <2>1. /\ e \in [status : ExchStatus \ {"absent", "rejected"}, dealt : Nat]
        /\ e.dealt <= size
    BY <1>1, <1>3 DEF ExchStatus
  <2>2. Moves(id, e)
    BY <1>6
  <2> HIDE DEF e
  <2> QED BY <1>2, <2>1, <2>2, MovesRests
<1>7. CASE ExchCancels(id)
  BY <1>6, <1>7 DEF ExchCancels
<1>8. CASE ExchExpires(id)
  BY <1>6, <1>8 DEF ExchExpires
<1>9. CASE ExchRefusesOrder(id) \/ ConnectionBreaks(id)
  <2>1. UNCHANGED <<srv, ordMgr, thread, syncTasks, wsQueue, dbQueue, db>>
    BY <1>9 DEF ExchRefusesOrder, ConnectionBreaks, gwVars
  <2>2. Reports' = Reports
    BY <2>1 DEF Reports, Elems
  <2> QED BY <2>1, <2>2, ReportRests
<1> QED BY <1>4, <1>5, <1>7, <1>8, <1>9

LEMMA QueryRests ==
  ASSUME IInv, EndInv, UndealtYet, Rest, [Next]_vars, NEW id \in OrderId,
         QueryOrder(id) \/ QueryRefused(id) \/ QueryFails(id)
  PROVE  Rest'
<1>1. id \in syncReq /\ UNCHANGED <<srv, exch, http, ordMgr, thread, syncTasks, dbQueue, db>>
  BY DEF QueryOrder, QueryRefused, QueryFails, gwVars
<1>2. Known(srv[id]) /\ http[id] \notin {"request", "lost"}
  BY <1>1 DEF IInv, ReportsOK, EndInv, RequestsOK
<1>3. PICK f : f = Failure(id)
  OBVIOUS
<1>4. f \in Report /\ f.orderId = id /\ f.dealSize = 0
  BY <1>2, <1>3, FailureIsReturn, FailureKey DEF IsReturn
<1>5. exch[id] \in [status : ExchStatus, dealt : Nat] /\ exch[id].dealt <= srv[id].orderSize
  BY <1>2 DEF IInv, ExchOK
<1>6. CASE QueryRefused(id)
  <2>1. wsQueue' = Append(wsQueue, f) /\ id \in misled'
    BY <1>3, <1>6 DEF QueryRefused
  <2>2. Reports' \subseteq Reports \cup {f}
    BY <1>4, <2>1, ReportAdded
  <2>3. Truthful(f)'
    BY <1>4, <2>1 DEF Truthful
  <2> QED BY <1>1, <1>4, <2>2, <2>3, ReportRests
<1>7. CASE QueryFails(id)
  <2>1. wsQueue' = wsQueue
    BY <1>7 DEF QueryFails
  <2>2. Reports' = Reports
    BY <2>1 DEF Reports, Elems
  <2> QED BY <1>1, <2>2, ReportRests
<1>8. CASE QueryOrder(id) /\ exch[id].status \in {"absent", "rejected"}
  <2>1. wsQueue' = Append(wsQueue, f)
    BY <1>3, <1>8 DEF QueryOrder
  <2>2. Reports' \subseteq Reports \cup {f}
    BY <1>4, <2>1, ReportAdded
  <2>3. Truthful(f)
    BY <1>2, <1>3, <1>8, FailureIsTrue DEF NeverLive, FinishedAtExch
  <2>4. Truthful(f)'
    <3>1. Abs(f.dealSize) \in Nat
      BY <1>4 DEF Abs
    <3> QED BY <1>2, <1>4, <2>3, <3>1, TruthfulStays
  <2> QED BY <1>1, <1>4, <2>2, <2>4, ReportRests
<1>9. CASE QueryOrder(id) /\ exch[id].status \notin {"absent", "rejected"}
  <2>1. PICK e : e = exch[id]
    OBVIOUS
  <2>2. e \in [status : ExchStatus \ {"absent", "rejected"}, dealt : Nat]
    BY <1>5, <1>9, <2>1
  <2>3. PICK r : r = ReturnOf(id, e)
    OBVIOUS
  <2>4. wsQueue' = Append(wsQueue, r)
    BY <1>9, <2>1, <2>3 DEF QueryOrder
  <2>5. r \in Report /\ r.dealSize \in Nat
    BY <1>2, <1>5, <2>1, <2>3, ReturnIsReturn DEF IsReturn
  <2>6. /\ r.orderId = id /\ r.orderStatus = StatusAtExch(e) /\ r.dealSize = e.dealt
        /\ r.dealSize # 0 => r.avgPriced
        /\ r.orderStatus < PartialFilled => e.dealt = 0
        /\ r.orderStatus >= Filled => e.status \in {"filled", "canceled", "expired"}
    BY <2>2, <2>3, ReturnKey
  <2>7. SaysTruth(id, r.orderStatus, r.dealSize)'
    BY <1>1, <2>1, <2>5, <2>6 DEF SaysTruth, NeverLive, FinishedAtExch
  <2>8. Abs(r.dealSize) = r.dealSize
    BY <2>5 DEF Abs
  <2>9. Truthful(r)'
    BY <2>6, <2>7, <2>8 DEF Truthful
  <2>10. Reports' \subseteq Reports \cup {r}
    BY <2>4, <2>5, ReportAdded
  <2> QED BY <1>1, <2>6, <2>9, <2>10, ReportRests
<1> QED BY <1>6, <1>7, <1>8, <1>9

\* The trade server hears of an order for the first time: c is what it makes
\* of that, Q what is queued to be stored.
FirstStep(id, c, Q) ==
  /\ c \in Order /\ c.orderId = id /\ c.dealSize = 0 /\ c.orderStatus \in {Pending, Failed}
  /\ c.orderStatus = Failed => http' = http
  /\ srv' = [srv EXCEPT ![id] = c]
  /\ \A q \in Q : /\ q \in Order /\ q.orderId = id /\ q.dealSize = 0
                  /\ q.orderStatus \in {Pending, c.orderStatus}
  /\ \E q \in Q : q.orderStatus = c.orderStatus
  /\ Elems(syncTasks') = Elems(syncTasks) \cup Q
  /\ UNCHANGED <<exch, thread, wsQueue, dbQueue, db, misled>>
  /\ HeldIds(ordMgr') \subseteq HeldIds(ordMgr) \cup {id}
  /\ \A x \in HeldIds(ordMgr) : x # id => CopyOf(ordMgr', x) = CopyOf(ordMgr, x)
  /\ id \in HeldIds(ordMgr') => /\ CopyOf(ordMgr', id) \in Q
                                /\ CopyOf(ordMgr', id).orderStatus = c.orderStatus

LEMMA FirstRests ==
  ASSUME IInv, EndInv, UndealtYet, Rest, [Next]_vars, NEW id \in OrderId, ~Known(srv[id]),
         NEW c, NEW Q, FirstStep(id, c, Q)
  PROVE  Rest'
<1> USE DEF FirstStep
<1>0. HeldIsJoin /\ AllTruthful /\ NotAhead /\ SomeAgrees
  BY DEF Rest
<1>1. \A x \in Sent \cup Held \cup Sending \cup Carried : x.orderId # id /\ x.orderId \in OrderId
  BY CopiesAreKnown DEF IsCopy
<1>2. id \notin HeldIds(ordMgr)
  <2>1. id \in HeldIds(ordMgr) => CopyOf(ordMgr, id) \in Held /\ CopyOf(ordMgr, id).orderId = id
    BY CopyIs DEF IInv, GroupOK, Held
  <2> QED BY <1>1, <2>1
<1>3. srv'[id] = c /\ \A x \in OrderId \ {id} : srv'[x] = srv[x]
  BY DEF IInv, SrvOK
<1>4. /\ Pending \in Nat /\ Failed \in Nat /\ Pending < PartialFilled /\ ~(Pending >= Filled)
      /\ Pending <= Failed /\ ~(Failed < PartialFilled) /\ 0 \in 0 .. 0 /\ Abs(0) = 0
  BY DEF Pending, Failed, PartialFilled, Filled, Abs
<1>5. exch'[id].status = "absent" /\ exch'[id].dealt = 0 /\ http[id] = "none"
  BY DEF IInv, ExchOK
<1>6. SaysTruth(id, Pending, 0)'
  BY <1>4, <1>5 DEF SaysTruth
<1>7. c.orderStatus = Failed => SaysTruth(id, Failed, 0)'
  BY <1>4, <1>5 DEF SaysTruth, NeverLive, StatusAtExch
<1>8. SaysTruth(id, c.orderStatus, 0)'
  BY <1>6, <1>7
<1>9. Truthful(c)' /\ \A q \in Q : Truthful(q)'
  BY <1>4, <1>6, <1>8 DEF Truthful
<1>10. /\ Sending' = Sending /\ Cached' = Cached /\ Reports' = Reports /\ Stored' = Stored
       /\ Elems(dbQueue') = Elems(dbQueue)
  BY DEF Sending, Cached, Reports, Stored, Elems
<1>11. Carried' = Carried \cup Q
  BY <1>10 DEF Carried
<1>12. Sent' \subseteq Sent \cup {c}
  BY <1>3 DEF Sent
<1>13. Held' \subseteq Held \cup Q
  <2> SUFFICES ASSUME NEW x \in HeldIds(ordMgr') PROVE CopyOf(ordMgr', x) \in Held \cup Q
    BY DEF Held
  <2>1. CASE x = id
    BY <2>1
  <2>2. CASE x # id
    BY <2>2 DEF Held
  <2> QED BY <2>1, <2>2
<1>14. AllTruthful'
  BY <1>0, <1>9, <1>10, <1>11, <1>12, <1>13, TruthStep
<1>15. HeldIsJoin'
  <2> SUFFICES ASSUME NEW x \in HeldIds(ordMgr'), NEW h, h = CopyOf(ordMgr', x)
               PROVE  JoinOf(x, h)'
    BY DEF HeldIsJoin
  <2>1. CASE x = id
    <3>1. h \in Q /\ h.orderStatus = c.orderStatus /\ h.dealSize = c.dealSize
      BY <2>1
    <3>2. \A p \in Sending' : p.orderId # id
      BY <1>1, <1>10
    <3>3. Below(c, h)
      BY <1>4, <3>1 DEF Below
    <3> QED BY <1>3, <2>1, <3>1, <3>2, <3>3 DEF JoinOf
  <2>2. CASE x # id
    <3>1. x \in HeldIds(ordMgr) /\ h = CopyOf(ordMgr, x)
      BY <2>2
    <3>2. JoinOf(x, h) /\ x \in OrderId
      BY <1>0, <3>1, CopyIs DEF HeldIsJoin, IInv, GroupOK
    <3> QED BY <1>3, <1>10, <2>2, <3>2 DEF JoinOf
  <2> QED BY <2>1, <2>2
<1>16. NotAhead'
  <2> SUFFICES ASSUME NEW y \in Carried \cup Q, y.orderId \notin misled
               PROVE  y.orderStatus <= srv'[y.orderId].orderStatus
    BY <1>11 DEF NotAhead
  <2>1. CASE y \in Carried
    BY <1>0, <1>1, <1>3, <2>1 DEF NotAhead
  <2>2. CASE y \in Q
    BY <1>3, <1>4, <2>2
  <2> QED BY <2>1, <2>2
<1>17. SomeAgrees'
  <2> SUFFICES ASSUME NEW x \in OrderId \ misled, Known(srv'[x])
               PROVE  \E y \in Carried \cup Q : y.orderId = x /\ Agree(srv'[x], y)
    BY <1>11 DEF SomeAgrees
  <2>1. CASE x = id
    BY <1>3, <2>1 DEF Agree
  <2>2. CASE x # id
    BY <1>0, <1>3, <2>2 DEF SomeAgrees
  <2> QED BY <2>1, <2>2
<1> QED BY <1>14, <1>15, <1>16, <1>17 DEF Rest

\* What the trade server makes of the first return about an order.
LEMMA FirstKey ==
  ASSUME NEW n, NEW o, WellDealt(n), WellDealt(o), n.orderId = o.orderId,
         n.side = o.side, n.orderSize = o.orderSize, n.dealSize = 0, o.dealSize = 0,
         n.orderStatus < o.orderStatus, ~closed(n)
  PROVE  LET r == Receive(n, o) IN
         /\ r \in Order /\ r.orderId = n.orderId /\ r.dealSize = 0
         /\ r.orderStatus = o.orderStatus
<1>1. PICK r : r = Receive(n, o)
  OBVIOUS
<1>2. n.orderStatus \in Nat /\ o.orderStatus \in Nat
  BY DealtIsNat DEF WellDealt
<1>3. WellDealt(r) /\ r.orderId = n.orderId
  BY <1>1, ReceiveGood
<1>4. /\ r.orderStatus = IF o.orderStatus > n.orderStatus /\ ~closed(n)
                         THEN o.orderStatus ELSE n.orderStatus
      /\ Abs(r.dealSize) = IF Abs(o.dealSize) > Abs(n.dealSize)
                           THEN Abs(o.dealSize) ELSE Abs(n.dealSize)
  BY <1>1, ReceiveKey
<1>5. Abs(0) = 0 /\ r.dealSize \in Int
  BY <1>3 DEF Abs, WellDealt, Order
<1>6. Abs(r.dealSize) = 0
  BY <1>4, <1>5
<1>7. r.dealSize = 0
  BY <1>5, <1>6 DEF Abs
<1> QED BY <1>1, <1>2, <1>3, <1>4, <1>7 DEF WellDealt

LEMMA OrderThreadFirst ==
  ASSUME IInv, NEW id \in OrderId, NEW side \in Side, NEW size \in Size,
         \/ RefuseOrder(id, side, size) \/ OnOrder(id, side, size)
         \/ OnOrderNotSent(id, side, size)
  PROVE  ~Known(srv[id]) /\ \E c, Q : FirstStep(id, c, Q)
<1>0. PICK n : n = NewOrder(id, side, size)
  OBVIOUS
<1>1. /\ WellDealt(n) /\ n.orderId = id /\ n.side = side /\ n.orderSize = size
      /\ n.dealSize = 0 /\ n.orderStatus = Created
  BY <1>0, NewOrderGood
<1>2. /\ Created < Pending /\ Created < Failed /\ Pending < Failed
      /\ ~(Created >= Filled) /\ ~(Pending >= Filled)
  BY DEF Created, Pending, Failed, Filled
<1>3. PICK pending : pending = [n EXCEPT !.orderStatus = Pending]
  OBVIOUS
<1>4. /\ WellDealt(pending) /\ pending.orderId = id /\ pending.side = side
      /\ pending.orderSize = size /\ pending.dealSize = 0 /\ pending.orderStatus = Pending
  BY <1>1, <1>3, StatusGood DEF OrderStatus
<1>5. /\ ~Known(srv[id])
      /\ UNCHANGED <<exch, thread, wsQueue, dbQueue, db, misled>>
  BY DEF RefuseOrder, OnOrder, OnOrderNotSent
<1>6. GoodGroup(ordMgr) /\ syncTasks \in Seq(Order)
  BY DEF IInv, GroupOK, TasksOK, AllTold
<1>7. id \notin HeldIds(ordMgr)
  <2>1. id \in HeldIds(ordMgr) => CopyOf(ordMgr, id) \in Held /\ CopyOf(ordMgr, id).orderId = id
    BY <1>6, CopyIs DEF Held
  <2> QED BY <1>5, <2>1, CopiesAreKnown DEF IsCopy
<1>8. CASE RefuseOrder(id, side, size)
  <2>1. PICK o : o = [n EXCEPT !.orderStatus = Failed, !.statusCode = 1]
    OBVIOUS
  <2>2. PICK c : c = Receive(n, o)
    OBVIOUS
  <2>3. /\ srv' = [srv EXCEPT ![id] = c] /\ syncTasks' = Append(syncTasks, o)
        /\ http' = http /\ ordMgr' = ordMgr
    BY <1>0, <1>8, <2>1, <2>2 DEF RefuseOrder
  <2>4. /\ WellDealt(o) /\ o.orderId = id /\ o.side = side /\ o.orderSize = size
        /\ o.dealSize = 0 /\ o.orderStatus = Failed /\ o \in Order
    BY <1>1, <2>1, FailedGood DEF WellDealt
  <2>5. c \in Order /\ c.orderId = id /\ c.dealSize = 0 /\ c.orderStatus = Failed
    BY <1>1, <1>2, <2>2, <2>4, FirstKey DEF closed
  <2>6. Elems(syncTasks') = Elems(syncTasks) \cup {o}
    BY <1>6, <2>3, <2>4, QueueHolds
  <2>7. FirstStep(id, c, {o})
    BY <1>5, <1>7, <2>3, <2>4, <2>5, <2>6 DEF FirstStep
  <2> QED BY <1>5, <2>7
<1>9. CASE OnOrder(id, side, size)
  <2>1. PICK c : c = Receive(n, pending)
    OBVIOUS
  <2>2. /\ srv' = [srv EXCEPT ![id] = c] /\ syncTasks' = Append(syncTasks, pending)
        /\ ordMgr' = add(ordMgr, pending)
    BY <1>0, <1>3, <1>9, <2>1 DEF OnOrder
  <2>3. c \in Order /\ c.orderId = id /\ c.dealSize = 0 /\ c.orderStatus = Pending
    BY <1>1, <1>2, <1>4, <2>1, FirstKey DEF closed
  <2>4. Elems(syncTasks') = Elems(syncTasks) \cup {pending} /\ pending \in Order
    BY <1>4, <1>6, <2>2, QueueHolds DEF WellDealt
  <2>5. /\ HeldIds(ordMgr') = HeldIds(ordMgr) \cup {id}
        /\ CopyOf(ordMgr', id) = pending
        /\ \A x \in HeldIds(ordMgr) : CopyOf(ordMgr', x) = CopyOf(ordMgr, x)
    BY <1>2, <1>4, <1>6, <1>7, <2>2, <2>4, AddCopies, WellDealtIsSound DEF closed
  <2>6. Pending # Failed
    BY DEF Pending, Failed
  <2>7. FirstStep(id, c, {pending})
    BY <1>4, <1>5, <1>7, <2>2, <2>3, <2>4, <2>5, <2>6 DEF FirstStep
  <2> QED BY <1>5, <2>7
<1>10. CASE OnOrderNotSent(id, side, size)
  <2>1. PICK failed : failed = [pending EXCEPT !.orderStatus = Failed, !.statusCode = 1]
    OBVIOUS
  <2>2. PICK m : m = Receive(n, pending)
    OBVIOUS
  <2>3. PICK c : c = Receive(m, failed)
    OBVIOUS
  <2>4. PICK am : am = add(ordMgr, pending)
    OBVIOUS
  <2>5. /\ srv' = [srv EXCEPT ![id] = c] /\ syncTasks' = syncTasks \o <<pending, failed>>
        /\ http' = http /\ ordMgr' = remove(am, id)
    BY <1>0, <1>3, <1>10, <2>1, <2>2, <2>3, <2>4 DEF OnOrderNotSent
  <2>6. /\ WellDealt(failed) /\ failed.orderId = id /\ failed.side = side
        /\ failed.orderSize = size /\ failed.dealSize = 0 /\ failed.orderStatus = Failed
        /\ failed \in Order /\ pending \in Order
    BY <1>4, <2>1, FailedGood DEF WellDealt
  <2>7. WellDealt(m) /\ m.orderId = id /\ m.side = side /\ m.orderSize = size
    BY <1>1, <1>4, <2>2, ReceiveGood
  <2>8. m.dealSize = 0 /\ m.orderStatus = Pending
    BY <1>1, <1>2, <1>4, <2>2, FirstKey DEF closed
  <2>9. c \in Order /\ c.orderId = id /\ c.dealSize = 0 /\ c.orderStatus = Failed
    BY <1>2, <2>3, <2>6, <2>7, <2>8, FirstKey DEF closed
  <2>10. Elems(syncTasks') = Elems(syncTasks) \cup {pending, failed}
    <3> DEFINE q == <<pending, failed>>
    <3>1. q \in Seq(Order) /\ Elems(q) = {pending, failed}
      <4>1. q \in Seq(Order) /\ Len(q) = 2 /\ q[1] = pending /\ q[2] = failed
        BY <2>6
      <4>2. 1 .. Len(q) = {1, 2}
        BY <4>1
      <4> QED BY <4>1, <4>2 DEF Elems
    <3> HIDE DEF q
    <3>2. Elems(syncTasks \o q) = Elems(syncTasks) \cup Elems(q)
      BY <1>6, <3>1, QueueHolds
    <3> QED BY <2>5, <3>1, <3>2 DEF q
  <2>11. /\ HeldIds(ordMgr') = HeldIds(ordMgr)
         /\ \A x \in HeldIds(ordMgr) : CopyOf(ordMgr', x) = CopyOf(ordMgr, x)
    <3>1. /\ GoodGroup(am) /\ am.recent = ordMgr.recent
          /\ OpenIds(am) = OpenIds(ordMgr) \cup {id} /\ RecentIds(am) = RecentIds(ordMgr)
          /\ \A x \in OpenIds(ordMgr) : am.open[x] = ordMgr.open[x]
      BY <1>2, <1>4, <1>6, <1>7, <2>4, <2>6, AddGood, WellDealtIsSound DEF closed, HeldIds
    <3>2. /\ ordMgr'.recent = am.recent /\ OpenIds(ordMgr') = OpenIds(am) \ {id}
          /\ RecentIds(ordMgr') = RecentIds(am)
          /\ \A x \in OpenIds(ordMgr') : ordMgr'.open[x] = am.open[x]
      BY <2>5, <3>1, RemoveGood
    <3>3. OpenIds(ordMgr') = OpenIds(ordMgr)
      BY <1>7, <3>1, <3>2 DEF HeldIds
    <3> QED BY <3>1, <3>2, <3>3 DEF HeldIds, CopyOf
  <2>12. pending.orderStatus \in {Pending, c.orderStatus} /\ failed.orderStatus = c.orderStatus
    BY <1>4, <2>6, <2>9
  <2>13. FirstStep(id, c, {pending, failed})
    BY <1>4, <1>5, <1>7, <2>5, <2>6, <2>9, <2>10, <2>11, <2>12 DEF FirstStep
  <2> QED BY <1>5, <2>13
<1> QED BY <1>8, <1>9, <1>10

LEMMA OrderThreadRests ==
  ASSUME IInv, EndInv, UndealtYet, Rest, [Next]_vars, NEW id \in OrderId, NEW side \in Side,
         NEW size \in Size,
         \/ RefuseOrder(id, side, size) \/ OnOrder(id, side, size)
         \/ OnOrderNotSent(id, side, size)
  PROVE  Rest'
<1>1. ~Known(srv[id]) /\ \E c, Q : FirstStep(id, c, Q)
  BY OrderThreadFirst
<1> QED BY <1>1, FirstRests

-----------------------------------------------------------------------------
LEMMA RestInit == Init => RestInv
<1> SUFFICES ASSUME Init PROVE RestInv
  OBVIOUS
<1> USE DEF Init
<1>1. /\ Sent = {} /\ Sending = {} /\ Cached = {} /\ Stored = {} /\ Reports = {}
      /\ Elems(syncTasks) = {} /\ Elems(dbQueue) = {}
  BY DEF Sent, Sending, Cached, Stored, Reports, Elems, Known, Idle
<1>2. HeldIds(ordMgr) = {}
  BY EmptyGood DEF HeldIds
<1>3. Held = {} /\ Carried = {}
  BY <1>1, <1>2 DEF Held, Carried
<1>4. AllTruthful /\ NotAhead
  BY <1>1, <1>3 DEF AllTruthful, NotAhead
<1>5. HeldIsJoin
  BY <1>2 DEF HeldIsJoin
<1>6. SomeAgrees
  BY DEF SomeAgrees, Known
<1>7. UndealtYet
  BY DEF UndealtYet
<1> QED BY <1>4, <1>5, <1>6, <1>7 DEF RestInv, Rest

LEMMA RestStep == IInv /\ EndInv /\ RestInv /\ [Next]_vars => RestInv'
<1> SUFFICES ASSUME IInv, EndInv, RestInv, [Next]_vars PROVE RestInv'
  OBVIOUS
<1>0. UndealtYet /\ crashes \in Nat /\ (crashes = 0 => up /\ Rest)
  BY DEF RestInv
<1>1. UndealtYet'
  BY <1>0, DealtGrows
<1>2. ASSUME UNCHANGED <<srv, ordMgr, thread, syncTasks, wsQueue, dbQueue, db>>
      PROVE  Rest => Rest'
  <2>1. Reports' = Reports
    BY <1>2 DEF Reports, Elems
  <2> QED BY <1>0, <1>2, <2>1, ReportRests
<1>3. (crashes' = crashes /\ up' = up /\ (Rest => Rest')) \/ Crash \/ Restart
  <2> DEFINE P == crashes' = crashes /\ up' = up /\ (Rest => Rest')
  <2>1. CASE UNCHANGED vars
    BY <1>2, <2>1 DEF vars, gwVars
  <2>2. ASSUME NEW id \in OrderId, NEW side \in Side, NEW size \in Size,
               \/ RefuseOrder(id, side, size) \/ OnOrder(id, side, size)
               \/ OnOrderNotSent(id, side, size)
        PROVE  P
    <3>1. crashes' = crashes /\ up' = up
      BY <2>2 DEF RefuseOrder, OnOrder, OnOrderNotSent
    <3> QED BY <1>0, <2>2, <3>1, OrderThreadRests
  <2>3. ASSUME NEW id \in OrderId, OnCancelOrder(id) PROVE P
    BY <1>2, <2>3 DEF OnCancelOrder, gwVars
  <2>4. ASSUME NEW id \in OrderId, HandleRspOfOrder(id) PROVE P
    <3>1. crashes' = crashes /\ up' = up
      BY <2>4 DEF HandleRspOfOrder
    <3> QED BY <1>0, <2>4, <3>1, HandlersRest
  <2>5. ASSUME NEW id \in OrderId,
               \/ ExchTakesOrder(id) \/ ExchDeals(id) \/ ExchCancels(id) \/ ExchExpires(id)
               \/ ExchRefusesOrder(id) \/ ConnectionBreaks(id)
        PROVE  P
    <3>1. crashes' = crashes /\ up' = up
      BY <2>5 DEF ExchTakesOrder, ExchDeals, ExchCancels, ExchExpires, ExchRefusesOrder,
         ConnectionBreaks, Moves
    <3> QED BY <1>0, <2>5, <3>1, ExchangeRests
  <2>6. ASSUME NEW id \in OrderId, QueryOrder(id) \/ QueryRefused(id) \/ QueryFails(id) PROVE P
    <3>1. crashes' = crashes /\ up' = up
      BY <2>6 DEF QueryOrder, QueryRefused, QueryFails
    <3> QED BY <1>0, <2>6, <3>1, QueryRests
  <2>7. ASSUME NEW t \in Thread, SendRet(t) PROVE P
    <3>1. crashes' = crashes /\ up' = up
      BY <2>7 DEF SendRet
    <3> QED BY <1>0, <2>7, <3>1, SendRests
  <2>8. CASE HandleSyncTaskGroup \/ \E t \in Thread : CacheSyncTask(t)
    <3>1. crashes' = crashes /\ up' = up
      BY <2>8 DEF HandleSyncTaskGroup, CacheSyncTask
    <3> QED BY <1>0, <2>8, <3>1, QueueingRests
  <2>9. CASE HandleWS
    <3>1. crashes' = crashes /\ up' = up
      BY <2>9 DEF HandleWS
    <3> QED BY <1>0, <2>9, <3>1, HandlersRest
  <2>10. CASE SyncUnclosedOrders
    BY <1>2, <2>10 DEF SyncUnclosedOrders, gwVars
  <2>11. CASE ExecSQL
    <3>1. crashes' = crashes /\ up' = up
      BY <2>11 DEF ExecSQL
    <3> QED BY <1>0, <2>11, <3>1, StoringRests
  <2> QED BY <2>1, <2>2, <2>3, <2>4, <2>5, <2>6, <2>7, <2>8, <2>9, <2>10, <2>11 DEF Next
<1>4. CASE Crash
  <2>1. crashes' \in Nat /\ crashes' # 0
    BY <1>0, <1>4 DEF Crash
  <2> QED BY <1>1, <2>1 DEF RestInv
<1>5. CASE Restart
  <2>1. crashes' = crashes /\ ~up
    BY <1>5 DEF Restart
  <2> QED BY <1>0, <1>1, <2>1 DEF RestInv
<1> QED BY <1>0, <1>1, <1>3, <1>4, <1>5 DEF RestInv

\* Until the gateway crashes, once its threads rest the trade server has of
\* every order just what the order manager has, and once the sync tasks are
\* executed so has the database of the orders that nobody was misled about.
THEOREM AgreedAtRest == Spec => []AgreesAtRest
<1>1. IInv /\ RestInv => AgreesAtRest
  <2> SUFFICES ASSUME IInv, RestInv, Resting, crashes = 0
               PROVE  SrvAgreesAtRest /\ DBAgreesAtRest
    BY DEF AgreesAtRest, SrvAgreesAtRest, DBAgreesAtRest
  <2>0. HeldIsJoin /\ SomeAgrees /\ GoodGroup(ordMgr)
    BY DEF RestInv, Rest, IInv, GroupOK
  <2>1. Sending = {} /\ Cached = {}
    BY DEF Resting, Sending, Cached, Idle
  <2>2. ASSUME NEW id \in HeldIds(ordMgr) PROVE Agree(srv[id], CopyOf(ordMgr, id))
    <3>1. PICK h : h = CopyOf(ordMgr, id)
      OBVIOUS
    <3>2. h \in Held /\ h.orderId = id /\ id \in OrderId
      BY <2>0, <3>1, CopyIs DEF Held
    <3>3. /\ WellDealt(h) /\ Known(srv[id]) /\ h.side = srv[id].side /\ WellDealt(srv[id])
      BY <3>2, CopiesAreKnown DEF IsCopy, IInv, SrvOK
    <3>4. srv[id].orderStatus = h.orderStatus /\ Abs(srv[id].dealSize) = Abs(h.dealSize)
      BY <2>0, <2>1, <3>1 DEF HeldIsJoin, JoinOf
    <3>5. srv[id].dealSize = h.dealSize
      BY <3>3, <3>4, SameDeal
    <3> QED BY <3>1, <3>4, <3>5 DEF Agree
  <2>3. SrvAgreesAtRest
    <3>1. ASSUME NEW id \in OpenIds(ordMgr) PROVE Agree(srv[id], ordMgr.open[id])
      BY <2>0, <2>2, CopyIs DEF HeldIds
    <3>2. ASSUME NEW i \in DOMAIN ordMgr.recent
          PROVE  Agree(srv[ordMgr.recent[i].orderId], ordMgr.recent[i])
      <4>1. ordMgr.recent[i].orderId \in HeldIds(ordMgr)
        BY DEF HeldIds, RecentIds
      <4> QED BY <2>0, <2>2, <4>1, CopyIs
    <3> QED BY <3>1, <3>2 DEF SrvAgreesAtRest
  <2>4. DBAgreesAtRest
    <3> SUFFICES ASSUME syncTasks = << >>, dbQueue = << >>,
                        NEW id \in OrderId \ misled, Known(srv[id])
                 PROVE  Agree(srv[id], db[id])
      BY DEF DBAgreesAtRest
    <3>1. Elems(syncTasks) = {} /\ Elems(dbQueue) = {}
      BY DEF Elems
    <3>2. PICK y \in Stored : y.orderId = id /\ Agree(srv[id], y)
      BY <2>0, <2>1, <3>1 DEF SomeAgrees, Carried
    <3>3. PICK x \in OrderId : y = db[x] /\ Known(db[x])
      BY DEF Stored
    <3>4. x = id
      BY <3>2, <3>3 DEF IInv, DbOK
    <3> QED BY <3>2, <3>3, <3>4
  <2> QED BY <2>3, <2>4
<1> QED BY <1>1, InvInit, InvStep, EndInit, EndStep, RestInit, RestStep, PTL DEF Spec

-----------------------------------------------------------------------------
(***************************************************************************)
(* Nothing goes back.  Copies of an order pass from thread to thread and   *)
(* may overtake each other, but of any two one follows from the other      *)
(* (Chained): each was made by a merge from what was held, which all the   *)
(* copies there are lead up to.  A crash leaves the rows, and what is held *)
(* after it is loaded from them.                                           *)
(***************************************************************************)
Copies == Sending \cup Carried
Chained ==
  \A a, b \in Copies : a.orderId = b.orderId => Below(a, b) \/ Below(b, a)
HeldOnTop ==
  \A id \in HeldIds(ordMgr) : \A a \in Copies : a.orderId = id => Below(a, CopyOf(ordMgr, id))
ChainInv == Chained /\ HeldOnTop /\ (~up => Copies \subseteq Stored)

\* What a copy may become.
Advances(c, d) ==
  Known(c) => /\ Known(d) /\ d.orderId = c.orderId
              /\ d.side = c.side /\ d.orderSize = c.orderSize
              /\ Below(c, d)

\* A report only moves a copy on.
LEMMA MergeBelow ==
  ASSUME NEW s, NEW o, NEW new, IsCopy(s, o), IsReturn(s, new)
  PROVE  Below(o, updateByOrderInfoFromExch(o, new))
<1> DEFINE p == updateByOrderInfoFromExch(o, new)
<1>1. /\ o \in Order /\ o.dealSize \in Int /\ new.dealSize \in Nat /\ o.side \in {"Bid", "Ask"}
      /\ ~IsRtnTrade(new)
  BY DEF IsCopy, IsReturn, WellDealt, Order, IsRtnTrade
<1>2. /\ p.orderStatus = IF StatusAdvances(o, new) THEN new.orderStatus ELSE o.orderStatus
      /\ p.dealSize = IF DealSizeIsValid(o, new) THEN Signed(o.side, new.dealSize)
                      ELSE o.dealSize
  BY <1>1 DEF updateByOrderInfoFromExch, WithStaticFields, Order, DealSizeFromExch, StatusFromExch
<1> HIDE DEF p
<1>3. o.orderStatus \in Nat /\ new.orderStatus \in Nat /\ Abs(o.dealSize) \in Nat
  BY <1>1, DealtIsNat, StatusIsNat DEF IsReturn, Report
<1>4. o.orderStatus <= p.orderStatus /\ (closed(o) => p.orderStatus = o.orderStatus)
  BY <1>2, <1>3 DEF StatusAdvances
<1>5. Abs(o.dealSize) <= Abs(p.dealSize)
  <2>1. CASE DealSizeIsValid(o, new)
    <3>1. Abs(new.dealSize) > Abs(o.dealSize) /\ Abs(new.dealSize) = new.dealSize
      BY <1>1, <2>1 DEF DealSizeIsValid, Abs
    <3>2. Abs(Signed(o.side, new.dealSize)) = new.dealSize
      BY <1>1 DEF Signed, Abs
    <3> QED BY <1>1, <1>2, <1>3, <2>1, <3>1, <3>2
  <2>2. CASE ~DealSizeIsValid(o, new)
    BY <1>2, <1>3, <2>2
  <2> QED BY <2>1, <2>2
<1> QED BY <1>4, <1>5 DEF Below, p

LEMMA BelowItself == \A a \in Order : Below(a, a)
BY DealtIsNat DEF Below

LEMMA CopiesOfKnown ==
  ASSUME IInv
  PROVE  \A a \in Copies : IsCopy(srv, a) /\ a \in Order /\ a.orderId \in OrderId
BY CopiesAreKnown DEF Copies

LEMMA ChainFrame ==
  ASSUME ChainInv, Copies' \subseteq Copies, ordMgr' = ordMgr, up' = up,
         up \/ Stored' = Stored
  PROVE  ChainInv'
BY DEF ChainInv, Chained, HeldOnTop

\* Thread t merges a return.
LEMMA MergeChained ==
  ASSUME IInv, ChainInv, NEW t \in Thread, thread[t] = Idle, NEW new, IsReturn(srv, new),
         Merge(t, new), UNCHANGED <<srv, syncTasks, dbQueue, db, up>>, up
  PROVE  ChainInv'
<1> DEFINE x == new.orderId
           o == CopyOf(ordMgr, x)
           merged == updateByOrderInfoFromExch(o, new)
           updated == IsSomeFieldOfOrderUpdated(o, new)
<1>1. /\ GoodGroup(ordMgr) /\ x \in OrderId /\ x # Unset /\ new \in Report
      /\ Chained /\ HeldOnTop
  BY OrderIdAssumption DEF IInv, GroupOK, IsReturn, Unset, Report, ChainInv
<1>2. ordMgr' = UpdateFromExch(ordMgr, new)
  BY DEF Merge
<1>3. /\ x \notin HeldIds(ordMgr) => ordMgr' = ordMgr
      /\ HeldIds(ordMgr') \subseteq HeldIds(ordMgr)
      /\ \A id \in HeldIds(ordMgr') :
           CopyOf(ordMgr', id) = IF id = x THEN merged ELSE CopyOf(ordMgr, id)
  BY <1>1, <1>2, UpdateCopies
<1>4. thread[t].pc = "idle" /\ Idle.pc = "idle"
  BY DEF Idle
<1>5. Elems(syncTasks)' = Elems(syncTasks) /\ Elems(dbQueue)' = Elems(dbQueue) /\ Stored' = Stored
  BY DEF Elems, Stored
<1>6. CASE x \notin HeldIds(ordMgr)
  <2>1. thread' = [thread EXCEPT ![t] = Idle]
    BY <1>1, <1>6, LookupIsCopy DEF Merge
  <2>2. Sending' = Sending /\ Cached' = Cached
    BY <1>4, <2>1, ThreadSets
  <2>3. Copies' = Copies
    BY <1>5, <2>2 DEF Copies, Carried
  <2> QED BY <1>3, <1>6, <2>3, ChainFrame
<1>7. CASE x \in HeldIds(ordMgr)
  <2>0. PICK p : p = merged
    OBVIOUS
  <2>1. o \in Held /\ o.orderId = x
    BY <1>1, <1>7, CopyIs DEF Held
  <2>2. Lookup(ordMgr, new) = o /\ Found(ordMgr, new)
    BY <1>1, <1>7, LookupIsCopy
  <2> DEFINE r == IF updated THEN [pc |-> "send", ret |-> p] ELSE Idle
  <2>3. thread' = [thread EXCEPT ![t] = r]
    BY <2>0, <2>2 DEF Merge
  <2>4. IF updated THEN r.pc = "send" /\ r.ret = p ELSE r.pc = "idle"
    BY <1>4
  <2> HIDE DEF r
  <2>5. IsCopy(srv, o) /\ o \in Order
    BY <2>1, CopiesAreKnown
  <2>6. Below(o, p)
    BY <2>0, <2>5, MergeBelow
  <2>7. p \in Order /\ p.orderId = x
    BY <2>0, <2>1, <2>5, MergeCopy
  <2>8. \A a \in Copies : a.orderId = x => Below(a, o)
    BY <1>1, <1>7 DEF HeldOnTop
  <2> HIDE DEF o, merged, updated
  <2>9. Sending' \subseteq Sending \cup {p} /\ Cached' = Cached
    BY <1>4, <2>3, <2>4, ThreadSets
  <2>10. Copies' \subseteq Copies \cup {p}
    BY <1>5, <2>9 DEF Copies, Carried
  <2>11. \A a \in Copies \cup {p} : a.orderId = x => Below(a, p)
    BY <2>5, <2>6, <2>7, <2>8, BelowIsTransitive, BelowItself, CopiesOfKnown
  <2>12. Chained'
    BY <1>1, <2>7, <2>10, <2>11 DEF Chained
  <2>13. HeldOnTop'
    <3> SUFFICES ASSUME NEW id \in HeldIds(ordMgr'), NEW a \in Copies \cup {p}, a.orderId = id
                 PROVE  Below(a, CopyOf(ordMgr', id))
      BY <2>10 DEF HeldOnTop
    <3>1. CASE id = x
      BY <1>3, <2>0, <2>11, <3>1
    <3>2. CASE id # x
      BY <1>1, <1>3, <2>7, <3>2 DEF HeldOnTop
    <3> QED BY <3>1, <3>2
  <2> QED BY <2>12, <2>13 DEF ChainInv
<1> QED BY <1>6, <1>7

\* An order nobody had heard of.
LEMMA FirstChained ==
  ASSUME IInv, ChainInv, NEW id \in OrderId, ~Known(srv[id]), up, up' = up,
         NEW c, NEW Q, FirstStep(id, c, Q)
  PROVE  ChainInv'
<1> USE DEF FirstStep
<1>0. Chained /\ HeldOnTop
  BY DEF ChainInv
<1>1. \A a \in Copies : a.orderId # id
  BY CopiesOfKnown DEF IsCopy
<1>2. Sending' = Sending /\ Cached' = Cached /\ Stored' = Stored /\ Elems(dbQueue') = Elems(dbQueue)
  BY DEF Sending, Cached, Stored, Elems
<1>3. Copies' = Copies \cup Q
  BY <1>2 DEF Copies, Carried
<1>4. /\ Pending \in Nat /\ Failed \in Nat /\ ~(Pending >= Filled) /\ Pending <= Failed
      /\ 0 <= Abs(0)
  BY DEF Pending, Failed, Filled, Abs
<1>5. ASSUME NEW a \in Q, NEW b \in Q, a.orderStatus = Pending \/ b.orderStatus = Failed
             \/ a.orderStatus = b.orderStatus
      PROVE  Below(a, b)
  <2>1. a \in Order /\ b \in Order /\ a.dealSize = 0 /\ b.dealSize = 0
        /\ a.orderStatus \in {Pending, Failed} /\ b.orderStatus \in {Pending, Failed}
    OBVIOUS
  <2> QED BY <1>4, <1>5, <2>1 DEF Below, closed, Abs
<1>6. \A a, b \in Q : Below(a, b) \/ Below(b, a)
  BY <1>5
<1>7. Chained'
  BY <1>0, <1>1, <1>3, <1>6 DEF Chained
<1>8. HeldOnTop'
  <2> SUFFICES ASSUME NEW x \in HeldIds(ordMgr'), NEW a \in Copies \cup Q, a.orderId = x
               PROVE  Below(a, CopyOf(ordMgr', x))
    BY <1>3 DEF HeldOnTop
  <2>1. CASE x = id
    <3>1. a \in Q
      BY <1>1, <2>1
    <3>2. CopyOf(ordMgr', id) \in Q /\ CopyOf(ordMgr', id).orderStatus = c.orderStatus
      BY <2>1
    <3>3. a.orderStatus \in {Pending, c.orderStatus}
      BY <3>1
    <3> QED BY <1>5, <2>1, <3>1, <3>2, <3>3
  <2>2. CASE x # id
    <3>1. a \in Copies /\ x \in HeldIds(ordMgr) /\ CopyOf(ordMgr', x) = CopyOf(ordMgr, x)
      BY <2>2
    <3> QED BY <1>0, <3>1 DEF HeldOnTop
  <2> QED BY <2>1, <2>2
<1> QED BY <1>7, <1>8 DEF ChainInv

\* The first copies of an order, and the other ways a copy goes.
LEMMA ChainInit == Init => ChainInv
<1> SUFFICES ASSUME Init PROVE ChainInv
  OBVIOUS
<1> USE DEF Init
<1>1. /\ Sending = {} /\ Cached = {} /\ Stored = {}
      /\ Elems(syncTasks) = {} /\ Elems(dbQueue) = {}
  BY DEF Sending, Cached, Stored, Elems, Known, Idle
<1>2. Copies = {}
  BY <1>1 DEF Copies, Carried
<1> QED BY <1>2 DEF ChainInv, Chained, HeldOnTop

\* A copy is sent, queued or stored: none is made.
LEMMA CopiesMove ==
  ASSUME IInv, \/ HandleSyncTaskGroup \/ ExecSQL
               \/ \E t \in Thread : SendRet(t) \/ CacheSyncTask(t)
  PROVE  Copies' \subseteq Copies /\ ordMgr' = ordMgr /\ up' = up /\ (up \/ Stored' = Stored)
<1> DEFINE P == Copies' \subseteq Copies /\ ordMgr' = ordMgr /\ up' = up /\ (up \/ Stored' = Stored)
<1>0. syncTasks \in Seq(Order) /\ dbQueue \in Seq(Order)
  BY DEF IInv, TasksOK, DbQueueOK, AllTold
<1>1. CASE HandleSyncTaskGroup
  <2>1. /\ dbQueue' = dbQueue \o syncTasks /\ syncTasks' = << >>
        /\ UNCHANGED <<thread, db, ordMgr, up>>
    BY <1>1 DEF HandleSyncTaskGroup
  <2>2. Elems(dbQueue \o syncTasks) = Elems(dbQueue) \cup Elems(syncTasks) /\ Elems(<< >>) = {}
    BY <1>0, QueueHolds
  <2>3. Elems(dbQueue') = Elems(dbQueue) \cup Elems(syncTasks) /\ Elems(syncTasks') = {}
    BY <2>1, <2>2
  <2>4. Sending' = Sending /\ Cached' = Cached /\ Stored' = Stored
    BY <2>1 DEF Sending, Cached, Stored
  <2> QED BY <2>1, <2>3, <2>4 DEF Copies, Carried
<1>2. CASE ExecSQL
  <2>1. PICK o : o = Head(dbQueue)
    OBVIOUS
  <2>2. /\ up /\ dbQueue # << >> /\ dbQueue' = Tail(dbQueue)
        /\ db' = db \/ db' = [db EXCEPT ![o.orderId] = o]
        /\ UNCHANGED <<thread, syncTasks, ordMgr, up>>
    BY <1>2, <2>1 DEF ExecSQL, gwVars
  <2>3. Elems(dbQueue) = Elems(dbQueue') \cup {o}
    BY <1>0, <2>1, <2>2, QueueHolds
  <2>4. Sending' = Sending /\ Cached' = Cached /\ Elems(syncTasks') = Elems(syncTasks)
    BY <2>2 DEF Sending, Cached, Elems
  <2>5. Stored' \subseteq Stored \cup {o}
    BY <2>2 DEF Stored, IInv, DbOK
  <2> QED BY <2>2, <2>3, <2>4, <2>5 DEF Copies, Carried
<1>3. ASSUME NEW t \in Thread, SendRet(t) PROVE P
  <2>1. PICK ret : ret = thread[t].ret
    OBVIOUS
  <2>2. PICK r : r = [thread[t] EXCEPT !.pc = "cache"]
    OBVIOUS
  <2>3. thread[t].pc = "send" /\ UNCHANGED <<db, syncTasks, dbQueue, ordMgr, up>>
    BY <1>3 DEF SendRet
  <2>4. r.pc = "cache" /\ r.ret = ret /\ thread' = [thread EXCEPT ![t] = r]
    BY <1>3, <2>1, <2>2 DEF SendRet, IInv, ThreadOK
  <2>5. ret \in Sending
    BY <2>1, <2>3 DEF Sending
  <2>6. Sending' \subseteq Sending /\ Cached' \subseteq Cached \cup {ret}
    BY <2>4, ThreadSets
  <2>7. Stored' = Stored /\ Elems(syncTasks') = Elems(syncTasks) /\ Elems(dbQueue') = Elems(dbQueue)
    BY <2>3 DEF Stored, Elems
  <2> QED BY <2>3, <2>5, <2>6, <2>7 DEF Copies, Carried
<1>4. ASSUME NEW t \in Thread, CacheSyncTask(t) PROVE P
  <2>1. PICK ret : ret = thread[t].ret
    OBVIOUS
  <2>2. /\ thread[t].pc = "cache" /\ syncTasks' = Append(syncTasks, ret)
        /\ thread' = [thread EXCEPT ![t] = Idle] /\ UNCHANGED <<db, dbQueue, ordMgr, up>>
    BY <1>4, <2>1 DEF CacheSyncTask
  <2>3. ret \in Order
    BY <2>1, <2>2 DEF IInv, ThreadOK, IsTold, IsCopy, WellDealt
  <2>4. Elems(syncTasks') = Elems(syncTasks) \cup {ret}
    BY <1>0, <2>2, <2>3, QueueHolds
  <2>5. Idle.pc = "idle" /\ ret \in Cached
    BY <2>1, <2>2 DEF Idle, Cached
  <2>6. Sending' \subseteq Sending /\ Cached' \subseteq Cached
    BY <2>2, <2>5, ThreadSets
  <2>7. Stored' = Stored /\ Elems(dbQueue') = Elems(dbQueue)
    BY <2>2 DEF Stored, Elems
  <2> QED BY <2>2, <2>4, <2>5, <2>6, <2>7 DEF Copies, Carried
<1> QED BY <1>1, <1>2, <1>3, <1>4

\* A crash leaves the rows, a restart loads them.
LEMMA CrashChained ==
  ASSUME IInv, ChainInv, Crash \/ Restart
  PROVE  ChainInv'
<1>0. Chained
  BY DEF ChainInv
<1>1. CASE Crash
  <2>1. /\ ordMgr' = EmptyGroup /\ thread' = [t \in Thread |-> Idle] /\ up' = FALSE
        /\ syncTasks' = << >> /\ dbQueue' = << >> /\ db' = db
    BY <1>1 DEF Crash
  <2>2. Sending' = {} /\ Cached' = {} /\ Elems(syncTasks') = {} /\ Elems(dbQueue') = {}
    BY <2>1 DEF Sending, Cached, Elems, Idle
  <2>3. Stored' = Stored
    BY <2>1 DEF Stored
  <2>4. Copies' = Stored /\ Stored \subseteq Copies
    BY <2>2, <2>3 DEF Copies, Carried
  <2>5. HeldIds(ordMgr') = {}
    BY <2>1, EmptyGood DEF HeldIds
  <2> QED BY <1>0, <2>3, <2>4, <2>5 DEF ChainInv, Chained, HeldOnTop
<1>2. CASE Restart
  <2> DEFINE S == {id \in OrderId : Known(db[id]) /\ ~closed(db[id])}
  <2>1. /\ ordMgr' = [open |-> [id \in S |-> db[id]], recent |-> << >>] /\ up' = TRUE /\ ~up
        /\ UNCHANGED <<thread, syncTasks, dbQueue, db>>
    BY <1>2 DEF Restart
  <2> HIDE DEF S
  <2>2. Copies' = Copies /\ Copies \subseteq Stored
    BY <2>1 DEF ChainInv, Copies, Carried, Sending, Cached, Elems, Stored
  <2>3. HeldIds(ordMgr') = S /\ \A id \in S : CopyOf(ordMgr', id) = db[id]
    BY <2>1 DEF HeldIds, OpenIds, RecentIds, CopyOf
  <2>4. \A a \in Stored : a = db[a.orderId] /\ a \in Order
    BY DEF Stored, IInv, DbOK, IsTold, IsCopy, WellDealt
  <2>5. HeldOnTop'
    BY <2>2, <2>3, <2>4, BelowItself DEF HeldOnTop
  <2> QED BY <1>0, <2>1, <2>2, <2>5 DEF ChainInv, Chained
<1> QED BY <1>1, <1>2

LEMMA ChainStep == IInv /\ ChainInv /\ [Next]_vars => ChainInv'
<1> SUFFICES ASSUME IInv, ChainInv, [Next]_vars PROVE ChainInv'
  OBVIOUS
<1>1. ASSUME UNCHANGED <<thread, syncTasks, dbQueue, db, ordMgr, up>> PROVE ChainInv'
  <2>1. Copies' = Copies /\ Stored' = Stored
    BY <1>1 DEF Copies, Carried, Sending, Cached, Elems, Stored
  <2> QED BY <1>1, <2>1, ChainFrame
<1>2. CASE UNCHANGED vars
  BY <1>1, <1>2 DEF vars, gwVars
<1>3. ASSUME NEW id \in OrderId, NEW side \in Side, NEW size \in Size,
             \/ RefuseOrder(id, side, size) \/ OnOrder(id, side, size)
             \/ OnOrderNotSent(id, side, size)
      PROVE  ChainInv'
  <2>1. up /\ up' = up
    BY <1>3 DEF RefuseOrder, OnOrder, OnOrderNotSent
  <2>2. ~Known(srv[id]) /\ \E c, Q : FirstStep(id, c, Q)
    BY <1>3, OrderThreadFirst
  <2> QED BY <2>1, <2>2, FirstChained
<1>4. ASSUME NEW id \in OrderId, HandleRspOfOrder(id) PROVE ChainInv'
  <2>1. /\ up /\ thread[id] = Idle /\ UNCHANGED <<srv, up, syncTasks, dbQueue, db>>
        /\ \/ http[id] = "accepted" /\ UNCHANGED <<ordMgr, thread>>
           \/ http[id] \in {"refused", "broken"} /\ Merge(id, Failure(id))
    BY <1>4 DEF HandleRspOfOrder
  <2>2. CASE UNCHANGED <<ordMgr, thread>>
    BY <1>1, <2>1, <2>2
  <2>3. CASE http[id] \in {"refused", "broken"} /\ Merge(id, Failure(id))
    <3>1. Known(srv[id])
      BY <2>3 DEF IInv, ExchOK
    <3>2. IsReturn(srv, Failure(id)) /\ id \in Thread
      BY <3>1, FailureIsReturn DEF Thread
    <3> QED BY <2>1, <2>3, <3>2, MergeChained
  <2> QED BY <2>1, <2>2, <2>3
<1>5. CASE HandleWS
  <2>1. /\ up /\ thread[WS] = Idle /\ wsQueue # << >> /\ Merge(WS, Head(wsQueue))
        /\ UNCHANGED <<srv, up, syncTasks, dbQueue, db>>
    BY <1>5 DEF HandleWS
  <2>2. IsReturn(srv, Head(wsQueue)) /\ WS \in Thread
    <3>1. Head(wsQueue) = wsQueue[1] /\ 1 \in 1 .. Len(wsQueue)
      BY <2>1 DEF IInv, ReportsOK
    <3> QED BY <3>1 DEF IInv, ReportsOK, Thread
  <2> QED BY <2>1, <2>2, MergeChained
<1>6. CASE \/ HandleSyncTaskGroup \/ ExecSQL
           \/ \E t \in Thread : SendRet(t) \/ CacheSyncTask(t)
  BY <1>6, CopiesMove, ChainFrame
<1>7. ASSUME NEW id \in OrderId,
             \/ OnCancelOrder(id) \/ ExchTakesOrder(id) \/ ExchRefusesOrder(id)
             \/ ConnectionBreaks(id) \/ ExchDeals(id) \/ ExchCancels(id) \/ ExchExpires(id)
             \/ QueryOrder(id) \/ QueryRefused(id) \/ QueryFails(id)
      PROVE  ChainInv'
  BY <1>1, <1>7 DEF OnCancelOrder, ExchTakesOrder, ExchRefusesOrder, ConnectionBreaks, ExchDeals,
     ExchCancels, ExchExpires, QueryOrder, QueryRefused, QueryFails, Moves, gwVars
<1>8. CASE SyncUnclosedOrders
  BY <1>1, <1>8 DEF SyncUnclosedOrders, gwVars
<1>9. CASE Crash \/ Restart
  BY <1>9, CrashChained
<1> QED BY <1>2, <1>3, <1>4, <1>5, <1>6, <1>7, <1>8, <1>9 DEF Next

\* What stays does not go back.
LEMMA StaysPut ==
  ASSUME IInv, NEW id \in OrderId
  PROVE  Advances(srv[id], srv[id]) /\ Advances(db[id], db[id])
<1>1. Known(srv[id]) => srv[id] \in Order
  BY DEF IInv, SrvOK, WellDealt
<1>2. Known(db[id]) => db[id] \in Order
  BY DEF IInv, DbOK, IsTold, IsCopy, WellDealt
<1> QED BY <1>1, <1>2, BelowItself DEF Advances

\* What the trade server has of an order changes by a return only.
LEMMA SrvAdvances ==
  ASSUME IInv, [Next]_vars, NEW id \in OrderId
  PROVE  Advances(srv[id], srv'[id])
<1>1. ASSUME srv' = srv PROVE Advances(srv[id], srv'[id])
  BY <1>1, StaysPut
<1>2. ASSUME NEW x \in OrderId, NEW side \in Side, NEW size \in Size,
             \/ RefuseOrder(x, side, size) \/ OnOrder(x, side, size)
             \/ OnOrderNotSent(x, side, size)
      PROVE  Advances(srv[id], srv'[id])
  <2>1. ~Known(srv[x]) /\ \E c : srv' = [srv EXCEPT ![x] = c]
    BY <1>2 DEF RefuseOrder, OnOrder, OnOrderNotSent
  <2>2. id # x => srv'[id] = srv[id]
    BY <2>1 DEF IInv, SrvOK
  <2>3. id = x => Advances(srv[id], srv'[id])
    BY <2>1 DEF Advances
  <2> QED BY <2>2, <2>3, StaysPut
<1>3. ASSUME NEW t \in Thread, SendRet(t) PROVE Advances(srv[id], srv'[id])
  <2>1. PICK ret : ret = thread[t].ret
    OBVIOUS
  <2>2. IsCopy(srv, ret) /\ srv' = [srv EXCEPT ![ret.orderId] = Receive(@, ret)]
    BY <1>3, <2>1 DEF SendRet, IInv, ThreadOK
  <2>3. CASE id # ret.orderId
    <3>1. srv'[id] = srv[id]
      BY <2>2, <2>3 DEF IInv, SrvOK
    <3> QED BY <3>1, StaysPut
  <2>4. CASE id = ret.orderId
    <3>1. PICK c : c = srv[id]
      OBVIOUS
    <3>2. PICK r : r = Receive(c, ret)
      OBVIOUS
    <3>3. srv'[id] = r
      BY <2>2, <2>4, <3>1, <3>2 DEF IInv, SrvOK
    <3>4. /\ WellDealt(c) /\ WellDealt(ret) /\ c.orderId = ret.orderId
          /\ c.side = ret.side /\ c.orderSize = ret.orderSize
      BY <2>2, <2>4, <3>1 DEF IsCopy, IInv, SrvOK
    <3>5. WellDealt(r) /\ r.orderId = c.orderId /\ r.side = c.side /\ r.orderSize = c.orderSize
      BY <3>2, <3>4, ReceiveGood
    <3>6. /\ r.orderStatus = IF ret.orderStatus > c.orderStatus /\ ~closed(c)
                             THEN ret.orderStatus ELSE c.orderStatus
          /\ Abs(r.dealSize) = IF Abs(ret.dealSize) > Abs(c.dealSize)
                               THEN Abs(ret.dealSize) ELSE Abs(c.dealSize)
      BY <3>2, <3>4, ReceiveKey
    <3>7. /\ c.orderStatus \in Nat /\ ret.orderStatus \in Nat
          /\ Abs(c.dealSize) \in Nat /\ Abs(ret.dealSize) \in Nat
      BY <3>4, DealtIsNat DEF WellDealt
    <3>8. Below(c, r)
      BY <3>6, <3>7 DEF Below
    <3>9. Known(r)
      BY <3>5, OrderIsKnown DEF WellDealt
    <3> QED BY <3>1, <3>3, <3>5, <3>8, <3>9 DEF Advances
  <2> QED BY <2>3, <2>4
<1>4. \/ srv' = srv \/ \E t \in Thread : SendRet(t)
      \/ \E x \in OrderId, side \in Side, size \in Size :
           \/ RefuseOrder(x, side, size) \/ OnOrder(x, side, size)
           \/ OnOrderNotSent(x, side, size)
  <2> DEFINE P == srv' = srv
  <2>1. ASSUME NEW x \in OrderId,
               \/ OnCancelOrder(x) \/ HandleRspOfOrder(x)
               \/ ExchTakesOrder(x) \/ ExchRefusesOrder(x) \/ ConnectionBreaks(x)
               \/ ExchDeals(x) \/ ExchCancels(x) \/ ExchExpires(x)
               \/ QueryOrder(x) \/ QueryRefused(x) \/ QueryFails(x)
        PROVE  P
    BY <2>1 DEF OnCancelOrder, ExchTakesOrder, ExchRefusesOrder, ConnectionBreaks, ExchDeals,
       ExchCancels, ExchExpires, QueryOrder, QueryRefused, QueryFails, Moves, HandleRspOfOrder
  <2>2. CASE HandleWS \/ SyncUnclosedOrders \/ HandleSyncTaskGroup \/ ExecSQL \/ Crash \/ Restart
    BY <2>2 DEF HandleWS, SyncUnclosedOrders, HandleSyncTaskGroup, ExecSQL, Crash, Restart
  <2>3. ASSUME NEW t \in Thread, CacheSyncTask(t) PROVE P
    BY <2>3 DEF CacheSyncTask
  <2>4. CASE UNCHANGED vars
    BY <2>4 DEF vars
  <2> HIDE DEF P
  <2>5. P => srv' = srv
    BY DEF P
  <2> QED BY <2>1, <2>2, <2>3, <2>4, <2>5 DEF Next
<1> QED BY <1>1, <1>2, <1>3, <1>4

\* A row changes by a statement only, which is about a copy that is on the row's chain.
LEMMA RowAdvances ==
  ASSUME IInv, ChainInv, [Next]_vars, NEW id \in OrderId
  PROVE  Advances(db[id], db'[id])
<1>1. ASSUME db'[id] = db[id] PROVE Advances(db[id], db'[id])
  BY <1>1, StaysPut
<1>2. CASE ExecSQL
  <2>1. PICK o : o = Head(dbQueue)
    OBVIOUS
  <2>2. PICK row : row = db[o.orderId]
    OBVIOUS
  <2>3. /\ dbQueue # << >>
        /\ db' = IF ~Known(row) \/ RowReplaced(row, o) THEN [db EXCEPT ![o.orderId] = o] ELSE db
    BY <1>2, <2>1, <2>2 DEF ExecSQL
  <2>4. o \in Elems(dbQueue) /\ o \in Copies
    <3>1. Elems(dbQueue) = Elems(Tail(dbQueue)) \cup {Head(dbQueue)}
      BY <2>3, QueueHolds DEF IInv, DbQueueOK, AllTold
    <3> QED BY <2>1, <3>1 DEF Copies, Carried
  <2>5. CASE id = o.orderId /\ Known(row) /\ RowReplaced(row, o)
    <3>1. db'[id] = o /\ row = db[id]
      BY <2>2, <2>3, <2>5 DEF IInv, DbOK
    <3>2. row \in Copies /\ row.orderId = id
      BY <2>5, <3>1 DEF Copies, Carried, Stored, IInv, DbOK
    <3>3. /\ IsCopy(srv, row) /\ IsCopy(srv, o) /\ row \in Order /\ o \in Order
      BY <2>4, <3>2, CopiesOfKnown
    <3>4. Below(row, o) \/ Below(o, row)
      BY <2>4, <2>5, <3>2 DEF ChainInv, Chained
    <3>5. /\ row.orderStatus \in Nat /\ o.orderStatus \in Nat
          /\ Abs(row.dealSize) \in Nat /\ Abs(o.dealSize) \in Nat
      BY <3>3, DealtIsNat
    <3>6. Below(row, o)
      <4>1. CASE o.orderStatus > row.orderStatus /\ ~closed(row)
        BY <3>4, <3>5, <4>1 DEF Below
      <4>2. CASE /\ o.orderStatus = row.orderStatus /\ o.orderStatus = PartialFilled
                 /\ Abs(o.dealSize) > Abs(row.dealSize)
        BY <3>4, <3>5, <4>2 DEF Below
      <4> QED BY <2>5, <4>1, <4>2 DEF RowReplaced
    <3>7. Known(o) /\ o.side = row.side /\ o.orderSize = row.orderSize
      BY <2>5, <3>2, <3>3, OrderIsKnown DEF IsCopy
    <3> QED BY <2>5, <3>1, <3>2, <3>6, <3>7 DEF Advances
  <2>6. CASE ~Known(db[id])
    BY <2>6 DEF Advances
  <2>7. CASE Known(db[id]) /\ ~(id = o.orderId /\ Known(row) /\ RowReplaced(row, o))
    <3>1. db'[id] = db[id]
      BY <2>2, <2>3, <2>7 DEF IInv, DbOK
    <3> QED BY <1>1, <3>1
  <2> QED BY <2>5, <2>6, <2>7
<1>3. db' = db \/ ExecSQL
  <2> DEFINE P == db' = db
  <2>1. ASSUME NEW x \in OrderId,
               \/ OnCancelOrder(x) \/ HandleRspOfOrder(x)
               \/ ExchTakesOrder(x) \/ ExchRefusesOrder(x) \/ ConnectionBreaks(x)
               \/ ExchDeals(x) \/ ExchCancels(x) \/ ExchExpires(x)
               \/ QueryOrder(x) \/ QueryRefused(x) \/ QueryFails(x)
        PROVE  P
    BY <2>1 DEF OnCancelOrder, ExchTakesOrder, ExchRefusesOrder, ConnectionBreaks, ExchDeals,
       ExchCancels, ExchExpires, QueryOrder, QueryRefused, QueryFails, Moves, HandleRspOfOrder
  <2>2. CASE HandleWS \/ SyncUnclosedOrders \/ HandleSyncTaskGroup \/ Crash \/ Restart
    BY <2>2 DEF HandleWS, SyncUnclosedOrders, HandleSyncTaskGroup, Crash, Restart
  <2>3. ASSUME NEW t \in Thread, SendRet(t) \/ CacheSyncTask(t) PROVE P
    BY <2>3 DEF CacheSyncTask, SendRet
  <2>4. CASE UNCHANGED vars
    BY <2>4 DEF vars
  <2>5. ASSUME NEW x \in OrderId, NEW side \in Side, NEW size \in Size,
               \/ RefuseOrder(x, side, size) \/ OnOrder(x, side, size)
               \/ OnOrderNotSent(x, side, size)
        PROVE  P
    BY <2>5 DEF RefuseOrder, OnOrder, OnOrderNotSent
  <2> HIDE DEF P
  <2>6. P => db' = db
    BY DEF P
  <2> QED BY <2>1, <2>2, <2>3, <2>4, <2>5, <2>6 DEF Next
<1> QED BY <1>1, <1>2, <1>3

\* Neither the trade server's copy of an order nor its row ever goes back: its terms stay,
\* its status and what was dealt of it only advance, and a closed one keeps its status,
\* whichever of two threads sends or stores first, whatever is lost in a crash, and however
\* the exchange's answers are mistaken (uspOrderInfoUpdate, updateByOrderInfoFromTDGW).
CopiesAdvance ==
  [][\A id \in OrderId : Advances(srv[id], srv'[id]) /\ Advances(db[id], db'[id])]_vars
THEOREM NothingGoesBack == Spec => CopiesAdvance
<1>1. IInv /\ ChainInv /\ [Next]_vars =>
        [\A id \in OrderId : Advances(srv[id], srv'[id]) /\ Advances(db[id], db'[id])]_vars
  BY SrvAdvances, RowAdvances
<1> QED BY <1>1, InvInit, InvStep, ChainInit, ChainStep, PTL DEF Spec, CopiesAdvance
==============================================================================
