---------------------------- MODULE OrdMgrProofs ----------------------------
(***************************************************************************)
(* Proofs about OrdMgr, for every set of orders, sizes and reports and for *)
(* every bound on the recently closed orders.  The inductive invariant is  *)
(* that the containers are Good (OrderGroupProofs) and hold only orders    *)
(* that were given to add.                                                 *)
(***************************************************************************)
EXTENDS OrdMgr, OrderGroupProofs

IInv ==
  /\ GoodGroup(ordMgr)
  /\ used \in SUBSET OrderId
  /\ OpenIds(ordMgr) \cup RecentIds(ordMgr) \subseteq used

-----------------------------------------------------------------------------
\* The orders a client may add are typed, under way and undealt.
LEMMA NewOrderGood ==
  ASSUME NEW o \in NewOrder
  PROVE  o \in Order /\ ~closed(o) /\ Sound(o)
<1>1. /\ o.orderId \in OrderId /\ o.side \in {"Bid", "Ask"} /\ o.orderSize \in Nat
      /\ o.orderStatus = 5 /\ o.dealSize = 0
  BY SizeAssumption DEF NewOrder, Pending
<1>2. o \in Order
  BY DEF NewOrder, Order, OrderStatus
<1>3. ~closed(o)
  BY <1>1 DEF closed, Filled
<1> QED BY <1>1, <1>2, <1>3 DEF Sound, Signed, Abs

\* The containers start empty and every operation keeps them good.
THEOREM InvInit == Init => IInv
  BY EmptyGood DEF Init, IInv

THEOREM InvStep == IInv /\ [Next]_vars => IInv'
<1> SUFFICES ASSUME IInv, [Next]_vars PROVE IInv'
  OBVIOUS
<1>1. ASSUME NEW o \in NewOrder, AddOrder(o) PROVE IInv'
  <2>1. o \in Order /\ ~closed(o) /\ Sound(o)
    BY NewOrderGood
  <2>2. /\ o.orderId \notin OpenIds(ordMgr) \cup RecentIds(ordMgr)
        /\ ordMgr' = add(ordMgr, o) /\ used' = used \cup {o.orderId}
    BY <1>1 DEF AddOrder, IInv
  <2>3. /\ GoodGroup(ordMgr') /\ RecentIds(ordMgr') = RecentIds(ordMgr)
        /\ OpenIds(ordMgr') = OpenIds(ordMgr) \cup {o.orderId}
    BY <2>1, <2>2, AddGood DEF IInv
  <2>4. o.orderId \in OrderId
    BY <2>1 DEF Order
  <2> QED BY <2>2, <2>3, <2>4 DEF IInv
<1>2. ASSUME NEW id \in OrderId, RemoveOrder(id) PROVE IInv'
  BY <1>2, RemoveGood DEF RemoveOrder, IInv
<1>3. ASSUME NEW new \in ReportFromExch, OnReportFromExch(new) PROVE IInv'
  <2> DEFINE o == Lookup(ordMgr, new)
             p == updateByOrderInfoFromExch(o, new)
  <2>1. new \in Report /\ GoodGroup(ordMgr) /\ Found(ordMgr, new)
    BY <1>3, ReportAssumption DEF OnReportFromExch, IInv
  <2>2. p \in Order /\ Sound(p) /\ p.orderId = o.orderId
    BY <2>1, LookupHeld, MergeFromExch
  <2>3. o.orderId \in OpenIds(ordMgr) \cup RecentIds(ordMgr)
    BY <2>1, LookupHeld DEF RecentIds
  <2>4. ordMgr' = Store(ordMgr, p) /\ used' = used
    BY <1>3 DEF OnReportFromExch, UpdateFromExch
  <2> HIDE DEF o, p
  <2> QED BY <2>1, <2>2, <2>3, <2>4, StoreGood, StoreIds DEF IInv
<1>4. ASSUME NEW new \in ReportFromTDGW, OnReportFromTDGW(new) PROVE IInv'
  <2> DEFINE o == Lookup(ordMgr, new)
             p == updateByOrderInfoFromTDGW(o, new)
  <2>1. /\ new \in Report /\ GoodGroup(ordMgr) /\ Found(ordMgr, new)
        /\ new.dealSize = Signed(o.side, new.dealSize)
    BY <1>4, ReportAssumption DEF OnReportFromTDGW, IInv
  <2>2. p \in Order /\ Sound(p) /\ p.orderId = o.orderId
    BY <2>1, LookupHeld, MergeFromTDGW
  <2>3. o.orderId \in OpenIds(ordMgr) \cup RecentIds(ordMgr)
    BY <2>1, LookupHeld DEF RecentIds
  <2>4. ordMgr' = Store(ordMgr, p) /\ used' = used
    BY <1>4 DEF OnReportFromTDGW, UpdateFromTDGW
  <2> HIDE DEF o, p
  <2> QED BY <2>1, <2>2, <2>3, <2>4, StoreGood, StoreIds DEF IInv
<1>5. CASE UNCHANGED vars
  BY <1>5 DEF vars, IInv, GoodGroup, IsGroup, OpenIds, RecentIds
<1> QED BY <1>1, <1>2, <1>3, <1>4, <1>5 DEF Next

\* What the runs check, for every instance.
THEOREM InvImplies ==
  IInv => TypeOK /\ OneHome /\ OpenIsUnclosed /\ RecentBounded /\ FrozenNotNegative
<1> SUFFICES ASSUME IInv
             PROVE TypeOK /\ OneHome /\ OpenIsUnclosed /\ RecentBounded /\ FrozenNotNegative
  OBVIOUS
<1>1. OneHome /\ OpenIsUnclosed /\ RecentBounded
  BY DEF IInv, GoodGroup, OneHome, OpenIsUnclosed, RecentBounded
<1>3. ASSUME NEW id \in OrderId, Held(id)
      PROVE  Sound(OrderOf(ordMgr, id))
  <2>1. CASE id \in OpenIds(ordMgr)
    BY <2>1 DEF OrderOf, IInv, GoodGroup
  <2>2. CASE id \notin OpenIds(ordMgr)
    <3>1. \E i \in DOMAIN ordMgr.recent : ordMgr.recent[i].orderId = id
      BY <1>3, <2>2 DEF Held, RecentIds
    <3> DEFINE i == CHOOSE i \in DOMAIN ordMgr.recent : ordMgr.recent[i].orderId = id
    <3>2. i \in DOMAIN ordMgr.recent
      BY <3>1
    <3>3. OrderOf(ordMgr, id) = ordMgr.recent[i]
      BY <2>2 DEF OrderOf
    <3> QED BY <3>2, <3>3 DEF IInv, GoodGroup
  <2> QED BY <2>1, <2>2
<1>5. ASSUME NEW id \in OrderId, Held(id)
      PROVE  OrderOf(ordMgr, id) \in Order
  <2>1. CASE id \in OpenIds(ordMgr)
    BY <2>1 DEF OrderOf, IInv, GoodGroup, IsGroup, OpenIds
  <2>2. CASE id \notin OpenIds(ordMgr)
    <3>1. \E i \in DOMAIN ordMgr.recent : ordMgr.recent[i].orderId = id
      BY <1>5, <2>2 DEF Held, RecentIds
    <3> DEFINE i == CHOOSE i \in DOMAIN ordMgr.recent : ordMgr.recent[i].orderId = id
    <3>2. i \in DOMAIN ordMgr.recent
      BY <3>1
    <3>3. OrderOf(ordMgr, id) = ordMgr.recent[i]
      BY <2>2 DEF OrderOf
    <3>4. ordMgr.recent \in Seq(Order)
      BY DEF IInv, GoodGroup, IsGroup
    <3>5. ordMgr.recent[i] \in Order
      <4> HIDE DEF i
      <4> QED BY <3>2, <3>4
    <3> QED BY <3>3, <3>5
  <2> QED BY <2>1, <2>2
<1>6. ASSUME NEW o \in Order, Sound(o)
      PROVE  HasSignOfSide(o)
  <2>1. o.dealSize \in Int /\ o.side \in {"Bid", "Ask"}
    BY DEF Order
  <2> QED BY <1>6, <2>1 DEF Sound, Signed, Abs, HasSignOfSide
<1>4. TypeOK
  BY <1>3, <1>5, <1>6 DEF TypeOK, IInv, GoodGroup
<1>2. ASSUME NEW id \in OpenIds(ordMgr)
      PROVE  getUndealedSize(ordMgr.open[id]) >= 0
  <2> DEFINE o == ordMgr.open[id]
  <2>1. o \in Order /\ Sound(o) /\ ~closed(o)
    BY DEF IInv, GoodGroup, IsGroup, OpenIds
  <2>2. o.orderSize \in Nat /\ o.dealSize \in Int /\ o.side \in {"Bid", "Ask"}
    BY <2>1, SizeAssumption DEF Order
  <2> QED BY <2>1, <2>2 DEF Sound, Signed, Abs, getUndealedSize
<1> QED BY <1>1, <1>2, <1>4 DEF FrozenNotNegative

\* The manager's containers are well formed whatever is reported: no order
\* is held twice, none under way is closed, the recent ones stay bounded and
\* no frozen size is negative.
THEOREM Safety ==
  Spec => [](TypeOK /\ OneHome /\ OpenIsUnclosed /\ RecentBounded /\ FrozenNotNegative)
<1>1. Spec => []IInv
  BY InvInit, InvStep, PTL DEF Spec
<1> QED BY <1>1, InvImplies, PTL

-----------------------------------------------------------------------------
\* A recently closed order is what OrderOf finds by its orderId.
LEMMA RecentIsFound ==
  ASSUME NEW om, GoodGroup(om), NEW i \in DOMAIN om.recent
  PROVE  OrderOf(om, om.recent[i].orderId) = om.recent[i]
<1> DEFINE id == om.recent[i].orderId
           k == CHOOSE k \in DOMAIN om.recent : om.recent[k].orderId = id
<1>1. id \notin OpenIds(om)
  BY DEF GoodGroup, RecentIds
<1>2. k \in DOMAIN om.recent /\ om.recent[k].orderId = id
  OBVIOUS
<1>3. k = i
  <2> HIDE DEF k
  <2> QED BY <1>2 DEF GoodGroup
<1> QED BY <1>1, <1>3 DEF OrderOf

\* A report of a gateway does not change the status of an order that is
\* among the recently closed ones and is closed.
LEMMA TDGWKeepsClosed ==
  ASSUME IInv, IInv', NEW new \in ReportFromTDGW, OnReportFromTDGW(new),
         NEW id \in RecentIds(ordMgr) \cap RecentIds(ordMgr'),
         closed(OrderOf(ordMgr, id))
  PROVE  OrderOf(ordMgr', id).orderStatus = OrderOf(ordMgr, id).orderStatus
<1> DEFINE o == Lookup(ordMgr, new)
           p == updateByOrderInfoFromTDGW(o, new)
<1>1. /\ new \in Report /\ GoodGroup(ordMgr) /\ Found(ordMgr, new)
      /\ new.dealSize = Signed(o.side, new.dealSize)
  BY ReportAssumption DEF OnReportFromTDGW, IInv
<1>2. /\ o \in Order /\ Sound(o)
      /\ \/ o.orderId \in OpenIds(ordMgr)
         \/ \E i \in DOMAIN ordMgr.recent : o = ordMgr.recent[i]
  BY <1>1, LookupHeld
<1>3. p \in Order /\ p.orderId = o.orderId /\ (closed(o) => p.orderStatus = o.orderStatus)
  BY <1>1, <1>2, MergeFromTDGW
<1>4. ordMgr' = Store(ordMgr, p)
  BY DEF OnReportFromTDGW, UpdateFromTDGW
<1>5. PICK i \in DOMAIN ordMgr.recent : ordMgr.recent[i].orderId = id
  BY DEF RecentIds
<1>6. PICK j \in DOMAIN ordMgr'.recent : ordMgr'.recent[j].orderId = id
  BY DEF RecentIds
<1>7. OrderOf(ordMgr, id) = ordMgr.recent[i]
  BY <1>1, <1>5, RecentIsFound
<1>8. OrderOf(ordMgr', id) = ordMgr'.recent[j]
  <2>1. GoodGroup(ordMgr')
    BY DEF IInv
  <2> QED BY <1>6, <2>1, RecentIsFound
<1> HIDE DEF o, p
<1>9. CASE ordMgr'.recent[j] = p
  <2>1. o.orderId = id
    BY <1>3, <1>6, <1>9
  <2>2. o.orderId \notin OpenIds(ordMgr)
    BY <1>1, <2>1 DEF GoodGroup
  <2>3. PICK k \in DOMAIN ordMgr.recent : o = ordMgr.recent[k]
    BY <1>2, <2>2
  <2>4. k = i
    BY <1>1, <1>5, <2>1, <2>3 DEF GoodGroup
  <2> QED BY <1>3, <1>7, <1>8, <1>9, <2>3, <2>4
<1>10. CASE \E k \in DOMAIN ordMgr.recent : ordMgr'.recent[j] = ordMgr.recent[k]
  <2>1. PICK k \in DOMAIN ordMgr.recent : ordMgr'.recent[j] = ordMgr.recent[k]
    BY <1>10
  <2>2. k = i
    BY <1>1, <1>5, <1>6, <2>1 DEF GoodGroup
  <2> QED BY <1>7, <1>8, <2>1, <2>2
<1>11. \/ ordMgr'.recent[j] = p
       \/ \E k \in DOMAIN ordMgr.recent : ordMgr'.recent[j] = ordMgr.recent[k]
  BY <1>1, <1>3, <1>4, <1>6, StoreKeepsOthers
<1> QED BY <1>9, <1>10, <1>11

\* Outside the gateways a closed order keeps its status: no report of a
\* gateway changes it, for every set of reports and every bound.
THEOREM ClosedStatusKept == Spec => ClosedStatusKeptByTDGW
<1> DEFINE Changed ==
             \E id \in RecentIds(ordMgr) \cap RecentIds(ordMgr') :
               /\ closed(OrderOf(ordMgr, id))
               /\ OrderOf(ordMgr', id).orderStatus # OrderOf(ordMgr, id).orderStatus
           Step == Changed => ~ \E new \in ReportFromTDGW : OnReportFromTDGW(new)
<1>1. Spec => []IInv
  BY InvInit, InvStep, PTL DEF Spec
<1>2. IInv /\ IInv' => Step
  BY TDGWKeepsClosed
<1>3. ASSUME IInv, IInv', [Next]_vars PROVE [Step]_vars
  BY <1>2, <1>3
<1>4. [][Step]_vars => ClosedStatusKeptByTDGW
  BY DEF ClosedStatusKeptByTDGW
<1> QED BY <1>1, <1>3, <1>4, PTL DEF Spec
-----------------------------------------------------------------------------
\* An order under way is what OrderOf finds by its orderId.
LEMMA OpenIsFound ==
  ASSUME NEW om, NEW id \in OpenIds(om)
  PROVE  OrderOf(om, id) = om.open[id]
BY DEF OrderOf

\* Whoever is held is an order of that orderId.
LEMMA HeldIsOrder ==
  ASSUME NEW om, GoodGroup(om), NEW id \in OpenIds(om) \cup RecentIds(om)
  PROVE  /\ id \in OrderId
         /\ OrderOf(om, id) \in Order /\ OrderOf(om, id).orderId = id
         /\ Sound(OrderOf(om, id))
<1>1. PICK S \in SUBSET OrderId : om \in [open : [S -> Order], recent : Seq(Order)]
  BY DEF GoodGroup, IsGroup
<1>2. CASE id \in OpenIds(om)
  BY <1>1, <1>2, OpenIsFound DEF GoodGroup, OpenIds
<1>3. CASE id \in RecentIds(om)
  <2>1. PICK i \in DOMAIN om.recent : om.recent[i].orderId = id
    BY <1>3 DEF RecentIds
  <2>2. om.recent[i] \in Order /\ Sound(om.recent[i])
    BY <1>1 DEF GoodGroup
  <2>3. OrderOf(om, id) = om.recent[i]
    BY <2>1, RecentIsFound
  <2> QED BY <2>1, <2>2, <2>3 DEF Order
<1> QED BY <1>2, <1>3

\* Putting an order back: it is found as it was put back, if it is held, and
\* every other order is found as before.
LEMMA StoreFound ==
  ASSUME NEW om, GoodGroup(om), NEW o \in Order, Sound(o),
         o.orderId \in OpenIds(om) \cup RecentIds(om),
         NEW id \in OpenIds(Store(om, o)) \cup RecentIds(Store(om, o))
  PROVE  /\ id = o.orderId => OrderOf(Store(om, o), id) = o
         /\ id # o.orderId => OrderOf(Store(om, o), id) = OrderOf(om, id)
<1> DEFINE st == Store(om, o)
<1>0. GoodGroup(st)
  BY StoreGood
<1>1. PICK S \in SUBSET OrderId : om \in [open : [S -> Order], recent : Seq(Order)]
  BY DEF GoodGroup, IsGroup
<1>2. CASE id \in OpenIds(st)
  <2>1. OrderOf(st, id) = st.open[id]
    BY <1>2, OpenIsFound
  <2>2. CASE o.orderId \in OpenIds(om) /\ closed(o)
    BY <1>1, <1>2, <2>1, <2>2, OpenIsFound DEF Store, remove, OpenIds
  <2>3. CASE o.orderId \in OpenIds(om) /\ ~closed(o)
    BY <1>1, <1>2, <2>1, <2>3, OpenIsFound DEF Store, OpenIds
  <2>4. CASE o.orderId \notin OpenIds(om)
    BY <1>1, <1>2, <2>1, <2>4, OpenIsFound DEF Store, OpenIds
  <2> QED BY <2>2, <2>3, <2>4
<1>3. CASE id \in RecentIds(st)
  <2>1. PICK j \in DOMAIN st.recent : st.recent[j].orderId = id
    BY <1>3 DEF RecentIds
  <2>2. OrderOf(st, id) = st.recent[j]
    BY <1>0, <2>1, RecentIsFound
  <2>3. st.recent[j] = o \/ \E i \in DOMAIN om.recent : st.recent[j] = om.recent[i]
    BY StoreKeepsOthers
  <2>4. CASE id # o.orderId
    BY <2>1, <2>2, <2>3, <2>4, RecentIsFound
  <2>5. CASE id = o.orderId /\ o.orderId \notin OpenIds(om)
    <3>1. st.recent = [i \in DOMAIN om.recent |->
                         IF om.recent[i].orderId = o.orderId THEN o ELSE om.recent[i]]
      BY <1>1, <2>5 DEF Store
    <3> QED BY <2>1, <2>2, <2>5, <3>1
  <2>6. CASE id = o.orderId /\ o.orderId \in OpenIds(om)
    <3>1. o.orderId \notin RecentIds(om)
      BY <2>6 DEF GoodGroup
    <3> QED BY <2>1, <2>2, <2>3, <2>6, <3>1 DEF RecentIds
  <2> QED BY <2>4, <2>5, <2>6
<1> QED BY <1>2, <1>3
-----------------------------------------------------------------------------
\* Where the orders are in their lives, read off the containers.
PhaseIsRead ==
  /\ Phase = [x \in OrderId |-> Phase[x]]
  /\ \A id \in OrderId :
       /\ Phase[id] = "live" <=> id \in OpenIds(ordMgr)
       /\ Phase[id] = "done" <=> id \in RecentIds(ordMgr)
       /\ Phase[id] = "absent" <=> id \notin used
       /\ Phase[id] = "gone" <=> id \in used \ (OpenIds(ordMgr) \cup RecentIds(ordMgr))
       /\ Phase[id] \in {"live", "done", "absent", "gone"}

LEMMA PhaseOf == IInv => PhaseIsRead
<1> SUFFICES ASSUME IInv PROVE PhaseIsRead
  OBVIOUS
<1>1. OpenIds(ordMgr) \cap RecentIds(ordMgr) = {}
  BY DEF IInv, GoodGroup
<1>2. OpenIds(ordMgr) \cup RecentIds(ordMgr) \subseteq used
  BY DEF IInv
<1>3. ASSUME NEW id \in OrderId
      PROVE  /\ Phase[id] = "live" <=> id \in OpenIds(ordMgr)
             /\ Phase[id] = "done" <=> id \in RecentIds(ordMgr)
             /\ Phase[id] = "absent" <=> id \notin used
             /\ Phase[id] = "gone" <=> id \in used \ (OpenIds(ordMgr) \cup RecentIds(ordMgr))
             /\ Phase[id] \in {"live", "done", "absent", "gone"}
  <2>1. CASE id \in OpenIds(ordMgr)
    <3>1. Phase[id] = "live"
      BY <1>1, <2>1 DEF Phase, Held
    <3> QED BY <1>1, <1>2, <2>1, <3>1
  <2>2. CASE id \in RecentIds(ordMgr)
    <3>1. Phase[id] = "done"
      BY <1>1, <2>2 DEF Phase, Held
    <3> QED BY <1>1, <1>2, <2>2, <3>1
  <2>3. CASE id \notin OpenIds(ordMgr) \cup RecentIds(ordMgr)
    <3>1. Phase[id] = IF id \in used THEN "gone" ELSE "absent"
      BY <2>3 DEF Phase, Held
    <3> QED BY <1>2, <2>3, <3>1
  <2> QED BY <2>1, <2>2, <2>3
<1>4. Phase = [x \in OrderId |-> Phase[x]]
  <2> DEFINE e(id) == CASE id \in OpenIds(ordMgr) -> "live"
                       [] id \in RecentIds(ordMgr) \ OpenIds(ordMgr) -> "done"
                       [] ~Held(id) -> IF id \in used THEN "gone" ELSE "absent"
  <2>1. Phase = [x \in OrderId |-> e(x)]
    BY DEF Phase
  <2> HIDE DEF e
  <2> QED BY <2>1
<1> QED BY <1>3, <1>4 DEF PhaseIsRead

\* The instance counts as its importer does.
LEMMA LifeCardinality == \A S : Life!Cardinality(S) = Cardinality(S)
BY DEF Life!Cardinality, Cardinality

\* The orders that are done are the recently closed ones: the life of an
\* order has as much room for them as the container.
LEMMA DoneCardinality ==
  ASSUME IInv
  PROVE  Life!Done(Phase) = RecentIds(ordMgr) /\ Cardinality(Life!Done(Phase)) = Len(ordMgr.recent)
<1>1. GoodGroup(ordMgr)
  BY DEF IInv
<1>2. RecentIds(ordMgr) \subseteq OrderId
  BY <1>1, HeldIsOrder
<1>3. Life!Done(Phase) = RecentIds(ordMgr)
  BY <1>2, PhaseOf DEF PhaseIsRead, Life!Done
<1> QED BY <1>1, <1>3, RecentCardinality

\* The sizes dealt are natural numbers, read off the orders that are held.
DealtIsRead ==
  /\ Dealt = [x \in OrderId |-> Dealt[x]]
  /\ \A id \in OrderId :
       /\ Dealt[id] \in Nat
       /\ id \in OpenIds(ordMgr) \cup RecentIds(ordMgr)
            => Dealt[id] = Abs(OrderOf(ordMgr, id).dealSize)
       /\ id \notin OpenIds(ordMgr) \cup RecentIds(ordMgr) => Dealt[id] = 0

LEMMA DealtOf == IInv => DealtIsRead
<1> SUFFICES ASSUME IInv PROVE DealtIsRead
  OBVIOUS
<1>1. ASSUME NEW id \in OrderId, id \in OpenIds(ordMgr) \cup RecentIds(ordMgr)
      PROVE  Dealt[id] = Abs(OrderOf(ordMgr, id).dealSize) /\ Dealt[id] \in Nat
  <2>1. OrderOf(ordMgr, id).dealSize \in Int
    BY <1>1, HeldIsOrder DEF IInv, Order
  <2> QED BY <1>1, <2>1 DEF Dealt, Held, Abs
<1>2. ASSUME NEW id \in OrderId, id \notin OpenIds(ordMgr) \cup RecentIds(ordMgr)
      PROVE  Dealt[id] = 0
  BY <1>2 DEF Dealt, Held
<1>3. Dealt = [x \in OrderId |-> Dealt[x]]
  BY DEF Dealt
<1> QED BY <1>1, <1>2, <1>3 DEF DealtIsRead

\* An update of an order that is held, whoever reported it, is a step of its
\* life: a deal, or the end of the order, with or without room for it.
LEMMA UpdateIsLife ==
  ASSUME IInv, IInv', NEW o \in Order, Sound(o),
         o.orderId \in OpenIds(ordMgr) \cup RecentIds(ordMgr),
         Abs(o.dealSize) >= Abs(OrderOf(ordMgr, o.orderId).dealSize),
         ordMgr' = Store(ordMgr, o), used' = used
  PROVE  Life!LifecycleNext
<1> DEFINE id == o.orderId
<1>1. GoodGroup(ordMgr) /\ GoodGroup(ordMgr') /\ id \in OrderId
  BY DEF IInv, Order
<1>2. PhaseIsRead /\ DealtIsRead
  BY PhaseOf, DealtOf
<1>3. PhaseIsRead' /\ DealtIsRead'
  BY PhaseOf, DealtOf, PTL
<1>4. \A x \in OpenIds(ordMgr') \cup RecentIds(ordMgr') :
        /\ x = id => OrderOf(ordMgr', x) = o
        /\ x # id => OrderOf(ordMgr', x) = OrderOf(ordMgr, x)
  BY <1>1, StoreFound
<1>5. \A x \in OrderId \ {id} :
        /\ x \in OpenIds(ordMgr') => x \in OpenIds(ordMgr)
        /\ x \in RecentIds(ordMgr') => x \in RecentIds(ordMgr)
  BY <1>1, StoreFate
<1>6. id \in OpenIds(ordMgr') \cup RecentIds(ordMgr')
  BY <1>1, StoreFate
<1>7. Life!DealtGrows(id)
  BY <1>1, <1>2, <1>3, <1>4, <1>6 DEF Life!DealtGrows, DealtIsRead
<1>8. \A x \in OrderId \ {id} :
        \/ x \in OpenIds(ordMgr') \cup RecentIds(ordMgr')
        \/ x \notin OpenIds(ordMgr) \cup RecentIds(ordMgr)
        => Dealt'[x] = Dealt[x]
  BY <1>2, <1>3, <1>4, <1>5 DEF DealtIsRead
<1>9. CASE /\ id \in OpenIds(ordMgr) /\ closed(o) /\ id \notin RecentIds(ordMgr)
           /\ OpenIds(ordMgr') = OpenIds(ordMgr) \ {id}
           /\ Len(ordMgr.recent) < MaxClosed
           /\ RecentIds(ordMgr') = RecentIds(ordMgr) \cup {id}
  <2>1. Phase[id] = "live" /\ Cardinality(Life!Done(Phase)) < MaxClosed
    BY <1>1, <1>2, <1>9, DoneCardinality DEF PhaseIsRead
  <2>2. \A x \in OrderId : Phase'[x] = IF x = id THEN "done" ELSE Phase[x]
    BY <1>1, <1>2, <1>3, <1>9 DEF PhaseIsRead
  <2>3. Phase' = [Phase EXCEPT ![id] = "done"]
    BY <1>1, <1>2, <1>3, <2>2 DEF PhaseIsRead
  <2>4. \A x \in OrderId \ {id} : Dealt'[x] = Dealt[x]
    BY <1>8, <1>9
  <2>5. Dealt' = [Dealt EXCEPT ![id] = Dealt'[id]]
    BY <1>1, <1>2, <1>3, <2>4 DEF DealtIsRead
  <2>6. Life!Finish(id)
    BY <1>7, <2>1, <2>3, <2>5, LifeCardinality DEF Life!Finish
  <2> QED BY <1>1, <2>6 DEF Life!LifecycleNext
<1>10. CASE /\ id \in OpenIds(ordMgr) /\ closed(o) /\ id \notin RecentIds(ordMgr)
            /\ OpenIds(ordMgr') = OpenIds(ordMgr) \ {id}
            /\ Len(ordMgr.recent) = MaxClosed
            /\ ordMgr.recent[1].orderId \in RecentIds(ordMgr)
            /\ RecentIds(ordMgr') = (RecentIds(ordMgr) \ {ordMgr.recent[1].orderId}) \cup {id}
  <2> DEFINE old == ordMgr.recent[1].orderId
  <2>0. old \in OrderId /\ old # id
    BY <1>1, <1>10, HeldIsOrder
  <2>1. Phase[id] = "live" /\ Phase[old] = "done" /\ Cardinality(Life!Done(Phase)) = MaxClosed
    BY <1>1, <1>2, <1>10, <2>0, DoneCardinality DEF PhaseIsRead
  <2>2. old \notin OpenIds(ordMgr) /\ old \in used'
    BY <1>1, <1>10 DEF GoodGroup, IInv
  <2> HIDE DEF old
  <2>3. \A x \in OrderId :
          Phase'[x] = IF x = id THEN "done" ELSE IF x = old THEN "gone" ELSE Phase[x]
    BY <1>1, <1>2, <1>3, <1>10, <2>0, <2>2 DEF PhaseIsRead, old
  <2>4. Phase' = [Phase EXCEPT ![id] = "done", ![old] = "gone"]
    BY <1>1, <1>2, <1>3, <2>0, <2>3 DEF PhaseIsRead
  <2>5. \A x \in OrderId \ {id, old} : Dealt'[x] = Dealt[x]
    BY <1>8, <1>10 DEF old
  <2>6. Dealt'[old] = 0
    BY <1>3, <1>10, <2>0, <2>2 DEF DealtIsRead, old
  <2>7. Dealt' = [Dealt EXCEPT ![id] = Dealt'[id], ![old] = 0]
    BY <1>1, <1>2, <1>3, <2>0, <2>5, <2>6 DEF DealtIsRead
  <2>8. Life!FinishForgetting(id, old)
    BY <1>7, <2>1, <2>4, <2>7, LifeCardinality DEF Life!FinishForgetting
  <2> QED BY <1>1, <2>0, <2>8 DEF Life!LifecycleNext
<1>11. CASE /\ OpenIds(ordMgr') = OpenIds(ordMgr)
            /\ RecentIds(ordMgr') = RecentIds(ordMgr)
  <2>1. \A x \in OrderId : Phase'[x] = Phase[x]
    BY <1>2, <1>3, <1>11 DEF PhaseIsRead
  <2>2. Phase' = Phase /\ Phase[id] \in {"live", "done"}
    BY <1>1, <1>2, <1>3, <2>1 DEF PhaseIsRead
  <2>3. \A x \in OrderId \ {id} : Dealt'[x] = Dealt[x]
    BY <1>8, <1>11
  <2>4. Dealt' = [Dealt EXCEPT ![id] = Dealt'[id]]
    BY <1>1, <1>2, <1>3, <2>3 DEF DealtIsRead
  <2>5. Life!Deal(id)
    BY <1>7, <2>2, <2>4 DEF Life!Deal
  <2> QED BY <1>1, <2>5 DEF Life!LifecycleNext
<1> QED BY <1>1, <1>9, <1>10, <1>11, StoreFate
\* Every step of the manager is a step of the lives of its orders, or none.
LEMMA StepIsLife ==
  ASSUME IInv, IInv', [Next]_vars
  PROVE  [Life!LifecycleNext]_Life!lifecycleVars
<1>1. PhaseIsRead /\ DealtIsRead /\ GoodGroup(ordMgr)
  BY PhaseOf, DealtOf DEF IInv
<1>2. PhaseIsRead' /\ DealtIsRead'
  BY PhaseOf, DealtOf, PTL
<1>3. ASSUME NEW o \in NewOrder, AddOrder(o) PROVE Life!LifecycleNext
  <2> DEFINE id == o.orderId
  <2>1. o \in Order /\ ~closed(o) /\ Sound(o) /\ o.dealSize = 0
    BY NewOrderGood DEF NewOrder
  <2>2. /\ id \in OrderId /\ id \notin used
        /\ ordMgr' = add(ordMgr, o) /\ used' = used \cup {id}
    BY <1>3, <2>1 DEF AddOrder, Order
  <2>3. id \notin OpenIds(ordMgr) \cup RecentIds(ordMgr)
    BY <2>2 DEF IInv
  <2>4. /\ OpenIds(ordMgr') = OpenIds(ordMgr) \cup {id}
        /\ ordMgr'.recent = ordMgr.recent /\ RecentIds(ordMgr') = RecentIds(ordMgr)
        /\ ordMgr'.open[id] = o
        /\ \A x \in OpenIds(ordMgr) : ordMgr'.open[x] = ordMgr.open[x]
    BY <1>1, <2>1, <2>2, <2>3, AddGood
  <2>5. \A x \in OrderId : Phase'[x] = IF x = id THEN "live" ELSE Phase[x]
    BY <1>1, <1>2, <2>2, <2>3, <2>4 DEF PhaseIsRead
  <2>6. Phase' = [Phase EXCEPT ![id] = "live"] /\ Phase[id] = "absent"
    BY <1>1, <1>2, <2>2, <2>5 DEF PhaseIsRead
  <2>7. Dealt'[id] = 0 /\ Dealt[id] = 0
    <3>1. OrderOf(ordMgr', id) = o
      BY <2>4, OpenIsFound
    <3>2. Abs(o.dealSize) = 0
      BY <2>1 DEF Abs
    <3> QED BY <1>1, <1>2, <2>2, <2>3, <2>4, <3>1, <3>2 DEF DealtIsRead
  <2>8. \A x \in OpenIds(ordMgr) \cup RecentIds(ordMgr) :
          OrderOf(ordMgr', x) = OrderOf(ordMgr, x)
    BY <2>3, <2>4 DEF OrderOf
  <2>9. \A x \in OrderId : Dealt'[x] = Dealt[x]
    BY <1>1, <1>2, <2>4, <2>7, <2>8 DEF DealtIsRead
  <2>10. Dealt' = Dealt
    BY <1>1, <1>2, <2>9 DEF DealtIsRead
  <2> QED BY <2>2, <2>6, <2>10 DEF Life!LifecycleNext, Life!Accept
<1>4. ASSUME NEW id \in OrderId, RemoveOrder(id) PROVE Life!LifecycleNext
  <2>1. /\ id \in OpenIds(ordMgr) /\ id \notin RecentIds(ordMgr) /\ id \in used
        /\ ordMgr' = remove(ordMgr, id) /\ used' = used
    BY <1>1, <1>4 DEF RemoveOrder, GoodGroup, IInv
  <2>2. /\ OpenIds(ordMgr') = OpenIds(ordMgr) \ {id}
        /\ ordMgr'.recent = ordMgr.recent /\ RecentIds(ordMgr') = RecentIds(ordMgr)
        /\ \A x \in OpenIds(ordMgr') : ordMgr'.open[x] = ordMgr.open[x]
    BY <1>1, <2>1, RemoveGood
  <2>3. \A x \in OrderId : Phase'[x] = IF x = id THEN "gone" ELSE Phase[x]
    BY <1>1, <1>2, <2>1, <2>2 DEF PhaseIsRead
  <2>4. Phase' = [Phase EXCEPT ![id] = "gone"] /\ Phase[id] = "live"
    BY <1>1, <1>2, <2>1, <2>3 DEF PhaseIsRead
  <2>5. \A x \in OpenIds(ordMgr') \cup RecentIds(ordMgr') :
          OrderOf(ordMgr', x) = OrderOf(ordMgr, x)
    BY <1>1, <2>1, <2>2 DEF OrderOf, GoodGroup
  <2>6. \A x \in OrderId : Dealt'[x] = IF x = id THEN 0 ELSE Dealt[x]
    BY <1>1, <1>2, <2>1, <2>2, <2>5 DEF DealtIsRead
  <2>7. Dealt' = [Dealt EXCEPT ![id] = 0]
    BY <1>1, <1>2, <2>6 DEF DealtIsRead
  <2> QED BY <2>4, <2>7 DEF Life!LifecycleNext, Life!Withdraw
<1>5. ASSUME NEW new, Found(ordMgr, new), NEW p \in Order, Sound(p),
             p.orderId = Lookup(ordMgr, new).orderId,
             Abs(p.dealSize) >= Abs(Lookup(ordMgr, new).dealSize),
             ordMgr' = Store(ordMgr, p), used' = used
      PROVE  Life!LifecycleNext
  <2> DEFINE o == Lookup(ordMgr, new)
  <2>1. /\ o.orderId \in OpenIds(ordMgr) \cup RecentIds(ordMgr)
        /\ OrderOf(ordMgr, o.orderId) = o
    BY <1>1, <1>5, LookupHeld, OpenIsFound, RecentIsFound DEF RecentIds
  <2> QED BY <1>5, <2>1, UpdateIsLife
<1>6. ASSUME NEW new \in ReportFromExch, OnReportFromExch(new) PROVE Life!LifecycleNext
  <2> DEFINE o == Lookup(ordMgr, new)
             p == updateByOrderInfoFromExch(o, new)
  <2>1. new \in Report /\ Found(ordMgr, new)
    BY <1>6, ReportAssumption DEF OnReportFromExch
  <2>2. p \in Order /\ Sound(p) /\ p.orderId = o.orderId /\ Abs(p.dealSize) >= Abs(o.dealSize)
    BY <1>1, <2>1, LookupHeld, MergeFromExch
  <2>3. ordMgr' = Store(ordMgr, p) /\ used' = used
    BY <1>6 DEF OnReportFromExch, UpdateFromExch
  <2> HIDE DEF p
  <2> QED BY <1>5, <2>1, <2>2, <2>3
<1>7. ASSUME NEW new \in ReportFromTDGW, OnReportFromTDGW(new) PROVE Life!LifecycleNext
  <2> DEFINE o == Lookup(ordMgr, new)
             p == updateByOrderInfoFromTDGW(o, new)
  <2>1. /\ new \in Report /\ Found(ordMgr, new)
        /\ new.dealSize = Signed(o.side, new.dealSize)
    BY <1>7, ReportAssumption DEF OnReportFromTDGW
  <2>2. p \in Order /\ Sound(p) /\ p.orderId = o.orderId /\ Abs(p.dealSize) >= Abs(o.dealSize)
    BY <1>1, <2>1, LookupHeld, MergeFromTDGW
  <2>3. ordMgr' = Store(ordMgr, p) /\ used' = used
    BY <1>7 DEF OnReportFromTDGW, UpdateFromTDGW
  <2> HIDE DEF p
  <2> QED BY <1>5, <2>1, <2>2, <2>3
<1>8. CASE UNCHANGED vars
  BY <1>8 DEF vars, Life!lifecycleVars, Phase, Dealt, Held, OpenIds, RecentIds, OrderOf
<1> QED BY <1>3, <1>4, <1>6, <1>7, <1>8 DEF Next

\* The manager implements the life of an order: whatever is reported, in any
\* order and however often, a closed order is never under way again, a size
\* dealt is never taken back, and a closed order is forgotten only when the
\* recent ones are full.
THEOREM Implements == Spec => ImplementsLifecycle
<1>1. Spec => []IInv
  BY InvInit, InvStep, PTL DEF Spec
<1>2. Init => Life!LifecycleInit
  <2> SUFFICES ASSUME Init PROVE Life!LifecycleInit
    OBVIOUS
  <2>1. IInv
    BY InvInit
  <2>2. PhaseIsRead /\ DealtIsRead
    BY <2>1, PhaseOf, DealtOf
  <2>3. OpenIds(ordMgr) = {} /\ RecentIds(ordMgr) = {} /\ used = {}
    BY EmptyGood DEF Init
  <2>4. \A id \in OrderId : Phase[id] = "absent" /\ Dealt[id] = 0
    BY <2>2, <2>3 DEF PhaseIsRead, DealtIsRead
  <2> QED BY <2>2, <2>4 DEF Life!LifecycleInit, PhaseIsRead, DealtIsRead
<1>3. IInv /\ IInv' /\ [Next]_vars => [Life!LifecycleNext]_Life!lifecycleVars
  BY StepIsLife
<1> QED BY <1>1, <1>2, <1>3, PTL DEF Spec, ImplementsLifecycle, Life!LifecycleSpec
=============================================================================
