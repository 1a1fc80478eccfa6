--------------------------- MODULE OrderGroupProofs ---------------------------
(***************************************************************************)
(* What the operations of the two containers preserve, for every set of    *)
(* orders and sizes and every bound on the recently closed orders: the     *)
(* lemmas the proofs about an order manager and about a gateway rest on.   *)
(* A group is Good when its containers are well formed and each order is   *)
(* Sound, i.e. its deal size carries the sign of its side and stays within *)
(* the order until the order is closed.  Without the sign the size a trade *)
(* return adds could cancel what was dealt; without the bound a partly     *)
(* filled order could be about to be overfilled while it is still open.    *)
(***************************************************************************)
EXTENDS OrderGroup, FiniteSetTheorems, TLAPS

Sound(o) ==
  /\ o.dealSize = Signed(o.side, o.dealSize)
  /\ ~closed(o) => Abs(o.dealSize) <= o.orderSize

GoodGroup(om) ==
  /\ IsGroup(om)
  /\ OpenIds(om) \cap RecentIds(om) = {}
  /\ \A id \in OpenIds(om) :
       om.open[id].orderId = id /\ ~closed(om.open[id]) /\ Sound(om.open[id])
  /\ \A i \in DOMAIN om.recent : Sound(om.recent[i])
  /\ \A i, j \in DOMAIN om.recent :
       om.recent[i].orderId = om.recent[j].orderId => i = j
  /\ Len(om.recent) <= MaxClosed

-----------------------------------------------------------------------------
\* What merging a report of the exchange into an order preserves: the type,
\* the identity and the terms of the order, and soundness; the size dealt
\* does not shrink (OrderInfo::updateByOrderInfoFromExch).
LEMMA MergeFromExch ==
  ASSUME NEW o \in Order, NEW new \in Report, Sound(o)
  PROVE  LET p == updateByOrderInfoFromExch(o, new) IN
         /\ p \in Order /\ Sound(p)
         /\ p.orderId = o.orderId
         /\ Abs(p.dealSize) >= Abs(o.dealSize)
<1> DEFINE d == DealSizeFromExch(o, new)
           s == StatusFromExch(o, new)
<1>1. /\ o.orderSize \in Nat \ {0} /\ o.dealSize \in Int
      /\ o.orderStatus \in OrderStatus /\ o.side \in {"Bid", "Ask"}
      /\ new.dealSize \in Int /\ new.lastDealSize \in Int
      /\ new.orderStatus \in OrderStatus
  BY SizeAssumption DEF Order, Report
<1>2. d \in Int /\ d = Signed(o.side, d) /\ Abs(d) >= Abs(o.dealSize)
  <2>1. CASE DealSizeIsValid(o, new)
    <3>1. ~IsRtnTrade(new)
      BY <1>1, <2>1 DEF DealSizeIsValid, IsRtnTrade, Abs
    <3>2. d = Signed(o.side, new.dealSize)
      BY <2>1, <3>1 DEF DealSizeFromExch
    <3>3. Abs(new.dealSize) > Abs(o.dealSize)
      BY <2>1 DEF DealSizeIsValid
    <3> QED BY <1>1, <3>2, <3>3 DEF Signed, Abs
  <2>2. CASE IsRtnTrade(new)
    <3>1. d = o.dealSize + Signed(o.side, new.lastDealSize)
      BY <1>1, <2>2 DEF DealSizeFromExch, DealSizeIsValid, IsRtnTrade, Abs
    <3> QED BY <1>1, <3>1 DEF Sound, Signed, Abs
  <2>3. CASE ~DealSizeIsValid(o, new) /\ ~IsRtnTrade(new)
    <3>1. d = o.dealSize
      BY <2>3 DEF DealSizeFromExch
    <3> QED BY <1>1, <3>1 DEF Sound, Abs
  <2> QED BY <2>1, <2>2, <2>3
<1>3. s \in OrderStatus
  BY <1>1 DEF StatusFromExch, OrderStatus
<1>4. s < Filled => Abs(d) <= o.orderSize
  <2>1. CASE IsRtnTrade(new)
    <3>1. CASE Abs(d) < o.orderSize
      BY <1>1, <1>2, <3>1 DEF Abs
    <3>2. CASE ~(Abs(d) < o.orderSize)
      <4>1. s = Filled
        BY <2>1, <3>2 DEF StatusFromExch
      <4> QED BY <4>1 DEF Filled
    <3> QED BY <3>1, <3>2
  <2>2. CASE ~IsRtnTrade(new) /\ DealSizeIsValid(o, new)
    <3>1. d = Signed(o.side, new.dealSize)
      BY <2>2 DEF DealSizeFromExch
    <3>2. Abs(new.dealSize) <= o.orderSize
      BY <2>2 DEF DealSizeIsValid
    <3> QED BY <1>1, <3>1, <3>2 DEF Signed, Abs
  <2>3. CASE ~IsRtnTrade(new) /\ ~DealSizeIsValid(o, new)
    <3>1. d = o.dealSize
      BY <2>3 DEF DealSizeFromExch
    <3>2. s < Filled => ~closed(o)
      BY <1>1, <2>3 DEF StatusFromExch, StatusAdvances, closed, OrderStatus, Created,
         ConfirmedInLocal, Pending, ConfirmedByExch, PartialFilled, Filled,
         Canceled, PartialFilledCanceled, Failed
    <3> QED BY <3>1, <3>2 DEF Sound
  <2> QED BY <2>1, <2>2, <2>3
<1>5. /\ updateByOrderInfoFromExch(o, new) \in Order
      /\ updateByOrderInfoFromExch(o, new).orderId = o.orderId
      /\ updateByOrderInfoFromExch(o, new).side = o.side
      /\ updateByOrderInfoFromExch(o, new).orderSize = o.orderSize
      /\ updateByOrderInfoFromExch(o, new).dealSize = d
      /\ updateByOrderInfoFromExch(o, new).orderStatus = s
  BY <1>2, <1>3 DEF updateByOrderInfoFromExch, WithStaticFields, SetOnce, Order, Report
<1>6. s \in Int
  BY <1>3 DEF OrderStatus, Created, ConfirmedInLocal, Pending, ConfirmedByExch,
     PartialFilled, Filled, Canceled, PartialFilledCanceled, Failed
<1>7. Sound(updateByOrderInfoFromExch(o, new))
  <2> HIDE DEF d, s
  <2> QED BY <1>2, <1>4, <1>5, <1>6 DEF Sound, closed, Filled
<1> QED BY <1>2, <1>5, <1>7

\* The same for a report of a gateway, whose size carries the order's sign
\* (OrderInfo::updateByOrderInfoFromTDGW).
LEMMA MergeFromTDGW ==
  ASSUME NEW o \in Order, NEW new \in Report, Sound(o),
         new.dealSize = Signed(o.side, new.dealSize)
  PROVE  LET p == updateByOrderInfoFromTDGW(o, new) IN
         /\ p \in Order /\ Sound(p)
         /\ p.orderId = o.orderId
         /\ Abs(p.dealSize) >= Abs(o.dealSize)
         /\ closed(o) => p.orderStatus = o.orderStatus
<1> DEFINE d == IF DealSizeIsValid(o, new) THEN new.dealSize ELSE o.dealSize
           s == IF StatusAdvances(o, new) THEN new.orderStatus ELSE o.orderStatus
           p == updateByOrderInfoFromTDGW(o, new)
<1>1. /\ o.orderSize \in Nat \ {0} /\ o.dealSize \in Int
      /\ o.orderStatus \in OrderStatus /\ o.side \in {"Bid", "Ask"}
      /\ new.dealSize \in Int /\ new.orderStatus \in OrderStatus
  BY SizeAssumption DEF Order, Report
<1>2. d \in Int /\ d = Signed(o.side, d) /\ Abs(d) >= Abs(o.dealSize)
  BY <1>1 DEF DealSizeIsValid, Sound, Abs
<1>3. s \in OrderStatus
  BY <1>1
<1>4. s \in Int /\ o.orderStatus \in Int /\ new.orderStatus \in Int
  BY <1>1, <1>3 DEF OrderStatus, Created, ConfirmedInLocal, Pending,
     ConfirmedByExch, PartialFilled, Filled, Canceled, PartialFilledCanceled, Failed
<1>5. s < Filled => Abs(d) <= o.orderSize
  BY <1>1, <1>4 DEF Sound, DealSizeIsValid, StatusAdvances, closed, Filled, Abs
<1>6. /\ p \in Order
      /\ p.orderId = o.orderId /\ p.side = o.side /\ p.orderSize = o.orderSize
      /\ p.dealSize = d /\ p.orderStatus = s
  BY <1>2, <1>3 DEF updateByOrderInfoFromTDGW, WithStaticFields, SetOnce, Order, Report
<1>7. Sound(p)
  <2> HIDE DEF d, s, p
  <2> QED BY <1>2, <1>4, <1>5, <1>6 DEF Sound, closed, Filled
<1>8. closed(o) => s = o.orderStatus
  BY DEF StatusAdvances
<1> QED BY <1>2, <1>6, <1>7, <1>8

-----------------------------------------------------------------------------
\* A report that finds an order finds one that is held, by one of its keys.
LEMMA LookupHeld ==
  ASSUME NEW om, GoodGroup(om), NEW new, Found(om, new)
  PROVE  LET o == Lookup(om, new) IN
         /\ o \in Order /\ Sound(o)
         /\ \/ o.orderId \in OpenIds(om) /\ o = om.open[o.orderId]
            \/ \E i \in DOMAIN om.recent : o = om.recent[i]
<1>1. PICK S \in SUBSET OrderId : om \in [open : [S -> Order], recent : Seq(Order)]
  BY DEF GoodGroup, IsGroup
<1>2. CASE OpenMatch(om, new) # {}
  <2> DEFINE id == CHOOSE x \in OpenMatch(om, new) : TRUE
  <2>1. id \in OpenIds(om)
    BY <1>2 DEF OpenMatch
  <2>2. Lookup(om, new) = om.open[id]
    BY <1>2 DEF Lookup
  <2> QED BY <1>1, <2>1, <2>2 DEF GoodGroup, OpenIds
<1>3. CASE OpenMatch(om, new) = {}
  <2> DEFINE i == CHOOSE x \in RecentMatch(om, new) : TRUE
  <2>1. i \in DOMAIN om.recent
    BY <1>3 DEF Found, RecentMatch
  <2>2. Lookup(om, new) = om.recent[i]
    BY <1>3 DEF Lookup
  <2> HIDE DEF i
  <2>3. om.recent[i] \in Order /\ Sound(om.recent[i])
    BY <1>1, <2>1 DEF GoodGroup
  <2> QED BY <2>1, <2>2, <2>3
<1> QED BY <1>2, <1>3

\* Forgetting the oldest order, when there are too many, keeps what holds of
\* the elements and their distinctness.
LEMMA PushRecentGood ==
  ASSUME NEW om, GoodGroup(om), NEW o \in Order, Sound(o), o.orderId \notin RecentIds(om)
  PROVE  LET r == PushRecent(om.recent, o) IN
         /\ r \in Seq(Order) /\ Len(r) <= MaxClosed
         /\ \A i \in DOMAIN r : Sound(r[i])
         /\ \A i \in DOMAIN r : r[i].orderId \in RecentIds(om) \cup {o.orderId}
         /\ \A i, j \in DOMAIN r : r[i].orderId = r[j].orderId => i = j
<1> DEFINE q == om.recent
           g == Append(q, o)
<1>1. q \in Seq(Order) /\ Len(q) <= MaxClosed /\ Len(q) \in Nat /\ DOMAIN q = 1..Len(q)
  BY DEF GoodGroup, IsGroup
<1>2. /\ g \in Seq(Order) /\ Len(g) = Len(q) + 1 /\ DOMAIN g = 1..(Len(q) + 1)
      /\ \A i \in 1..Len(q) : g[i] = q[i]
      /\ g[Len(q) + 1] = o
  BY <1>1
<1>3. PushRecent(q, o) = IF Len(g) > MaxClosed THEN Tail(g) ELSE g
  BY DEF PushRecent, RecentIds
<1>4. /\ \A i \in DOMAIN g : Sound(g[i])
      /\ \A i \in DOMAIN g : g[i].orderId \in RecentIds(om) \cup {o.orderId}
      /\ \A i, j \in DOMAIN g : g[i].orderId = g[j].orderId => i = j
  <2>1. \A i \in 1..Len(q) : Sound(q[i]) /\ q[i].orderId \in RecentIds(om)
    BY <1>1 DEF GoodGroup, RecentIds
  <2>2. \A i, j \in 1..Len(q) : q[i].orderId = q[j].orderId => i = j
    BY <1>1 DEF GoodGroup
  <2> HIDE DEF q, g
  <2> QED BY <1>1, <1>2, <2>1, <2>2
<1>5. CASE Len(g) > MaxClosed
  <2>1. /\ Tail(g) \in Seq(Order) /\ Len(Tail(g)) = Len(q)
        /\ DOMAIN Tail(g) = 1..Len(q)
        /\ \A i \in 1..Len(q) : Tail(g)[i] = g[i + 1]
    BY <1>1, <1>2
  <2> HIDE DEF q, g
  <2>2. \A i \in DOMAIN Tail(g) : i + 1 \in DOMAIN g /\ i \in Int
    BY <1>1, <1>2, <2>1
  <2> QED BY <1>1, <1>3, <1>4, <1>5, <2>1, <2>2 DEF q
<1>6. CASE ~(Len(g) > MaxClosed)
  BY <1>1, <1>2, <1>3, <1>4, <1>6, MaxClosedAssumption
<1> QED BY <1>5, <1>6

\* Putting an updated order back where it was found keeps the group good.
\* The order may have closed, or be a closed one whose status moved on.
LEMMA StoreGood ==
  ASSUME NEW om, GoodGroup(om), NEW o \in Order, Sound(o),
         o.orderId \in OpenIds(om) \cup RecentIds(om)
  PROVE  GoodGroup(Store(om, o))
<1>0. PICK st : st = Store(om, o)
  OBVIOUS
<1>1. PICK S \in SUBSET OrderId : om \in [open : [S -> Order], recent : Seq(Order)]
  BY DEF GoodGroup, IsGroup
<1>2. OpenIds(om) = S
  BY <1>1 DEF OpenIds
<1>3. CASE o.orderId \in OpenIds(om) /\ closed(o)
  <2> DEFINE r == PushRecent(om.recent, o)
             f == [x \in S \ {o.orderId} |-> om.open[x]]
  <2>1. st = [open |-> f, recent |-> r]
    BY <1>0, <1>1, <1>3 DEF Store, remove
  <2>2. o.orderId \notin RecentIds(om)
    BY <1>3 DEF GoodGroup
  <2>3. /\ r \in Seq(Order) /\ Len(r) <= MaxClosed
        /\ \A i \in DOMAIN r : Sound(r[i])
        /\ \A i \in DOMAIN r : r[i].orderId \in RecentIds(om) \cup {o.orderId}
        /\ \A i, j \in DOMAIN r : r[i].orderId = r[j].orderId => i = j
    BY <2>2, PushRecentGood
  <2>4. /\ f \in [S \ {o.orderId} -> Order] /\ S \ {o.orderId} \in SUBSET OrderId
        /\ \A id \in S \ {o.orderId} : f[id] = om.open[id]
    BY <1>1
  <2> HIDE DEF r, f
  <2>5. IsGroup(st)
    BY <2>1, <2>3, <2>4 DEF IsGroup
  <2>6. OpenIds(st) = S \ {o.orderId} /\ st.open = f /\ st.recent = r
    BY <2>1, <2>4 DEF OpenIds
  <2>7. OpenIds(st) \cap RecentIds(st) = {}
    BY <1>2, <2>3, <2>6 DEF RecentIds, GoodGroup
  <2>8. \A id \in OpenIds(st) :
          st.open[id].orderId = id /\ ~closed(st.open[id]) /\ Sound(st.open[id])
    BY <1>2, <2>4, <2>6 DEF GoodGroup
  <2>9. GoodGroup(st)
    BY <2>3, <2>5, <2>6, <2>7, <2>8 DEF GoodGroup
  <2> QED BY <1>0, <2>9
<1>4. CASE o.orderId \in OpenIds(om) /\ ~closed(o)
  <2> DEFINE f == [om.open EXCEPT ![o.orderId] = o]
  <2>1. st = [open |-> f, recent |-> om.recent]
    BY <1>0, <1>1, <1>4 DEF Store
  <2>2. /\ f \in [S -> Order] /\ f[o.orderId] = o
        /\ \A id \in S \ {o.orderId} : f[id] = om.open[id]
    BY <1>1, <1>2, <1>4
  <2>3. IsGroup(st)
    BY <1>1, <2>1, <2>2 DEF IsGroup
  <2> HIDE DEF f
  <2>4. OpenIds(st) = S /\ st.open = f /\ st.recent = om.recent
    BY <2>1, <2>2 DEF OpenIds
  <2>5. \A id \in S : f[id].orderId = id /\ ~closed(f[id]) /\ Sound(f[id])
    BY <1>2, <1>4, <2>2 DEF GoodGroup
  <2>9. GoodGroup(st)
    BY <1>2, <2>3, <2>4, <2>5 DEF GoodGroup, RecentIds
  <2> QED BY <1>0, <2>9
<1>5. CASE o.orderId \notin OpenIds(om)
  <2> DEFINE q == om.recent
             r == [i \in DOMAIN q |-> IF q[i].orderId = o.orderId THEN o ELSE q[i]]
  <2>1. st = [open |-> om.open, recent |-> r]
    BY <1>0, <1>1, <1>5 DEF Store
  <2>2. q \in Seq(Order) /\ DOMAIN q = 1..Len(q) /\ Len(q) \in Nat
    BY <1>1
  <2>3. /\ r \in Seq(Order) /\ Len(r) = Len(q) /\ DOMAIN r = DOMAIN q
        /\ \A i \in DOMAIN q : r[i].orderId = q[i].orderId
        /\ \A i \in DOMAIN q : r[i] = o \/ r[i] = q[i]
    <3>1. r \in [1..Len(q) -> Order]
      BY <2>2
    <3> QED BY <2>2, <3>1
  <2> HIDE DEF r
  <2>4. IsGroup(st)
    BY <1>1, <2>1, <2>3 DEF IsGroup
  <2>5. OpenIds(st) = OpenIds(om) /\ st.open = om.open /\ st.recent = r
    BY <2>1 DEF OpenIds
  <2>6. RecentIds(st) = RecentIds(om)
    BY <2>3, <2>5 DEF RecentIds
  <2>9. GoodGroup(st)
    BY <2>3, <2>4, <2>5, <2>6 DEF GoodGroup
  <2> QED BY <1>0, <2>9
<1> QED BY <1>0, <1>3, <1>4, <1>5

\* Putting an order back adds no order to the group.
LEMMA StoreIds ==
  ASSUME NEW om, GoodGroup(om), NEW o \in Order,
         o.orderId \in OpenIds(om) \cup RecentIds(om), Sound(o)
  PROVE  OpenIds(Store(om, o)) \cup RecentIds(Store(om, o))
           \subseteq OpenIds(om) \cup RecentIds(om)
<1>1. PICK S \in SUBSET OrderId : om \in [open : [S -> Order], recent : Seq(Order)]
  BY DEF GoodGroup, IsGroup
<1>2. CASE o.orderId \in OpenIds(om) /\ closed(o)
  <2>1. o.orderId \notin RecentIds(om)
    BY <1>2 DEF GoodGroup
  <2>2. \A i \in DOMAIN PushRecent(om.recent, o) :
          PushRecent(om.recent, o)[i].orderId \in RecentIds(om) \cup {o.orderId}
    BY <2>1, PushRecentGood
  <2> QED BY <1>1, <1>2, <2>2 DEF Store, remove, OpenIds, RecentIds
<1>3. CASE o.orderId \in OpenIds(om) /\ ~closed(o)
  BY <1>1, <1>3 DEF Store, OpenIds, RecentIds
<1>4. CASE o.orderId \notin OpenIds(om)
  BY <1>1, <1>4 DEF Store, OpenIds, RecentIds
<1> QED BY <1>2, <1>3, <1>4

\* Putting an order back leaves every other recently closed order as it was.
LEMMA StoreKeepsOthers ==
  ASSUME NEW om, GoodGroup(om), NEW o \in Order,
         NEW j \in DOMAIN Store(om, o).recent
  PROVE  LET p == Store(om, o).recent[j] IN
         p = o \/ \E i \in DOMAIN om.recent : p = om.recent[i]
<1> DEFINE q == om.recent
           g == Append(q, o)
<1>1. PICK S \in SUBSET OrderId : om \in [open : [S -> Order], recent : Seq(Order)]
  BY DEF GoodGroup, IsGroup
<1>2. q \in Seq(Order) /\ Len(q) \in Nat /\ DOMAIN q = 1..Len(q)
  BY <1>1
<1>3. CASE o.orderId \in OpenIds(om) /\ closed(o)
  <2>1. Store(om, o).recent = PushRecent(q, o)
    BY <1>3 DEF Store
  <2>2. o.orderId \notin RecentIds(om)
    BY <1>3 DEF GoodGroup
  <2>3. PushRecent(q, o) = IF Len(g) > MaxClosed THEN Tail(g) ELSE g
    BY <2>2 DEF PushRecent, RecentIds
  <2>4. /\ g \in Seq(Order) /\ Len(g) = Len(q) + 1 /\ DOMAIN g = 1..(Len(q) + 1)
        /\ \A i \in 1..Len(q) : g[i] = q[i]
        /\ g[Len(q) + 1] = o
    BY <1>2
  <2>5. DOMAIN Tail(g) = 1..Len(q) /\ \A i \in 1..Len(q) : Tail(g)[i] = g[i + 1]
    BY <1>2, <2>4
  <2> HIDE DEF q, g
  <2>6. \A i \in DOMAIN g : g[i] = o \/ \E k \in DOMAIN q : g[i] = q[k]
    BY <1>2, <2>4
  <2>7. CASE Len(g) > MaxClosed
    <3>1. j \in 1..Len(q) /\ Store(om, o).recent[j] = g[j + 1]
      BY <2>1, <2>3, <2>5, <2>7
    <3>2. j + 1 \in DOMAIN g
      BY <1>2, <2>4, <3>1
    <3> QED BY <2>6, <3>1, <3>2 DEF q
  <2>8. CASE ~(Len(g) > MaxClosed)
    BY <2>1, <2>3, <2>6, <2>8 DEF q
  <2> QED BY <2>7, <2>8
<1>4. CASE o.orderId \in OpenIds(om) /\ ~closed(o)
  BY <1>1, <1>4 DEF Store
<1>5. CASE o.orderId \notin OpenIds(om)
  BY <1>1, <1>5 DEF Store
<1> QED BY <1>3, <1>4, <1>5

-----------------------------------------------------------------------------
\* An order manager starts with nothing.
LEMMA EmptyGood ==
  GoodGroup(EmptyGroup) /\ OpenIds(EmptyGroup) = {} /\ RecentIds(EmptyGroup) = {}
<1>1. IsGroup(EmptyGroup)
  <2>1. EmptyGroup \in [open : [{} -> Order], recent : Seq(Order)]
    BY DEF EmptyGroup
  <2> QED BY <2>1 DEF IsGroup
<1>2. OpenIds(EmptyGroup) = {} /\ EmptyGroup.recent = << >>
  BY DEF EmptyGroup, OpenIds
<1> QED BY <1>1, <1>2, MaxClosedAssumption DEF GoodGroup, RecentIds

\* An order that is not held and not closed may be added (OrdMgr::add).
LEMMA AddGood ==
  ASSUME NEW om, GoodGroup(om), NEW o \in Order, Sound(o), ~closed(o),
         o.orderId \notin OpenIds(om) \cup RecentIds(om)
  PROVE  LET am == add(om, o) IN
         /\ GoodGroup(am) /\ am.recent = om.recent
         /\ OpenIds(am) = OpenIds(om) \cup {o.orderId}
         /\ RecentIds(am) = RecentIds(om)
         /\ am.open[o.orderId] = o
         /\ \A id \in OpenIds(om) : am.open[id] = om.open[id]
<1>0. PICK am : am = add(om, o)
  OBVIOUS
<1>1. PICK S \in SUBSET OrderId : om \in [open : [S -> Order], recent : Seq(Order)]
  BY DEF GoodGroup, IsGroup
<1> DEFINE f == [id \in S \cup {o.orderId} |-> IF id = o.orderId THEN o ELSE om.open[id]]
<1>2. am = [open |-> f, recent |-> om.recent]
  BY <1>0, <1>1 DEF add
<1>3. /\ f \in [S \cup {o.orderId} -> Order] /\ S \cup {o.orderId} \in SUBSET OrderId
      /\ f[o.orderId] = o
      /\ \A id \in S : id # o.orderId => f[id] = om.open[id]
  BY <1>1 DEF Order
<1> HIDE DEF f
<1>4. /\ OpenIds(om) = S /\ OpenIds(am) = S \cup {o.orderId}
      /\ am.open = f /\ am.recent = om.recent /\ RecentIds(am) = RecentIds(om)
  BY <1>1, <1>2, <1>3 DEF OpenIds, RecentIds
<1>5. IsGroup(am)
  BY <1>1, <1>2, <1>3 DEF IsGroup
<1>6. \A id \in S \cup {o.orderId} : f[id].orderId = id /\ ~closed(f[id]) /\ Sound(f[id])
  BY <1>3, <1>4 DEF GoodGroup
<1>7. GoodGroup(am)
  BY <1>4, <1>5, <1>6 DEF GoodGroup
<1> QED BY <1>0, <1>3, <1>4, <1>7

\* Taking an order away leaves the others as they were (OrdMgr::remove).
LEMMA RemoveGood ==
  ASSUME NEW om, GoodGroup(om), NEW id
  PROVE  LET rm == remove(om, id) IN
         /\ GoodGroup(rm) /\ rm.recent = om.recent
         /\ OpenIds(rm) = OpenIds(om) \ {id} /\ RecentIds(rm) = RecentIds(om)
         /\ \A x \in OpenIds(rm) : rm.open[x] = om.open[x]
<1>0. PICK rm : rm = remove(om, id)
  OBVIOUS
<1>1. PICK S \in SUBSET OrderId : om \in [open : [S -> Order], recent : Seq(Order)]
  BY DEF GoodGroup, IsGroup
<1> DEFINE f == [x \in S \ {id} |-> om.open[x]]
<1>2. rm = [open |-> f, recent |-> om.recent]
  BY <1>0, <1>1 DEF remove
<1>3. /\ f \in [S \ {id} -> Order] /\ S \ {id} \in SUBSET OrderId
      /\ \A x \in S \ {id} : f[x] = om.open[x]
  BY <1>1
<1> HIDE DEF f
<1>4. /\ OpenIds(om) = S /\ OpenIds(rm) = S \ {id}
      /\ rm.open = f /\ rm.recent = om.recent /\ RecentIds(rm) = RecentIds(om)
  BY <1>1, <1>2, <1>3 DEF OpenIds, RecentIds
<1>5. IsGroup(rm)
  BY <1>1, <1>2, <1>3 DEF IsGroup
<1>6. GoodGroup(rm)
  BY <1>3, <1>4, <1>5 DEF GoodGroup
<1> QED BY <1>0, <1>3, <1>4, <1>6

\* As many orders are recently closed ones as the container has places taken.
LEMMA RecentCardinality ==
  ASSUME NEW om, GoodGroup(om)
  PROVE  IsFiniteSet(RecentIds(om)) /\ Cardinality(RecentIds(om)) = Len(om.recent)
<1> DEFINE q == om.recent
           n == Len(om.recent)
           f == [i \in 1..n |-> q[i].orderId]
<1>1. q \in Seq(Order) /\ n \in Nat /\ DOMAIN q = 1..n
  BY DEF GoodGroup, IsGroup
<1>2. f \in Bijection(1..n, RecentIds(om))
  <2>1. f \in [1..n -> RecentIds(om)]
    BY <1>1 DEF RecentIds
  <2>2. \A i, j \in 1..n : f[i] = f[j] => i = j
    BY <1>1 DEF GoodGroup
  <2>3. \A id \in RecentIds(om) : \E i \in 1..n : f[i] = id
    BY <1>1 DEF RecentIds
  <2> HIDE DEF f
  <2> QED BY <2>1, <2>2, <2>3 DEF Bijection, Injection, Surjection, IsInjective
<1>3. ExistsBijection(1..n, RecentIds(om))
  BY <1>2 DEF ExistsBijection
<1> HIDE DEF n
<1> QED BY <1>1, <1>3, FS_CountingElements, FS_NatBijection DEF n

\* Where an order is after it has been put back: a closed one leaves those
\* under way for the recently closed ones, of which the oldest goes when
\* there is no room; in every other case all orders stay where they are.
LEMMA StoreFate ==
  ASSUME NEW om, GoodGroup(om), NEW o \in Order, Sound(o),
         o.orderId \in OpenIds(om) \cup RecentIds(om)
  PROVE  LET st == Store(om, o) IN
         \/ /\ o.orderId \in OpenIds(om) /\ closed(o) /\ o.orderId \notin RecentIds(om)
            /\ OpenIds(st) = OpenIds(om) \ {o.orderId}
            /\ \/ /\ Len(om.recent) < MaxClosed
                  /\ RecentIds(st) = RecentIds(om) \cup {o.orderId}
               \/ /\ Len(om.recent) = MaxClosed
                  /\ om.recent[1].orderId \in RecentIds(om)
                  /\ RecentIds(st) = (RecentIds(om) \ {om.recent[1].orderId})
                                       \cup {o.orderId}
         \/ /\ ~(o.orderId \in OpenIds(om) /\ closed(o))
            /\ OpenIds(st) = OpenIds(om) /\ RecentIds(st) = RecentIds(om)
<1>1. PICK S \in SUBSET OrderId : om \in [open : [S -> Order], recent : Seq(Order)]
  BY DEF GoodGroup, IsGroup
<1> DEFINE q == om.recent
           n == Len(om.recent)
           g == Append(q, o)
           st == Store(om, o)
<1>2. /\ q \in Seq(Order) /\ n \in Nat /\ DOMAIN q = 1..n /\ n <= MaxClosed
      /\ OpenIds(om) = S
  BY <1>1 DEF GoodGroup, OpenIds
<1>3. CASE o.orderId \in OpenIds(om) /\ closed(o)
  <2>1. o.orderId \notin RecentIds(om)
    BY <1>3 DEF GoodGroup
  <2>2. st = [open |-> remove(om, o.orderId).open, recent |-> PushRecent(q, o)]
    BY <1>3 DEF Store
  <2>3. OpenIds(st) = OpenIds(om) \ {o.orderId}
    BY <2>2, RemoveGood DEF OpenIds
  <2>4. st.recent = IF Len(g) > MaxClosed THEN Tail(g) ELSE g
    BY <2>1, <2>2 DEF PushRecent, RecentIds
  <2>5. /\ g \in Seq(Order) /\ Len(g) = n + 1 /\ DOMAIN g = 1..(n + 1)
        /\ \A i \in 1..n : g[i] = q[i]
        /\ g[n + 1] = o
    BY <1>2
  <2>6. /\ Len(Tail(g)) = n /\ DOMAIN Tail(g) = 1..n
        /\ \A i \in 1..n : Tail(g)[i] = g[i + 1]
    BY <1>2, <2>5
  <2>7. RecentIds(om) = {q[i].orderId : i \in 1..n}
    BY <1>2 DEF RecentIds
  <2>8. \A i, j \in 1..n : q[i].orderId = q[j].orderId => i = j
    BY <1>2 DEF GoodGroup
  <2>9. RecentIds(st) = {st.recent[i].orderId : i \in DOMAIN st.recent}
    BY DEF RecentIds
  <2> HIDE DEF q, n, g, st
  <2>10. CASE n < MaxClosed
    <3>1. st.recent = g
      BY <1>2, <2>4, <2>5, <2>10, MaxClosedAssumption
    <3>2. RecentIds(st) = RecentIds(om) \cup {o.orderId}
      BY <1>2, <2>5, <2>7, <2>9, <3>1
    <3> QED BY <1>3, <2>1, <2>3, <2>10, <3>2 DEF st, n
  <2>11. CASE ~(n < MaxClosed)
    <3>1. n = MaxClosed /\ 1 \in 1..n
      BY <1>2, <2>11, MaxClosedAssumption
    <3>2. st.recent = Tail(g)
      BY <1>2, <2>4, <2>5, <3>1
    <3>3. \A i \in 1..n : st.recent[i] = IF i = n THEN o ELSE q[i + 1]
      BY <1>2, <2>5, <2>6, <3>2
    <3>4. RecentIds(st) = {st.recent[i].orderId : i \in 1..n}
      BY <2>6, <2>9, <3>2
    <3>5. RecentIds(st) = (RecentIds(om) \ {q[1].orderId}) \cup {o.orderId}
      <4>1. ASSUME NEW x \in RecentIds(st)
            PROVE  x \in (RecentIds(om) \ {q[1].orderId}) \cup {o.orderId}
        <5>1. PICK i \in 1..n : x = st.recent[i].orderId
          BY <3>4
        <5>2. CASE i = n
          BY <1>2, <3>3, <5>1, <5>2
        <5>3. CASE i # n
          <6>1. i + 1 \in 1..n /\ i + 1 # 1 /\ x = q[i + 1].orderId
            BY <1>2, <3>3, <5>1, <5>3
          <6> QED BY <2>7, <2>8, <3>1, <6>1
        <5> QED BY <5>2, <5>3
      <4>2. ASSUME NEW x \in RecentIds(om), x # q[1].orderId
            PROVE  x \in RecentIds(st)
        <5>1. PICK i \in 1..n : x = q[i].orderId
          BY <2>7
        <5>2. i - 1 \in 1..n /\ i - 1 # n /\ (i - 1) + 1 = i
          BY <1>2, <4>2, <5>1
        <5> QED BY <3>3, <3>4, <5>1, <5>2
      <4>3. n \in 1..n /\ o.orderId = st.recent[n].orderId
        BY <1>2, <3>1, <3>3
      <4> QED BY <3>4, <4>1, <4>2, <4>3
    <3>6. q[1].orderId \in RecentIds(om)
      BY <2>7, <3>1
    <3> QED BY <1>3, <2>1, <2>3, <3>1, <3>5, <3>6 DEF st, n, q
  <2> QED BY <2>10, <2>11
<1>4. CASE o.orderId \in OpenIds(om) /\ ~closed(o)
  BY <1>1, <1>4 DEF Store, OpenIds, RecentIds
<1>5. CASE o.orderId \notin OpenIds(om)
  <2>1. st = [om EXCEPT !.recent =
                [i \in DOMAIN @ |-> IF @[i].orderId = o.orderId THEN o ELSE @[i]]]
    BY <1>5 DEF Store
  <2>2. /\ OpenIds(st) = OpenIds(om) /\ DOMAIN st.recent = DOMAIN q
        /\ \A i \in DOMAIN q : st.recent[i].orderId = q[i].orderId
    BY <1>1, <2>1 DEF OpenIds
  <2>3. RecentIds(st) = RecentIds(om)
    BY <2>2 DEF RecentIds
  <2> QED BY <1>5, <2>2, <2>3
<1> QED BY <1>3, <1>4, <1>5

\* Putting an order back leaves every other order under way as it was.
LEMMA StoreKeepsOpen ==
  ASSUME NEW om, GoodGroup(om), NEW o \in Order,
         NEW id \in OpenIds(Store(om, o))
  PROVE  \/ id = o.orderId /\ Store(om, o).open[id] = o
         \/ id \in OpenIds(om) /\ Store(om, o).open[id] = om.open[id]
<1>1. PICK S \in SUBSET OrderId : om \in [open : [S -> Order], recent : Seq(Order)]
  BY DEF GoodGroup, IsGroup
<1>2. CASE o.orderId \in OpenIds(om) /\ closed(o)
  BY <1>1, <1>2 DEF Store, remove, OpenIds
<1>3. CASE o.orderId \in OpenIds(om) /\ ~closed(o)
  BY <1>1, <1>3 DEF Store, OpenIds
<1>4. CASE o.orderId \notin OpenIds(om)
  BY <1>1, <1>4 DEF Store, OpenIds
<1> QED BY <1>2, <1>3, <1>4

\* A report that names its order by orderId finds the order of that orderId.
LEMMA LookupIsNamed ==
  ASSUME NEW om, GoodGroup(om), NEW new, new.orderId # Unset, Found(om, new)
  PROVE  Lookup(om, new).orderId = new.orderId
<1>1. CASE OpenMatch(om, new) # {}
  <2> DEFINE id == CHOOSE x \in OpenMatch(om, new) : TRUE
  <2>1. id \in OpenMatch(om, new)
    BY <1>1
  <2> HIDE DEF id
  <2>2. om.open[id].orderId = new.orderId
    BY <2>1 DEF OpenMatch, Names
  <2> QED BY <1>1, <2>2 DEF Lookup, id
<1>2. CASE OpenMatch(om, new) = {}
  <2> DEFINE i == CHOOSE x \in RecentMatch(om, new) : TRUE
  <2>1. i \in RecentMatch(om, new)
    BY <1>2 DEF Found
  <2> HIDE DEF i
  <2>2. om.recent[i].orderId = new.orderId
    BY <2>1 DEF RecentMatch, Names
  <2> QED BY <1>2, <2>2 DEF Lookup, i
<1> QED BY <1>1, <1>2

-----------------------------------------------------------------------------
\* The orders a group holds, and what it holds of each.
HeldIds(om) == OpenIds(om) \cup RecentIds(om)
CopyOf(om, id) ==
  IF id \in OpenIds(om) THEN om.open[id]
  ELSE om.recent[CHOOSE i \in DOMAIN om.recent : om.recent[i].orderId = id]

\* What is held of an order is sound, and it is found wherever it is.
LEMMA CopyIs ==
  ASSUME NEW om, GoodGroup(om), NEW id \in HeldIds(om)
  PROVE  /\ id \in OrderId /\ CopyOf(om, id) \in Order
         /\ Sound(CopyOf(om, id)) /\ CopyOf(om, id).orderId = id
         /\ id \in OpenIds(om) => CopyOf(om, id) = om.open[id] /\ ~closed(CopyOf(om, id))
         /\ \A i \in DOMAIN om.recent : om.recent[i].orderId = id => CopyOf(om, id) = om.recent[i]
<1>1. PICK S \in SUBSET OrderId : om \in [open : [S -> Order], recent : Seq(Order)]
  BY DEF GoodGroup, IsGroup
<1>2. CASE id \in OpenIds(om)
  <2>1. CopyOf(om, id) = om.open[id] /\ id \in S /\ om.open[id] \in Order
    BY <1>1, <1>2 DEF CopyOf, OpenIds
  <2>2. id \notin RecentIds(om)
    BY <1>2 DEF GoodGroup
  <2> QED BY <1>1, <1>2, <2>1, <2>2 DEF GoodGroup, RecentIds
<1>3. CASE id \notin OpenIds(om)
  <2> DEFINE k == CHOOSE i \in DOMAIN om.recent : om.recent[i].orderId = id
  <2>1. k \in DOMAIN om.recent /\ om.recent[k].orderId = id
    BY <1>3 DEF HeldIds, RecentIds
  <2>2. CopyOf(om, id) = om.recent[k]
    BY <1>3 DEF CopyOf
  <2> HIDE DEF k
  <2>3. om.recent[k] \in Order
    BY <1>1, <2>1
  <2>4. om.recent[k].orderId \in OrderId
    BY <2>3 DEF Order
  <2> QED BY <1>3, <2>1, <2>2, <2>3, <2>4 DEF GoodGroup
<1> QED BY <1>2, <1>3

\* A report that names its order by orderId finds what is held of that order.
LEMMA LookupIsCopy ==
  ASSUME NEW om, GoodGroup(om), NEW new, new.orderId # Unset
  PROVE  /\ Found(om, new) <=> new.orderId \in HeldIds(om)
         /\ new.orderId \in HeldIds(om) => Lookup(om, new) = CopyOf(om, new.orderId)
<1> DEFINE id == new.orderId
<1>1. Found(om, new) <=> id \in HeldIds(om)
  BY DEF Found, OpenMatch, RecentMatch, Names, HeldIds, RecentIds, GoodGroup
<1>2. ASSUME id \in HeldIds(om) PROVE Lookup(om, new) = CopyOf(om, id)
  <2>1. CASE id \in OpenIds(om)
    <3>1. OpenMatch(om, new) = {id}
      BY <2>1 DEF OpenMatch, Names, GoodGroup
    <3> QED BY <2>1, <3>1 DEF Lookup, CopyOf
  <2>2. CASE id \notin OpenIds(om)
    <3> DEFINE k == CHOOSE i \in RecentMatch(om, new) : TRUE
    <3>1. OpenMatch(om, new) = {}
      BY <2>2 DEF OpenMatch, Names, GoodGroup
    <3>2. k \in DOMAIN om.recent /\ om.recent[k].orderId = id
      BY <1>1, <1>2, <3>1 DEF Found, RecentMatch, Names
    <3>3. Lookup(om, new) = om.recent[k]
      BY <3>1 DEF Lookup
    <3> HIDE DEF k
    <3> QED BY <1>2, <3>2, <3>3, CopyIs
  <2> QED BY <2>1, <2>2
<1> QED BY <1>1, <1>2

\* Putting back what was updated changes what is held of that order only.
LEMMA StoreCopies ==
  ASSUME NEW om, GoodGroup(om), NEW o \in Order, Sound(o), o.orderId \in HeldIds(om),
         NEW id \in HeldIds(Store(om, o))
  PROVE  /\ id \in HeldIds(om)
         /\ CopyOf(Store(om, o), id) = IF id = o.orderId THEN o ELSE CopyOf(om, id)
<1> DEFINE st == Store(om, o)
<1>1. GoodGroup(st) /\ id \in HeldIds(om)
  BY StoreGood, StoreIds DEF HeldIds
<1>2. CASE id \in OpenIds(st)
  <2>1. CopyOf(st, id) = st.open[id]
    BY <1>2 DEF CopyOf
  <2>2. \/ id = o.orderId /\ st.open[id] = o
        \/ id \in OpenIds(om) /\ st.open[id] = om.open[id]
    BY <1>2, StoreKeepsOpen
  <2>3. id = o.orderId => st.open[id] = o
    BY <1>2, <2>2 DEF Store, remove, OpenIds
  <2> QED BY <1>1, <2>1, <2>2, <2>3 DEF CopyOf
<1>3. CASE id \notin OpenIds(st)
  <2>1. PICK j \in DOMAIN st.recent : st.recent[j].orderId = id
    BY <1>3 DEF HeldIds, RecentIds
  <2>2. CopyOf(st, id) = st.recent[j]
    BY <1>1, <2>1, CopyIs
  <2>3. st.recent[j] = o \/ \E i \in DOMAIN om.recent : st.recent[j] = om.recent[i]
    BY <2>1, StoreKeepsOthers
  <2>4. CASE id # o.orderId
    <3>1. PICK i \in DOMAIN om.recent : st.recent[j] = om.recent[i]
      BY <2>1, <2>3, <2>4
    <3>2. CopyOf(om, id) = om.recent[i]
      BY <1>1, <2>1, <3>1, CopyIs
    <3> QED BY <1>1, <2>2, <2>4, <3>1, <3>2
  <2>5. CASE id = o.orderId /\ st.recent[j] # o
    <3>1. id \in RecentIds(om) /\ id \notin OpenIds(om)
      BY <2>1, <2>3, <2>5 DEF RecentIds, GoodGroup
    <3>2. PICK S \in SUBSET OrderId : om \in [open : [S -> Order], recent : Seq(Order)]
      BY DEF GoodGroup, IsGroup
    <3>3. st.recent = [i \in DOMAIN om.recent |->
                         IF om.recent[i].orderId = o.orderId THEN o ELSE om.recent[i]]
      BY <2>5, <3>1, <3>2 DEF Store
    <3> HIDE DEF st
    <3>4. j \in DOMAIN om.recent
      BY <2>1, <3>3
    <3> QED BY <2>1, <2>5, <3>3, <3>4
  <2> QED BY <1>1, <2>2, <2>4, <2>5
<1> QED BY <1>2, <1>3

\* A report changes what is held of the order it names, or nothing
\* (OrdMgr::updateByOrderInfoFromExch).
LEMMA UpdateCopies ==
  ASSUME NEW om, GoodGroup(om), NEW new \in Report, new.orderId # Unset
  PROVE  LET um == UpdateFromExch(om, new)
             x  == new.orderId IN
         /\ GoodGroup(um)
         /\ x \notin HeldIds(om) => um = om
         /\ HeldIds(um) \subseteq HeldIds(om)
         /\ x \in HeldIds(om) => x \in HeldIds(um)
         /\ \A id \in HeldIds(um) :
              CopyOf(um, id) = IF id = x THEN updateByOrderInfoFromExch(CopyOf(om, x), new)
                               ELSE CopyOf(om, id)
<1> DEFINE x == new.orderId
           o == CopyOf(om, x)
           p == updateByOrderInfoFromExch(o, new)
           um == UpdateFromExch(om, new)
<1>1. CASE x \notin HeldIds(om)
  <2>1. um = om
    BY <1>1, LookupIsCopy DEF UpdateFromExch
  <2> QED BY <1>1, <2>1
<1>2. CASE x \in HeldIds(om)
  <2>1. um = Store(om, p)
    BY <1>2, LookupIsCopy DEF UpdateFromExch
  <2>2. o \in Order /\ Sound(o) /\ o.orderId = x
    BY <1>2, CopyIs
  <2> HIDE DEF o, um
  <2>3. p \in Order /\ Sound(p) /\ p.orderId = x
    BY <2>2, MergeFromExch
  <2> HIDE DEF p
  <2>4. GoodGroup(um)
    BY <1>2, <2>1, <2>3, StoreGood DEF HeldIds
  <2>5. \A id \in HeldIds(um) :
          id \in HeldIds(om) /\ CopyOf(um, id) = IF id = x THEN p ELSE CopyOf(om, id)
    BY <1>2, <2>1, <2>3, StoreCopies
  <2>6. x \in HeldIds(um)
    BY <1>2, <2>1, <2>3, StoreFate DEF HeldIds
  <2> QED BY <1>2, <2>4, <2>5, <2>6 DEF um, p, o
<1> QED BY <1>1, <1>2

\* A new order is held besides the others.
LEMMA AddCopies ==
  ASSUME NEW om, GoodGroup(om), NEW o \in Order, Sound(o), ~closed(o),
         o.orderId \notin HeldIds(om)
  PROVE  LET am == add(om, o) IN
         /\ GoodGroup(am) /\ HeldIds(am) = HeldIds(om) \cup {o.orderId}
         /\ CopyOf(am, o.orderId) = o
         /\ \A id \in HeldIds(om) : CopyOf(am, id) = CopyOf(om, id)
<1> DEFINE am == add(om, o)
<1>1. /\ GoodGroup(am) /\ am.recent = om.recent
      /\ OpenIds(am) = OpenIds(om) \cup {o.orderId}
      /\ RecentIds(am) = RecentIds(om)
      /\ am.open[o.orderId] = o
      /\ \A id \in OpenIds(om) : am.open[id] = om.open[id]
  BY AddGood DEF HeldIds
<1> HIDE DEF am
<1>2. \A id \in HeldIds(om) : CopyOf(am, id) = CopyOf(om, id)
  BY <1>1 DEF CopyOf, HeldIds
<1>3. CopyOf(am, o.orderId) = o
  BY <1>1 DEF CopyOf
<1> QED BY <1>1, <1>2, <1>3 DEF am, HeldIds

\* How much a report adds to what was dealt of an order, and when the order is
\* not closed after it.
LEMMA MergeFields ==
  ASSUME NEW o \in Order, Sound(o), NEW new \in Report, new.dealSize \in Nat,
         new.lastDealSize \in Nat
  PROVE  LET p == updateByOrderInfoFromExch(o, new) IN
         /\ p \in Order /\ Sound(p) /\ p.orderId = o.orderId
         /\ IF IsRtnTrade(new) THEN Abs(p.dealSize) = Abs(o.dealSize) + new.lastDealSize
                               ELSE Abs(p.dealSize) \in {Abs(o.dealSize), new.dealSize}
         /\ p.exchOrderId # Unset => o.exchOrderId # Unset \/ new.exchOrderId # Unset
         /\ ~closed(p) /\ ~IsRtnTrade(new) => ~closed(o) /\ new.orderStatus < Filled
<1> DEFINE p == updateByOrderInfoFromExch(o, new)
           d == DealSizeFromExch(o, new)
           s == StatusFromExch(o, new)
<1>1. /\ o.dealSize \in Int /\ o.orderSize \in Nat /\ o.side \in {"Bid", "Ask"}
      /\ o.orderStatus \in OrderStatus /\ new.orderStatus \in OrderStatus
  BY SizeAssumption DEF Order, Report
<1>2. OrderStatus \subseteq Nat
  BY DEF OrderStatus, Created, ConfirmedInLocal, Pending, ConfirmedByExch, PartialFilled,
         Filled, Canceled, PartialFilledCanceled, Failed
<1>3. p.dealSize = d /\ p.orderStatus = s /\ p.exchOrderId = SetOnce(o.exchOrderId, new.exchOrderId)
  BY DEF updateByOrderInfoFromExch, WithStaticFields, Order
<1>4. IF IsRtnTrade(new) THEN Abs(d) = Abs(o.dealSize) + new.lastDealSize
                         ELSE Abs(d) \in {Abs(o.dealSize), new.dealSize}
  <2>1. CASE IsRtnTrade(new)
    <3>1. d = o.dealSize + Signed(o.side, new.lastDealSize)
      BY <1>1, <2>1 DEF DealSizeFromExch, DealSizeIsValid, IsRtnTrade, Abs
    <3> QED BY <1>1, <2>1, <3>1 DEF Sound, Signed, Abs
  <2>2. CASE ~IsRtnTrade(new)
    <3>1. d = o.dealSize \/ d = Signed(o.side, new.dealSize)
      BY <2>2 DEF DealSizeFromExch
    <3>2. Abs(Signed(o.side, new.dealSize)) = new.dealSize
      BY <1>1 DEF Signed, Abs
    <3> QED BY <2>2, <3>1, <3>2
  <2> QED BY <2>1, <2>2
<1>5. s >= Filled \/ IsRtnTrade(new) \/ (o.orderStatus < Filled /\ new.orderStatus < Filled)
  <2>1. CASE ~IsRtnTrade(new)
    <3>1. s = IF StatusAdvances(o, new) THEN new.orderStatus ELSE o.orderStatus
      BY <2>1 DEF StatusFromExch
    <3>2. o.orderStatus \in Nat /\ new.orderStatus \in Nat
      BY <1>1, <1>2
    <3> HIDE DEF s
    <3> QED BY <3>1, <3>2 DEF StatusAdvances, closed, Filled
  <2> QED BY <2>1
<1>6. s \in OrderStatus /\ p \in Order /\ Sound(p) /\ p.orderId = o.orderId
  <2>1. p \in Order /\ Sound(p) /\ p.orderId = o.orderId
    BY MergeFromExch
  <2> QED BY <1>3, <2>1 DEF Order
<1>7. o.orderStatus \in Nat /\ new.orderStatus \in Nat /\ s \in Nat
  BY <1>1, <1>2, <1>6
<1>8. p.exchOrderId # Unset => o.exchOrderId # Unset \/ new.exchOrderId # Unset
  BY <1>3 DEF SetOnce
<1> HIDE DEF s, d
<1>9. ~closed(p) /\ ~IsRtnTrade(new) => ~closed(o) /\ new.orderStatus < Filled
  BY <1>3, <1>5, <1>7 DEF closed, Filled
<1> QED BY <1>3, <1>4, <1>6, <1>8, <1>9

\* The same of the containers: what is held of the order a report names, after
\* the report.
LEMMA MergeCopies ==
  ASSUME NEW om, GoodGroup(om), NEW id \in OrderId, NEW new \in Report, new.orderId = id,
         new.dealSize \in Nat, new.lastDealSize \in Nat
  PROVE  LET um == UpdateFromExch(om, new)
             o  == CopyOf(om, id)
             p  == CopyOf(um, id) IN
         /\ GoodGroup(um) /\ HeldIds(um) \subseteq HeldIds(om)
         /\ \A x \in HeldIds(um) : x # id => CopyOf(um, x) = CopyOf(om, x)
         /\ id \notin HeldIds(om) => um = om
         /\ id \in HeldIds(om) =>
              /\ id \in HeldIds(um)
              /\ Abs(o.dealSize) \in Nat /\ Abs(p.dealSize) \in Nat
              /\ IF IsRtnTrade(new) THEN Abs(p.dealSize) = Abs(o.dealSize) + new.lastDealSize
                                    ELSE Abs(p.dealSize) \in {Abs(o.dealSize), new.dealSize}
              /\ p.exchOrderId # Unset => o.exchOrderId # Unset \/ new.exchOrderId # Unset
              /\ ~closed(p) /\ ~IsRtnTrade(new) => ~closed(o) /\ new.orderStatus < Filled
<1> DEFINE um == UpdateFromExch(om, new)
           o  == CopyOf(om, id)
           p  == CopyOf(um, id)
<1>1. id # Unset
  BY OrderIdAssumption DEF Unset
<1>2. /\ GoodGroup(um) /\ HeldIds(um) \subseteq HeldIds(om)
      /\ id \notin HeldIds(om) => um = om
      /\ id \in HeldIds(om) => id \in HeldIds(um)
      /\ \A x \in HeldIds(um) :
           CopyOf(um, x) = IF x = id THEN updateByOrderInfoFromExch(o, new) ELSE CopyOf(om, x)
  BY <1>1, UpdateCopies
<1> HIDE DEF um
<1>3. ASSUME id \in HeldIds(om)
      PROVE  /\ Abs(o.dealSize) \in Nat /\ Abs(p.dealSize) \in Nat
             /\ IF IsRtnTrade(new) THEN Abs(p.dealSize) = Abs(o.dealSize) + new.lastDealSize
                                   ELSE Abs(p.dealSize) \in {Abs(o.dealSize), new.dealSize}
             /\ p.exchOrderId # Unset => o.exchOrderId # Unset \/ new.exchOrderId # Unset
             /\ ~closed(p) /\ ~IsRtnTrade(new) => ~closed(o) /\ new.orderStatus < Filled
  <2>1. o \in Order /\ Sound(o)
    BY <1>3, CopyIs
  <2>2. p = updateByOrderInfoFromExch(o, new)
    BY <1>2, <1>3
  <2> HIDE DEF o, p
  <2>3. /\ p \in Order
        /\ IF IsRtnTrade(new) THEN Abs(p.dealSize) = Abs(o.dealSize) + new.lastDealSize
                              ELSE Abs(p.dealSize) \in {Abs(o.dealSize), new.dealSize}
        /\ p.exchOrderId # Unset => o.exchOrderId # Unset \/ new.exchOrderId # Unset
        /\ ~closed(p) /\ ~IsRtnTrade(new) => ~closed(o) /\ new.orderStatus < Filled
    BY <2>1, <2>2, MergeFields
  <2>4. Abs(o.dealSize) \in Nat /\ Abs(p.dealSize) \in Nat
    BY <2>1, <2>3 DEF Order, Abs
  <2> QED BY <2>3, <2>4
<1> QED BY <1>2, <1>3 DEF um, o, p

\* What is sent on of an order is a report.
LEMMA ReportGood ==
  ASSUME NEW o, o.orderId \in OrderId \cup {Unset}, o.exchOrderId \in ExchOrderId \cup {Unset},
         o.orderStatus \in OrderStatus, o.dealSize \in Int,
         o.feeCurrency \in {Unset, 1}, o.statusCode \in {Unset, 1}
  PROVE  /\ ReportOf(o) \in Report
         /\ ReportOf(o).orderId = o.orderId /\ ReportOf(o).orderStatus = o.orderStatus
         /\ ReportOf(o).dealSize = o.dealSize /\ ReportOf(o).lastDealSize = 0
         /\ ReportOf(o).exchOrderId = o.exchOrderId
<1> DEFINE b == o.dealSize # 0
<1>1. b \in BOOLEAN
  OBVIOUS
<1>2. ReportOf(o) =
        [orderId |-> o.orderId, exchOrderId |-> o.exchOrderId,
         orderStatus |-> o.orderStatus, dealSize |-> o.dealSize,
         avgPriced |-> b, lastDealSize |-> 0, lastPriced |-> FALSE,
         feeCurrency |-> o.feeCurrency, statusCode |-> o.statusCode]
  BY Zenon DEF ReportOf
<1> HIDE DEF b
<1> QED BY <1>1, <1>2 DEF Report
=============================================================================
