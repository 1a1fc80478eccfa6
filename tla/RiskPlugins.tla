----------------------------- MODULE RiskPlugins -----------------------------
(***************************************************************************)
(* The risk plug-ins of one thread of one risk control module of the trade *)
(* server, for orders of one contract: flow control (bqtd-srv-risk-plugin- *)
(* flow-ctrl and -flow-ctrl-plus), lists of contracts (-trd-symbol-list),  *)
(* self trades (-self-trade-ctrl) and the closing of positions opened      *)
(* today (-close-tday-stg).                                                *)
(*                                                                         *)
(* What the plug-ins count lives in shared memory and survives a restart.  *)
(* A check does not change it: it stashes an update.  The handler of an    *)
(* order forwards the order and THEN executes what was stashed, or rolls   *)
(* it back when a plug-in refuses; a process that dies in between has sent *)
(* an order it did not count.  A restart also forgets which limit values   *)
(* it has opened, which returns it has seen, the flow control of the first *)
(* plug-in and the returns that wait in the queue of the thread; the order *)
(* manager is loaded from the database.                                    *)
(*                                                                         *)
(* A rule is about the orders that match its condition (see Condition) and *)
(* keeps a limit value for each of the values that the fields of its       *)
(* condition have in them.  There is one rule of a target at most, and a   *)
(* position is the sum of the deals of the orders that agree in PosField   *)
(* (positions of one side, see Positions).  Prices are positive.  The      *)
(* targets HoldAmtTotal and OpenTDayTotal, which need the prices and the   *)
(* totals of the positions, are left out.                                  *)
(***************************************************************************)
EXTENDS Integers, FiniteSets, FiniteSetsExt, Condition

CONSTANTS
  OrderId,      \* the orders that may be sent
  Shape,        \* what an order may be: its side, posDirection, orderPrice and orderSize,
                \* and the fields of the conditions
  Rule,         \* the targets of flow control that have a rule
  CondOf,       \* CondOf[r]: the condition of its rule
  BlackList, WhiteList,  \* [condition, symbolCode]: the lists of contracts
  SelfTradeCtrlRange,    \* the conditions of the orders that are not to trade with each other
  LimitValue,   \* LimitValue[r]: its limit, or the length of its queue
  MsInterval,   \* interval of the rules about a time
  TimeDur, LimitNum,  \* the first plug-in lets LimitNum orders through in TimeDur
  MaxTriggers,  \* maxSelfTradeTriggerTimesAllowed
  MaxPrice,     \* bound: prices are 1 .. MaxPrice
  MaxTime,      \* bound: the clock stops there
  MaxCancels,   \* bound: cancellations sent of an order
  MaxRets,      \* bound: returns that wait in the queue of the thread
  MaxRepeats,   \* bound: returns that are repeated
  MaxCrashes    \* bound: crashes

EachTime == {"OrderSizeEachTime", "OrderAmtEachTime"}
Total == {"OrderSizeTotal", "OrderAmtTotal", "OrderTimesTotal",
          "CancelOrderTimesTotal", "RejectOrderTimesTotal"}
WithinTime == {"OrderTimesWithinTime", "CancelOrderTimesWithinTime",
               "RejectOrderTimesWithinTime"}
Hold == {"HoldVolTotal"}

ASSUME RiskPluginsAssumption ==
  /\ Rule \subseteq EachTime \cup Total \cup WithinTime \cup Hold
  /\ DOMAIN CondOf = Rule /\ \A r \in Rule : MakeConditionTemplate(CondOf[r]).ok
  /\ LimitValue \in [Rule -> Nat] /\ \A r \in Rule \cap WithinTime : LimitValue[r] > 0
  /\ {MsInterval, TimeDur, LimitNum, MaxPrice} \subseteq Nat \ {0} /\ MaxTriggers \in Nat
  /\ \A s \in Shape : s.orderPrice \in 1 .. MaxPrice /\ s.orderSize \in Nat \ {0}

NoBid == 0              \* maxBidPrice_: less than every price
NoAsk == MaxPrice + 1   \* minAskPrice_: greater than every price
LongAgo == 0 - MsInterval

VARIABLES
  now,       \* clock
  sent,      \* sent[id]: the order as forwarded, its number and when, or NotSent
  exch,      \* exch[id]: dealSize and status of the order at the exchange
  rets,      \* returns waiting in the queue of the thread: [orderId, dealSize, status]
  ordMgr,    \* ordMgr[id]: what the order manager knows of an order it has or had
  shm,       \* shared memory: limit values and the prices of the pending orders
  stashed,   \* shared memory as the updaters that wait would make it
  opened,    \* shared memory: was the contract opened today?
  cached,    \* limit values with an entry in conditionValue2LimitValueGroup_
  seen,      \* orders in orderInfoCache_, whose rejection has been counted
  execTimes, \* timePointGroupOfTaskHasBeenExec_ of the first plug-in
  cancels,   \* cancels[id]: cancellations of the order that were forwarded
  exposed,   \* ghost: pending orders whose price the plug-in may not know
  repeats, crashes  \* repeated returns and crashes so far

world == <<sent, exch, cancels>>
volatile == <<rets, cached, seen, execTimes>>
vars == <<now, world, volatile, ordMgr, shm, stashed, opened, exposed, repeats, crashes>>

NotSent == [no |-> 0]
Fabs(x) == IF x < 0 THEN 0 - x ELSE x
Live(status) == status = "Live"
IsSent(id) == sent[id] # NotSent
SentIds == {id \in OrderId : IsSent(id)}
Pending(id) == id \in DOMAIN ordMgr /\ Live(ordMgr[id].status)
Undealed(id) == sent[id].orderSize - ordMgr[id].dealSize

\* The rule of a target and an order: does the condition match, and under which key
\* has the rule its limit value for the order?
FieldsOf(cond) == MakeConditionFieldGroup(cond).fieldGroup
conditionFieldGroup == [r \in Rule |-> FieldsOf(CondOf[r])]
conditionTemplate == [r \in Rule |-> MakeConditionTemplate(CondOf[r]).template]
Applies(r, o) ==
  LET made == MakeConditioValue(o, conditionFieldGroup[r])
  IN  made.ok /\ MatchConditionTemplate(made.value, conditionTemplate[r])
LimitOf(r, o) == <<r, MakeConditioValue(o, conditionFieldGroup[r]).key>>
LimitsOf(rules) == {LimitOf(r, o) : r \in rules, o \in Shape}

Init ==
  /\ now = 0 /\ repeats = 0 /\ crashes = 0
  /\ sent = [id \in OrderId |-> NotSent] /\ cancels = [id \in OrderId |-> 0]
  /\ exch = [id \in OrderId |-> [dealSize |-> 0, status |-> "None"]]
  /\ rets = << >> /\ ordMgr = << >> /\ opened = FALSE
  /\ shm = [value |-> [k \in LimitsOf(Rule \cap Total) |-> 0],
            tsQue |-> [k \in LimitsOf(Rule \cap WithinTime) |->
                         [i \in 1 .. LimitValue[k[1]] |-> LongAgo]],
            maxBidPrice |-> NoBid, minAskPrice |-> NoAsk, triggerTimes |-> 0]
  /\ stashed = shm /\ cached = {} /\ seen = {} /\ execTimes = << >> /\ exposed = {}

Idle == stashed = shm   \* the thread is between two tasks

-----------------------------------------------------------------------------
\* Flow control by rules.  A check looks at the shared memory; the update it
\* stashes is made to the state s.
AddValue(s, r, o, value) == [s EXCEPT !.value[LimitOf(r, o)] = @ + value]
PushTime(s, r, o) == [s EXCEPT !.tsQue[LimitOf(r, o)] = Append(Tail(@), now)]

TotalExceedsBefore(r, o, value) ==   \* mutant: off by the order
  shm.value[LimitOf(r, o)] > LimitValue[r]
TotalExceeds(r, o, value) == shm.value[LimitOf(r, o)] + value > LimitValue[r]
TotalReached(r, o) == shm.value[LimitOf(r, o)] > LimitValue[r]   \* compare only
TooSoon(r, o) == now - Head(shm.tsQue[LimitOf(r, o)]) < MsInterval
\* "the first time after a restart is not looked at"
WithinTimeExceeds(r, o) == LimitOf(r, o) \in cached /\ TooSoon(r, o)

\* What is held or pending of all that matches the condition of a rule, the
\* current order included: the order is in the order manager already.
Matches(r, rec) ==
  MatchConditionTemplate(CreateConditioValue(rec, conditionFieldGroup[r]), conditionTemplate[r])
getOrderInfoGroup(r) == {id \in DOMAIN ordMgr : Pending(id) /\ Matches(r, sent[id])}

PosField == {"acctId", "symbolCode"}
PosOf(o) == Restrict(o, PosField)
Dealt(id) == IF sent[id].side = "Bid" THEN ordMgr[id].dealSize ELSE 0 - ordMgr[id].dealSize
Pos(key) == MapThenSumSet(Dealt, {id \in DOMAIN ordMgr : PosOf(sent[id]) = key})
getPosInfoGroup(r) == {key \in {PosOf(sent[id]) : id \in DOMAIN ordMgr} : Matches(r, key)}

HeldAndPending(r) ==
  MapThenSumSet(LAMBDA key : Fabs(Pos(key)), getPosInfoGroup(r))
    + MapThenSumSet(Undealed, getOrderInfoGroup(r))
HoldInfo(r, o) == HeldAndPending(r) + IF Matches(r, o) THEN o.orderSize ELSE 0
HoldExceeds(r, o) == HoldInfo(r, o) > LimitValue[r]

\* One target of an order or a cancellation: does its rule refuse, and what
\* does it stash?
OrderValue(r, o) ==
  CASE r \in {"OrderSizeEachTime", "OrderSizeTotal"} -> o.orderSize
    [] r \in {"OrderAmtEachTime", "OrderAmtTotal"} -> o.orderSize * o.orderPrice
    [] OTHER -> 1
CompareOnly == {"RejectOrderTimesTotal", "RejectOrderTimesWithinTime"}

Triggers(r, o) ==
  CASE r \in EachTime -> OrderValue(r, o) > LimitValue[r]
    [] r \in Total -> IF r \in CompareOnly THEN TotalReached(r, o) ELSE TotalExceeds(r, o, OrderValue(r, o))
    [] r \in WithinTime -> IF r \in CompareOnly THEN TooSoon(r, o) ELSE WithinTimeExceeds(r, o)
    [] r \in Hold -> HoldExceeds(r, o)

Stash(s, r, o) ==
  CASE r \in Total \ CompareOnly -> AddValue(s, r, o, OrderValue(r, o))
    [] r \in WithinTime \ CompareOnly -> PushTime(s, r, o)
    [] OTHER -> s

\* The targets in the order they are looked at, up to the first that refuses.
OnOrder == <<"OrderSizeEachTime", "OrderSizeTotal", "OrderAmtEachTime", "OrderAmtTotal",
             "OrderTimesTotal", "OrderTimesWithinTime", "RejectOrderTimesTotal",
             "RejectOrderTimesWithinTime", "HoldVolTotal">>
OnCancelOrder == <<"CancelOrderTimesTotal", "CancelOrderTimesWithinTime">>

handleFlowCtrl(targets, o) ==
  LET rules == SelectSeq(targets, LAMBDA r : r \in Rule /\ Applies(r, o))
      refusing == {i \in DOMAIN rules : Triggers(rules[i], o)}
      last == IF refusing = {} THEN Len(rules) ELSE Min(refusing)
      opens == {LimitOf(r, o) : r \in {rules[i] : i \in 1 .. last} \cap (Total \cup WithinTime)}
  IN  [refuses |-> refusing # {}, cached |-> cached \cup opens,
       shm |-> FoldLeft(LAMBDA s, r : Stash(s, r, o), shm, rules)]

-----------------------------------------------------------------------------
\* The first plug-in counts at once and only in memory.
exceedFlowCtrl ==
  /\ Len(execTimes) + 1 >= LimitNum
  /\ LET td == now - Head(execTimes)
     IN  td = 0 \/ (Len(execTimes) + 1) * TimeDur >= LimitNum * td
PushExecTime ==
  LET full == Append(execTimes, now)
  IN  IF Len(full) > LimitNum THEN Tail(full) ELSE full

-----------------------------------------------------------------------------
\* Lists of contracts: what is in a black list is refused, and what is in no
\* white list if one exists.  Conditions are compared as they are written.
IsAbout(cond, o) == MakeConditioFieldInfoInStrFmt(o, FieldsOf(cond)) = cond
inTheBlackList(o) ==
  \E e \in BlackList : IsAbout(e.condition, o) /\ e.symbolCode = o.symbolCode
whiteListExistsAndNotInIt(o) ==
  LET lists == {e \in WhiteList : IsAbout(e.condition, o)}
  IN  lists # {} /\ \A e \in lists : e.symbolCode # o.symbolCode
TrdSymbolListRefuses(o) == inTheBlackList(o) \/ whiteListExistsAndNotInIt(o)

-----------------------------------------------------------------------------
\* Self trades: an order that meets a pending one of the other side is
\* refused once that was allowed often enough; else only the best price of
\* its side is noted.  The ranges have no field in which orders differ that
\* meet, so there is one entry of pending orders.
inTheSelfTradeCtrlList(o) == \E cond \in SelfTradeCtrlRange : IsAbout(cond, o)
Crosses(o) ==
  /\ inTheSelfTradeCtrlList(o)
  /\ \/ o.side = "Bid" /\ o.orderPrice >= shm.minAskPrice
     \/ o.side = "Ask" /\ o.orderPrice <= shm.maxBidPrice
SelfTradeRefuses(o) == Crosses(o) /\ shm.triggerTimes >= MaxTriggers

NotePendingOrder(s, o) ==
  CASE ~inTheSelfTradeCtrlList(o) -> s
    [] Crosses(o) -> [s EXCEPT !.triggerTimes = @ + 1]
    [] ~Crosses(o) /\ o.side = "Bid" /\ o.orderPrice > s.maxBidPrice ->
         [s EXCEPT !.maxBidPrice = o.orderPrice]
    [] ~Crosses(o) /\ o.side = "Ask" /\ o.orderPrice < s.minAskPrice ->
         [s EXCEPT !.minAskPrice = o.orderPrice]
    [] OTHER -> s

\* An order of a side is closed: its best price is forgotten.
ResetPendingOrder(s, o) ==
  CASE ~inTheSelfTradeCtrlList(o) -> s
    [] inTheSelfTradeCtrlList(o) /\ o.side = "Bid" -> [s EXCEPT !.maxBidPrice = NoBid]
    [] inTheSelfTradeCtrlList(o) /\ o.side = "Ask" -> [s EXCEPT !.minAskPrice = NoAsk]

-----------------------------------------------------------------------------
\* Closing today (RejectCloseTDay): refused when the contract was opened
\* today or when an order that opens it is pending.
CloseTDayRefuses(o) ==
  /\ o.posDirection = "Close"
  /\ opened \/ \E id \in DOMAIN ordMgr : Pending(id) /\ sent[id].posDirection = "Open"

OpensContract(o, ret) ==
  o.posDirection = "Open" /\ ret.dealSize > 0 /\ ret.status \in {"Live", "Filled", "Canceled"}

-----------------------------------------------------------------------------
HandleOrderUnrolled(id, o) ==   \* mutant: what a refused order stashed stays
  LET flow == handleFlowCtrl(OnOrder, o)
      refused == exceedFlowCtrl \/ flow.refuses \/ TrdSymbolListRefuses(o)
                 \/ SelfTradeRefuses(o) \/ CloseTDayRefuses(o)
  IN  /\ Idle /\ ~IsSent(id)
      /\ execTimes' = PushExecTime /\ cached' = flow.cached
      /\ stashed' = NotePendingOrder(flow.shm, o)
      /\ IF refused
         THEN UNCHANGED <<sent, exch, ordMgr, exposed>>
         ELSE /\ sent' = [sent EXCEPT ![id] = o @@ [sentAt |-> now, no |-> Cardinality(SentIds) + 1]]
              /\ exch' = [exch EXCEPT ![id].status = "Live"]
              /\ ordMgr' = ordMgr @@ (id :> [dealSize |-> 0, status |-> "Live"])
              /\ exposed' = IF Crosses(o) THEN exposed \cup {id} ELSE exposed
      /\ UNCHANGED <<now, rets, shm, opened, seen, cancels, repeats, crashes>>

\* An order goes through the plug-ins in turn.  Forwarded first, counted later.
HandleOrder(id, o) ==
  LET flow == handleFlowCtrl(OnOrder, o)
      refused == exceedFlowCtrl \/ flow.refuses \/ TrdSymbolListRefuses(o)
                 \/ SelfTradeRefuses(o) \/ CloseTDayRefuses(o)
  IN  /\ Idle /\ ~IsSent(id)
      /\ execTimes' = IF exceedFlowCtrl THEN execTimes ELSE PushExecTime
      /\ cached' = IF exceedFlowCtrl THEN cached ELSE flow.cached
      /\ IF refused
         THEN UNCHANGED <<sent, exch, ordMgr, stashed, exposed>>
         ELSE /\ sent' = [sent EXCEPT ![id] = o @@ [sentAt |-> now, no |-> Cardinality(SentIds) + 1]]
              /\ exch' = [exch EXCEPT ![id].status = "Live"]
              /\ ordMgr' = ordMgr @@ (id :> [dealSize |-> 0, status |-> "Live"])
              /\ stashed' = NotePendingOrder(flow.shm, o)
              /\ exposed' = IF Crosses(o) THEN exposed \cup {id} ELSE exposed
      /\ UNCHANGED <<now, rets, shm, opened, seen, cancels, repeats, crashes>>

HandleCancelOrder(id) ==
  LET flow == handleFlowCtrl(OnCancelOrder, sent[id])
  IN  /\ Idle /\ IsSent(id) /\ cancels[id] < MaxCancels
      /\ cached' = flow.cached
      /\ IF flow.refuses
         THEN UNCHANGED <<cancels, stashed>>
         ELSE cancels' = [cancels EXCEPT ![id] = @ + 1] /\ stashed' = flow.shm
      /\ UNCHANGED <<now, sent, exch, rets, ordMgr, shm, opened, seen, execTimes, exposed,
                     repeats, crashes>>

\* batchExecute
BatchExecute ==
  /\ ~Idle /\ shm' = stashed
  /\ UNCHANGED <<now, world, volatile, ordMgr, stashed, opened, exposed, repeats, crashes>>

\* A return: the order manager and the position, then the plug-ins, whose
\* updates are executed at once.  A rejection counts once as far as the cache
\* remembers.
CountsRejection(ret) == ret.status = "Rejected" /\ ret.orderId \notin seen
RulesOfRejection(o) == {r \in CompareOnly \cap Rule : Applies(r, o)}
CountRejection(ret, o) ==
  IF CountsRejection(ret)
  THEN FoldSet(LAMBDA r, s : IF r \in Total THEN AddValue(s, r, o, 1) ELSE PushTime(s, r, o),
               shm, RulesOfRejection(o))
  ELSE shm

HandleOrderRet ==
  LET ret == Head(rets)
      o == sent[ret.orderId]
      counted == CountRejection(ret, o)
      others == {id \in DOMAIN ordMgr \ {ret.orderId} : Pending(id) /\ sent[id].side = o.side}
  IN  /\ Idle /\ rets # << >> /\ rets' = Tail(rets)
      /\ ordMgr' = IF Pending(ret.orderId)
                   THEN [ordMgr EXCEPT ![ret.orderId] =
                           [dealSize |-> ret.dealSize, status |-> ret.status]]
                   ELSE ordMgr
      /\ seen' = IF ret.status = "Rejected" THEN seen \cup {ret.orderId} ELSE seen
      /\ cached' = IF CountsRejection(ret)
                   THEN cached \cup {LimitOf(r, o) : r \in RulesOfRejection(o)} ELSE cached
      /\ shm' = IF Live(ret.status) THEN counted ELSE ResetPendingOrder(counted, o)
      /\ stashed' = shm'
      /\ exposed' = IF Live(ret.status) THEN exposed ELSE exposed \cup others
      /\ opened' = (opened \/ OpensContract(o, ret))
      /\ UNCHANGED <<now, world, execTimes, repeats, crashes>>

-----------------------------------------------------------------------------
\* The exchange deals, cancels and rejects; the status query may bring the
\* last return of an order once more.
Returns(id, dealSize, status) ==
  /\ Len(rets) < MaxRets
  /\ exch' = [exch EXCEPT ![id] = [dealSize |-> dealSize, status |-> status]]
  /\ rets' = Append(rets, [orderId |-> id, dealSize |-> dealSize, status |-> status])
  /\ UNCHANGED <<now, sent, cancels, ordMgr, shm, stashed, opened, cached, seen, execTimes,
                 exposed, repeats, crashes>>

ExchDeals(id) ==
  /\ Live(exch[id].status)
  /\ LET dealSize == exch[id].dealSize + 1
     IN  Returns(id, dealSize, IF dealSize = sent[id].orderSize THEN "Filled" ELSE "Live")
ExchCancels(id) ==
  Live(exch[id].status) /\ cancels[id] > 0 /\ Returns(id, exch[id].dealSize, "Canceled")
ExchRejects(id) ==
  Live(exch[id].status) /\ exch[id].dealSize = 0 /\ Returns(id, 0, "Rejected")
RepeatRet(id) ==
  /\ repeats < MaxRepeats /\ Len(rets) < MaxRets /\ IsSent(id) /\ ~Live(exch[id].status)
  /\ rets' = Append(rets, [orderId |-> id] @@ exch[id])
  /\ repeats' = repeats + 1
  /\ UNCHANGED <<now, world, ordMgr, shm, stashed, opened, cached, seen, execTimes, exposed,
                 crashes>>

Tick ==
  /\ now < MaxTime /\ now' = now + 1
  /\ UNCHANGED <<world, volatile, ordMgr, shm, stashed, opened, exposed, repeats, crashes>>

\* What was written to the database of the orders whose returns wait is a
\* matter of chance; the others are in it as the order manager knows them.
CrashRestart ==
  /\ crashes < MaxCrashes /\ crashes' = crashes + 1
  /\ \E flushed \in SUBSET {rets[i].orderId : i \in DOMAIN rets} :
       ordMgr' = [id \in DOMAIN ordMgr |-> IF id \in flushed THEN exch[id] ELSE ordMgr[id]]
  /\ stashed' = shm /\ rets' = << >> /\ cached' = {} /\ seen' = {} /\ execTimes' = << >>
  /\ exposed' = exposed \cup {id \in SentIds : ~Idle /\ sent[id].no = Cardinality(SentIds)}
  /\ UNCHANGED <<now, world, shm, opened, repeats>>

-----------------------------------------------------------------------------
Next ==
  \/ \E id \in OrderId :
       \/ \E o \in Shape : HandleOrder(id, o)
       \/ HandleCancelOrder(id)
       \/ ExchDeals(id) \/ ExchCancels(id) \/ ExchRejects(id) \/ RepeatRet(id)
  \/ BatchExecute \/ HandleOrderRet \/ Tick \/ CrashRestart

Spec == Init /\ [][Next]_vars

-----------------------------------------------------------------------------
Status == {"Live", "Filled", "Canceled", "Rejected"}

\* Types; an order manager never runs ahead of the exchange.
TypeOK ==
  /\ now \in 0 .. MaxTime /\ DOMAIN ordMgr = SentIds /\ opened \in BOOLEAN
  /\ \A id \in SentIds : /\ ordMgr[id].status \in Status /\ exch[id].status \in Status
                         /\ ordMgr[id].dealSize \in 0 .. exch[id].dealSize
                         /\ Live(exch[id].status) => Live(ordMgr[id].status)
  /\ \A k \in DOMAIN stashed.tsQue : Len(stashed.tsQue[k]) = LimitValue[k[1]]
  /\ stashed.maxBidPrice \in NoBid .. MaxPrice /\ stashed.minAskPrice \in 1 .. NoAsk

\* The orders that a limit value is about, and what was sent of them.
OfLimit(k) == {id \in SentIds : Applies(k[1], sent[id]) /\ LimitOf(k[1], sent[id]) = k}
SentValue(k) ==
  IF k[1] = "CancelOrderTimesTotal" THEN MapThenSumSet(LAMBDA id : cancels[id], OfLimit(k))
  ELSE MapThenSumSet(LAMBDA id : OrderValue(k[1], sent[id]), OfLimit(k))
MaxValue(r) ==
  IF r = "CancelOrderTimesTotal" THEN 1 ELSE Max({OrderValue(r, o) : o \in Shape})
LimitsOn(rules, values) == {k \in DOMAIN values : k[1] \in rules}
Counted == LimitsOn(Total \ CompareOnly, shm.value)

\* The totals account for what was forwarded and nothing else: a refused order
\* leaves no trace, an order counts for what matches it only, one that was
\* forwarded is missing only if the process died before it was counted.
CountsWhatWasSent ==
  \A k \in Counted : SentValue(k) - stashed.value[k] \in 0 .. crashes * MaxValue(k[1])

\* No more is forwarded than a total allows, but for one order or cancellation
\* per crash.
SentWithinLimit ==
  \A k \in Counted : SentValue(k) <= LimitValue[k[1]] + crashes * MaxValue(k[1])

SentIn(k, first, last) == Cardinality({id \in OfLimit(k) : sent[id].sentAt \in first .. last})

\* In no interval are more orders forwarded than the queue is long; a crash
\* admits two more, the one it did not count and the first after it, which
\* is not looked at.
RateKept ==
  \A k \in LimitsOn({"OrderTimesWithinTime"}, shm.tsQue) : \A t \in 0 .. now :
    SentIn(k, t + 1 - MsInterval, t) <= LimitValue["OrderTimesWithinTime"] + 2 * crashes

\* A rejection is counted once, however often it is reported, as long as the
\* process lives, and once in every life of the process at most.
RejectionsCounted ==
  \A k \in LimitsOn({"RejectOrderTimesTotal"}, shm.value) :
    LET rejected(known) == {id \in OfLimit(k) : known[id].status = "Rejected"}
    IN  /\ crashes = 0 => shm.value[k] = Cardinality(rejected(ordMgr))
        /\ shm.value[k] <= (1 + crashes) * Cardinality(rejected(exch))

\* What is held and what is pending stays within the limit, although orders
\* deal, are canceled and reported late, and the process may die.
HoldWithinLimit ==
  "HoldVolTotal" \in Rule => HeldAndPending("HoldVolTotal") <= LimitValue["HoldVolTotal"]

\* The orders that crossed a pending one are as many as were allowed, unless
\* the price of the pending one was forgotten: because an order of its side
\* was closed, a crossing one is not noted, or the process died.
Meet(a, b) ==
  /\ sent[a].side = "Bid" /\ sent[b].side = "Ask"
  /\ sent[a].orderPrice >= sent[b].orderPrice
CrossingIds ==
  {id \in SentIds : Pending(id) /\ \E other \in SentIds \ exposed :
     Pending(other) /\ sent[other].no < sent[id].no /\ (Meet(id, other) \/ Meet(other, id))}
SelfTradesAllowed == Cardinality(CrossingIds) <= MaxTriggers + IF MaxTriggers = 0 THEN 0 ELSE crashes

\* "rejecting while orders are pending does away with closing today
\* altogether" (TDSrvRiskPluginCloseTDayStg.cpp:60): an order that closes is
\* never sent after one that opened, or still may.
ClosesToday(id) ==
  sent[id].posDirection = "Close" /\ \E other \in SentIds :
    /\ sent[other].posDirection = "Open" /\ sent[other].no < sent[id].no
    /\ exch[other].dealSize > 0 \/ Live(exch[other].status)
NeverClosesToday == \A id \in SentIds : ~ClosesToday(id)

\* It holds as long as the process does not die.
NeverClosesTodayUncrashed == crashes = 0 => NeverClosesToday

=============================================================================
