----------------------------- MODULE AlgoOrders -----------------------------
(***************************************************************************)
(* An algorithmic order of a strategy engine (bqalgo): a TWAP, which works *)
(* off a quantity in sub orders, each with a state machine that places,    *)
(* cancels and places again as the price moves away, or a smart order,     *)
(* which places one order when the last price is in a range.               *)
(*                                                                         *)
(* Three threads meet: that of AlgoMgr, which takes returns and market     *)
(* data from its queue and runs the timer when there are none; that of the *)
(* strategy, which cancels the algorithmic order or a single order of it;  *)
(* and that of the strategy instance, which takes a finished order out of  *)
(* the order manager, the same return being already in the queue of        *)
(* AlgoMgr.                                                                *)
(*                                                                         *)
(* The trade server and what is behind it are external: an order fills in  *)
(* parts, fails before the first part, is cancelled when asked to, and a   *)
(* cancellation may be refused.  What depends on the clock may be due or   *)
(* not at any run of the timer.                                            *)
(***************************************************************************)
EXTENDS Integers, FiniteSets, Sequences, SequencesExt, FiniteSetsExt, Folds

-----------------------------------------------------------------------------
(***************************************************************************)
(* The helpers of the algorithmic orders: how a quantity is split into sub *)
(* orders and what price an urgency stands for.  Quantities are integers,  *)
(* prices are counted in ticks; Side is "Bid" or "Ask".                    *)
(***************************************************************************)
Abs(n) == IF n < 0 THEN -n ELSE n
SumOf(seq) == FoldSeq(+, 0, seq)

\* Each part is total / num rounded to a multiple of prec (half down); the
\* last part takes what is left, which may be less than nothing.
EachRoundedUp(total, num, prec) == prec * (1 + total \div (num * prec))   \* mutant

EachPart(total, num, prec) ==
  prec * (total \div (num * prec) + (IF 2 * (total % (num * prec)) > num * prec THEN 1 ELSE 0))

Parts(total, num, prec) ==
  LET each == EachPart(total, num, prec)
  IN  [i \in 1 .. num |-> IF i < num THEN each ELSE total - (num - 1) * each]

\* The status code of the split is not 0 in these cases; then the parts are
\* none (the first two) or include one of nothing.
SplitFails(total, num, prec) ==
  total <= 0 \/ num = 0 \/ \E i \in 1 .. num : Parts(total, num, prec)[i] = 0

splitTotalSize(total, num, prec) ==
  IF total <= 0 \/ num = 0 THEN << >> ELSE Parts(total, num, prec)

\* A bid wants a low price; every change of sign below is for the asks.
GetPriceOfUrgency(quote, side, urgency, offset) ==
  LET own == IF side = "Bid" THEN quote.bid ELSE quote.ask
      far == IF side = "Bid" THEN quote.ask ELSE quote.bid
      up == IF side = "Bid" THEN 1 ELSE -1
      narrow == quote.ask - quote.bid = 1
  IN  CASE urgency = "PriceOfMaker" -> own - up * offset
        [] urgency = "PriceOfMakerWith1Ticker" -> IF narrow THEN far ELSE own + up
        [] urgency = "PriceOfMidPoint" ->
             IF narrow THEN far
             ELSE (quote.bid + quote.ask + (IF side = "Bid" THEN 0 ELSE 1)) \div 2
        [] urgency = "PriceOfTaker" -> far + up * offset

\* A pair of urgency and offset, and the next more urgent one.
UpgradeUrgency(urgency, offset) ==
  CASE urgency = "PriceOfMaker" /\ offset > 0 -> <<"PriceOfMaker", offset - 1>>
    [] urgency = "PriceOfMaker" /\ offset = 0 -> <<"PriceOfMakerWith1Ticker", 0>>
    [] urgency = "PriceOfMakerWith1Ticker" -> <<"PriceOfMidPoint", 0>>
    [] urgency = "PriceOfMidPoint" -> <<"PriceOfTaker", 0>>
    [] urgency = "PriceOfTaker" -> <<"PriceOfTaker", offset + 1>>

-----------------------------------------------------------------------------
CONSTANTS
  Params,      \* the parameters an algorithmic order may be given
  Prec,        \* precOfOrderVol, or 100 in the spot markets of China
  Quote,       \* the best bids and asks, in ticks
  RetryCode,   \* status codes an order is placed again after
  OtherCode,   \* the other status codes an order may fail with
  MayExpire,   \* may the lifetime of the algorithmic order end?
  MaxOrders,   \* bound: orders
  MaxMoves,    \* bound: market data that arrives
  MaxTrouble,  \* bound: orders that fail, cancellations refused or asked for by hand
  MaxQueue     \* bound: returns in the queue

NoQuote == [bid |-> 0, ask |-> 0]
Urgency == {"PriceOfMaker", "PriceOfMakerWith1Ticker", "PriceOfMidPoint", "PriceOfTaker"}

ASSUME AlgoAssumption ==
  /\ \A p \in Params : /\ p.algoType \in {"TWAP", "SmartOrder"} /\ p.side \in {"Bid", "Ask"}
                       /\ p.totalSize \in Int /\ p.splitNum \in Nat /\ p.hasRange \in BOOLEAN
                       /\ p.wellFormed \in BOOLEAN /\ p.initialUrgency \in Urgency /\ p.tickerOffset \in Nat
  /\ Prec \in Nat \ {0} /\ MayExpire \in BOOLEAN
  /\ \A q \in Quote : q.bid \in Nat \ {0} /\ q.ask \in Nat /\ q.bid < q.ask
  /\ 0 \notin RetryCode \cup OtherCode
  /\ {MaxOrders, MaxMoves, MaxTrouble, MaxQueue} \subseteq Nat

OrderId == 1 .. MaxOrders
Code == RetryCode \cup OtherCode
NoCode == 0

VARIABLES
  params,       \* the parameters given
  algoStatus,   \* AlgoStatus, or "Refused" when it could not be started
  managed,      \* is it in the maps of AlgoMgr?
  bid1ask1,     \* the quote it goes by
  lastPrice,    \* the last price: "None", or "In" or "Out" of the range
  group,        \* orderStateMachineGroup_: the sizes of the sub orders not finished
  cur,          \* curOrderStateMachine_, that of the first of them
  filled,       \* what the finished ones dealt
  smart,        \* the smart order: has it been placed, its status and its deals
  exch,         \* the orders at the exchange
  ordMgr,       \* the orders the order manager of the strategy engine holds
  toAlgo,       \* queue of AlgoMgr: returns
  toInst,       \* finished orders the thread of the instance has not seen
  worker,       \* the thread of AlgoMgr: "idle", or on a copy of the map for the
                \* "timer" or for a return ("ret")
  canceller,    \* the strategy's call of cancelAlgoOrder
  lost,         \* ghost: the state machine waits for an order there is not
  moves, trouble

fsmVars == <<group, cur, filled>>
mdVars == <<bid1ask1, lastPrice, moves>>
exchVars == <<exch, ordMgr, toInst>>
vars == <<params, algoStatus, managed, mdVars, fsmVars, smart, exchVars, toAlgo,
          worker, canceller, lost, trouble>>

Idle == [st |-> "None", orderSize |-> 0, curOrderSize |-> 0, dealSize |-> 0, orderId |-> 0,
         orderPrice |-> 0, urgency |-> "PriceOfMaker", offset |-> 0, code |-> NoCode,
         next |-> "HandleCurOrder"]
Unplaced == [status |-> "None", size |-> 0, deal |-> 0, cancel |-> "No"]
TWAP == params.algoType = "TWAP"
Live(id) == exch[id].status = "Live"

Init ==
  /\ params \in Params /\ algoStatus = "NotStarted" /\ managed = FALSE
  /\ bid1ask1 = NoQuote /\ lastPrice = "None"
  /\ group = << >> /\ cur = Idle /\ filled = 0
  /\ smart = [sent |-> FALSE, orderStatus |-> "None", dealSize |-> 0]
  /\ exch = [id \in OrderId |-> Unplaced] /\ ordMgr = {} /\ toInst = {} /\ toAlgo = << >>
  /\ worker = "idle" /\ canceller = "idle"
  /\ lost = FALSE /\ moves = 0 /\ trouble = 0

-----------------------------------------------------------------------------
\* AlgoMgr::algoOrder, called by the strategy.
\* Every parameter is checked, and that the market has the symbol.
initAlgoParams == params.wellFormed /\ params.totalSize # 0
initAlgoParamsOfTWAP == initAlgoParams /\ params.splitNum # 0

\* One state machine for each part of the quantity.
initOrderStateMachineGroup ==
  IF TWAP THEN splitTotalSize(params.totalSize, params.splitNum, Prec) ELSE << >>

ParamsFail ==
  IF TWAP THEN ~initAlgoParamsOfTWAP \/ SplitFails(params.totalSize, params.splitNum, Prec)
  ELSE ~initAlgoParams

algoOrder ==
  /\ algoStatus = "NotStarted"
  /\ IF ParamsFail
     THEN algoStatus' = "Refused" /\ UNCHANGED <<managed, group>>
     ELSE /\ algoStatus' = "Started" /\ managed' = TRUE
          /\ group' = initOrderStateMachineGroup
  /\ UNCHANGED <<params, mdVars, cur, filled, smart, exchVars, toAlgo, worker, canceller,
                 lost, trouble>>

-----------------------------------------------------------------------------
\* Placing an order: the price may be missing, and the engine may refuse.
NextId == CHOOSE id \in OrderId : exch[id].status = "None"

\* An order of the given size is in the order manager and on its way.
EngineOrder(size) ==
  /\ \E id \in OrderId : exch[id].status = "None"
  /\ exch' = [exch EXCEPT ![NextId] = [Unplaced EXCEPT !.status = "Live", !.size = size]]
  /\ ordMgr' = ordMgr \cup {NextId}
  /\ UNCHANGED <<toInst, trouble>>

EngineRefuses == /\ trouble < MaxTrouble /\ trouble' = trouble + 1
                 /\ UNCHANGED exchVars

\* order() of the state machine, with the event that it raises; f is the state
\* machine in NewOrder, RetryOrder or RestoreOrder.
order(f) ==
  \/ /\ bid1ask1 = NoQuote
     /\ cur' = [f EXCEPT !.st = "OrderInProc"] /\ lost' = TRUE
     /\ UNCHANGED <<exchVars, trouble>>
  \/ /\ bid1ask1 # NoQuote
     /\ EngineOrder(f.curOrderSize)
     /\ cur' = [f EXCEPT !.st = "OrderInProc", !.code = 0, !.orderId = NextId,
                  !.orderPrice = GetPriceOfUrgency(bid1ask1, params.side, f.urgency, f.offset)]
     /\ UNCHANGED lost
  \/ /\ bid1ask1 # NoQuote
     /\ EngineRefuses
     /\ \E code \in Code : cur' = [f EXCEPT !.st = "Error", !.code = code]
     /\ UNCHANGED lost

\* start(): on entry to StateOfNewOrder.
Started(size) ==
  [Idle EXCEPT !.st = "NewOrder", !.orderSize = size, !.curOrderSize = size,
               !.urgency = params.initialUrgency, !.offset = params.tickerOffset]

\* On entry to StateOfRetryOrder: canceledTimes_ is never counted up, so that
\* every retry is more urgent.
Retried(f) ==
  LET next == UpgradeUrgency(f.urgency, f.offset)
  IN  [f EXCEPT !.st = "RetryOrder", !.urgency = next[1], !.offset = next[2]]

\* A cancellation; the engine only knows orders that are in its order manager.
engineCancelOrder(ids) ==
  /\ exch' = [id \in OrderId |->
                [exch[id] EXCEPT !.cancel = IF id \in ids \cap ordMgr THEN "Asked" ELSE @]]
  /\ UNCHANGED <<ordMgr, toInst>>

-----------------------------------------------------------------------------
\* The timer of a TWAP.  GuardOfCancelOrder: has the price moved away?
PriceMovedAway ==
  LET off == IF cur.urgency = "PriceOfMaker" THEN cur.offset ELSE 0
  IN  IF params.side = "Bid" THEN cur.orderPrice < bid1ask1.bid - off
      ELSE cur.orderPrice > bid1ask1.ask + off

ActionOfCancelOrder ==
  /\ cur.st = "OrderInProc" /\ PriceMovedAway
  /\ engineCancelOrder({cur.orderId})
  /\ cur' = [cur EXCEPT !.st = "CancelOrderInProc"]
  /\ UNCHANGED <<trouble, lost>>

GuardOfRestoreOrder ==
  /\ cur.st = "Error"
  /\ IF cur.code \in RetryCode THEN order([cur EXCEPT !.st = "RestoreOrder"])
     ELSE /\ cur' = [cur EXCEPT !.next = "TerminateAlgo"]
          /\ UNCHANGED <<exchVars, trouble, lost>>

\* What a sub order did not fill goes to those that are left, or to one more.
handleUnfilled(rest, f) ==
  LET unfilled == f.orderSize - f.dealSize
  IN  IF unfilled = 0 THEN rest
      ELSE splitTotalSize(unfilled + SumOf(rest), Len(rest) + (IF rest = << >> THEN 1 ELSE 0), Prec)

handleFirstOrder ==
  /\ cur.st = "None" /\ order(Started(Head(group)))
  /\ UNCHANGED <<group, filled>>

handleNextOrder ==
  /\ cur.next = "HandleNextOrder"
  /\ filled' = filled + cur.dealSize
  /\ group' = handleUnfilled(Tail(group), cur)
  /\ IF group' = << >> THEN UNCHANGED <<cur, exchVars, trouble, lost>>
     ELSE order(Started(Head(group')))

handleCurOrder ==
  /\ cur.next = "HandleCurOrder"
  /\ GuardOfRestoreOrder \/ ActionOfCancelOrder
  /\ UNCHANGED <<group, filled>>

\* terminateAlgo: the status, set by RunOfOnTimer, is all it changes.
Terminates == TWAP /\ bid1ask1 # NoQuote /\ cur.next = "TerminateAlgo"

doOnTimer ==
  \/ /\ TWAP /\ bid1ask1 # NoQuote
     /\ handleFirstOrder \/ handleNextOrder \/ handleCurOrder
     /\ UNCHANGED smart
  \/ Terminates /\ UNCHANGED <<fsmVars, exchVars, trouble, lost, smart>>

\* The timer of a smart order; whatever comes of it, it is placed once.
tryToSendOrder ==
  /\ ~TWAP /\ bid1ask1 # NoQuote /\ lastPrice = "In" /\ ~smart.sent
  /\ \/ EngineOrder(params.totalSize) /\ smart' = [smart EXCEPT !.sent = TRUE]
     \/ EngineRefuses /\ smart' = [smart EXCEPT !.sent = TRUE, !.orderStatus = "Failed"]
  /\ UNCHANGED <<fsmVars, lost>>

\* The interval of the sub orders, that between an order and its cancellation,
\* or that of the retries has not passed, or there is nothing to do.
NothingDue ==
  /\ ~Terminates
  /\ UNCHANGED <<fsmVars, exchVars, trouble, lost, smart>>

\* AlgoMgr::onTimer works on a copy of the map.
copyOfOnTimer ==
  /\ worker = "idle" /\ toAlgo = << >> /\ managed
  /\ worker' = "timer"
  /\ UNCHANGED <<params, algoStatus, managed, mdVars, fsmVars, smart, exchVars, toAlgo,
                 canceller, lost, trouble>>

\* AlgoOrder::onTimer after doOnTimer, and the end of AlgoMgr::onTimer.
Closed(status) == status \in {"Filled", "Canceled", "Failed"}
Released == {"OutOfTime", "ExecFailed", "Finished"}

StatusAfterTimer ==
  IF IF TWAP THEN group' = << >> ELSE Closed(smart'.orderStatus) THEN {"Finished"}
  ELSE {IF Terminates THEN "ExecFailed" ELSE algoStatus}
         \cup (IF MayExpire THEN {"OutOfTime"} ELSE {})

onTimer(Work) ==
  /\ worker = "timer" /\ worker' = "idle"
  /\ Work
  /\ algoStatus' \in StatusAfterTimer
  /\ managed' = (managed /\ algoStatus' \notin Released)
  /\ UNCHANGED <<params, mdVars, toAlgo, canceller>>

TimerWork == onTimer(doOnTimer \/ tryToSendOrder)
TimerIdle == onTimer(NothingDue)

-----------------------------------------------------------------------------
\* Returns.  recalcDealInfo counts a finished order once, by its absolute value.
Recalced(f, ret) == [f EXCEPT !.dealSize = @ + Abs(ret.deal)]

\* An event without a row for the state is ignored.
InProc == cur.st \in {"OrderInProc", "CancelOrderInProc"}
SuccessOnly(f) == [f EXCEPT !.st = "Success"]   \* mutant
Success(f) == [f EXCEPT !.st = "Success", !.next = "HandleNextOrder"]

handleOrderFilled(ret) ==
  /\ ret.status = "Filled"
  /\ cur' = IF InProc THEN Success(Recalced(cur, ret)) ELSE Recalced(cur, ret)
  /\ UNCHANGED <<exchVars, trouble, lost>>

\* The deals of a sold order are negative: what is left of it grows by them.
LeftOver(f, ret) == ((f.curOrderSize - ret.deal) \div Prec) * Prec

\* Only the order the algorithm cancelled itself is followed by another one.
handleOrderCanceled(ret) ==
  /\ ret.status = "Canceled"
  /\ LET f == [Recalced(cur, ret) EXCEPT !.curOrderSize = LeftOver(cur, ret)]
     IN  IF cur.st # "CancelOrderInProc"
         THEN cur' = f /\ lost' = TRUE /\ UNCHANGED <<exchVars, trouble>>
         ELSE IF f.curOrderSize = 0
         THEN cur' = Success(f) /\ UNCHANGED <<exchVars, trouble, lost>>
         ELSE order(Retried(f))

handleOrderFailed(ret) ==
  /\ ret.status = "Failed"
  /\ cur' = [cur EXCEPT !.code = ret.code, !.st = IF InProc THEN "Error" ELSE @]
  /\ UNCHANGED <<exchVars, trouble, lost>>

onOrderRet(ret) ==
  \/ ret.kind = "OrderRet" /\ handleOrderFilled(ret)
  \/ ret.kind = "OrderRet" /\ handleOrderCanceled(ret)
  \/ ret.kind = "OrderRet" /\ handleOrderFailed(ret)

onCancelOrderRet(ret) ==
  /\ ret.kind = "CancelRet"
  /\ cur' = [cur EXCEPT !.st = IF @ = "CancelOrderInProc" THEN "OrderInProc" ELSE @]
  /\ UNCHANGED <<exchVars, trouble, lost>>

\* Of another order, or of one that is only filled in part.
Ignored(ret) ==
  \/ ret.id # cur.orderId
  \/ ret.kind = "OrderRet" /\ ~Closed(ret.status)

doOnOrderRetOfTWAP(ret) ==
  /\ TWAP
  /\ IF Ignored(ret) THEN UNCHANGED <<cur, exchVars, trouble, lost>>
     ELSE onOrderRet(ret) \/ onCancelOrderRet(ret)
  /\ UNCHANGED smart

\* A smart order; a return that was overtaken changes nothing.
doOnOrderRetOfSmartOrder(ret) ==
  /\ ~TWAP
  /\ smart' = IF ret.kind = "CancelRet" THEN smart
              ELSE [smart EXCEPT !.orderStatus = IF Closed(@) THEN @ ELSE ret.status,
                                 !.dealSize = IF ret.deal > @ THEN ret.deal ELSE @]
  /\ UNCHANGED <<cur, exchVars, trouble, lost>>

\* AlgoMgr::onAsyncTask looks the algorithmic order up, then hands it the return.
lookupOfOnAsyncTask ==
  /\ worker = "idle" /\ toAlgo # << >>
  /\ IF managed THEN worker' = "ret" /\ UNCHANGED toAlgo
     ELSE toAlgo' = Tail(toAlgo) /\ UNCHANGED worker
  /\ UNCHANGED <<params, algoStatus, managed, mdVars, fsmVars, smart, exchVars,
                 canceller, lost, trouble>>

onAsyncTask ==
  /\ worker = "ret" /\ worker' = "idle"
  /\ toAlgo' = Tail(toAlgo)
  /\ doOnOrderRetOfTWAP(Head(toAlgo)) \/ doOnOrderRetOfSmartOrder(Head(toAlgo))
  /\ UNCHANGED <<params, algoStatus, managed, mdVars, group, filled, canceller>>

-----------------------------------------------------------------------------
\* Market data, when the thread of AlgoMgr gets to it.
MarketData ==
  /\ managed /\ worker = "idle" /\ moves < MaxMoves /\ moves' = moves + 1
  /\ UNCHANGED <<params, algoStatus, managed, fsmVars, smart, exchVars, toAlgo, worker,
                 canceller, lost, trouble>>

\* Out of its range of prices a TWAP has no quote.
onBid1Ask1(quote) ==
  /\ MarketData
  /\ bid1ask1' = IF TWAP /\ params.hasRange /\ lastPrice # "In" THEN NoQuote ELSE quote
  /\ UNCHANGED lastPrice

onLastPrice(price) ==
  /\ MarketData /\ (~TWAP \/ params.hasRange)
  /\ lastPrice' = price
  /\ UNCHANGED bid1ask1

-----------------------------------------------------------------------------
\* The strategy: cancelAlgoOrder takes the algorithmic order out of the maps,
\* then cancels its orders, as the order manager has them at that time.
releaseAlgoOrder ==
  /\ canceller = "idle" /\ managed
  /\ canceller' = "released" /\ managed' = FALSE
  /\ UNCHANGED <<params, algoStatus, mdVars, fsmVars, smart, exchVars, toAlgo, worker,
                 lost, trouble>>

cancelAllOrders ==
  /\ canceller = "released" /\ canceller' = "done"
  /\ engineCancelOrder(ordMgr)
  /\ algoStatus' = "Canceled"
  /\ UNCHANGED <<params, managed, mdVars, fsmVars, smart, toAlgo, worker, lost, trouble>>

\* A single order is cancelled by hand.
cancelOrderByHand(id) ==
  /\ id \in ordMgr /\ trouble < MaxTrouble /\ trouble' = trouble + 1
  /\ engineCancelOrder({id})
  /\ UNCHANGED <<params, algoStatus, managed, mdVars, fsmVars, smart, toAlgo, worker,
                 canceller, lost>>

\* The thread of the strategy instance sees a finished order.
InstanceSees(id) ==
  /\ id \in toInst
  /\ toInst' = toInst \ {id} /\ ordMgr' = ordMgr \ {id}
  /\ UNCHANGED <<params, algoStatus, managed, mdVars, fsmVars, smart, exch, toAlgo, worker,
                 canceller, lost, trouble>>

-----------------------------------------------------------------------------
\* External: the trade server, the gateway and the exchange.
Sign == IF params.side = "Bid" THEN 1 ELSE -1

Report(id, kind, code) ==
  [kind |-> kind, id |-> id, status |-> exch'[id].status, deal |-> Sign * exch'[id].deal,
   code |-> code]

\* What is reported of an order goes to AlgoMgr and to the instance.
Reported(id, code) ==
  /\ Len(toAlgo) < MaxQueue
  /\ toAlgo' = Append(toAlgo, Report(id, "OrderRet", code))
  /\ toInst' = IF Closed(exch'[id].status) THEN toInst \cup {id} ELSE toInst
  /\ UNCHANGED <<params, algoStatus, managed, mdVars, fsmVars, smart, ordMgr, worker,
                 canceller, lost>>

Deals(id, n) ==
  /\ Live(id) /\ n \in 1 .. exch[id].size - exch[id].deal
  /\ exch' = [exch EXCEPT ![id].deal = @ + n,
                          ![id].status = IF exch[id].deal + n = exch[id].size THEN "Filled" ELSE @]
  /\ Reported(id, NoCode) /\ UNCHANGED trouble

Cancels(id) ==
  /\ Live(id) /\ exch[id].cancel = "Asked"
  /\ exch' = [exch EXCEPT ![id].status = "Canceled"]
  /\ Reported(id, NoCode) /\ UNCHANGED trouble

Fails(id, code) ==
  /\ Live(id) /\ exch[id].deal = 0 /\ trouble < MaxTrouble /\ trouble' = trouble + 1
  /\ exch' = [exch EXCEPT ![id].status = "Failed"]
  /\ Reported(id, code)

RefusesToCancel(id) ==
  /\ exch[id].cancel = "Asked" /\ Len(toAlgo) < MaxQueue /\ trouble < MaxTrouble
  /\ trouble' = trouble + 1
  /\ exch' = [exch EXCEPT ![id].cancel = "Refused"]
  /\ toAlgo' = Append(toAlgo, Report(id, "CancelRet", CHOOSE c \in OtherCode : TRUE))
  /\ UNCHANGED <<params, algoStatus, managed, mdVars, fsmVars, smart, ordMgr, toInst, worker,
                 canceller, lost>>

-----------------------------------------------------------------------------
Next ==
  \/ algoOrder \/ copyOfOnTimer \/ TimerWork \/ TimerIdle
  \/ lookupOfOnAsyncTask \/ onAsyncTask
  \/ \E quote \in Quote : onBid1Ask1(quote)
  \/ \E price \in {"In", "Out"} : onLastPrice(price)
  \/ releaseAlgoOrder \/ cancelAllOrders
  \/ \E id \in OrderId :
       \/ cancelOrderByHand(id) \/ InstanceSees(id)
       \/ Cancels(id) \/ RefusesToCancel(id)
       \/ \E n \in 1 .. exch[id].size : Deals(id, n)
       \/ \E code \in Code : Fails(id, code)

\* The thread of AlgoMgr runs, and what waits for the clock is due again and
\* again until it is done; an order asked to cancel or left alone comes to its end.
Fairness ==
  /\ WF_vars(copyOfOnTimer) /\ WF_vars(TimerIdle) /\ SF_vars(TimerWork)
  /\ WF_vars(lookupOfOnAsyncTask \/ onAsyncTask) /\ WF_vars(cancelAllOrders)
  /\ \A id \in OrderId : WF_vars(InstanceSees(id)) /\ WF_vars(Cancels(id) \/ \E n \in 1 .. exch[id].size : Deals(id, n))

Spec == Init /\ [][Next]_vars /\ Fairness

-----------------------------------------------------------------------------
Dealt(S) == MapThenSumSet(LAMBDA id : exch[id].deal, S)

\* Whatever is filled, cancelled and placed again, never more is dealt than the
\* strategy asked for (AlgoTWAPFSM::handleOrderCanceled, TWAP::handleUnfilled).
NeverExceedsTotal == Dealt(OrderId) <= params.totalSize

\* While there are quotes in its range an algorithmic order comes to an end,
\* unless its state machine waits for an order there is not (AlgoTWAPFSM's
\* transition_table, TWAP::doOnTimer; the last disjunct is the bound).
Quoted == bid1ask1 # NoQuote /\ (~TWAP \/ params.hasRange => lastPrice = "In")

EventuallyOver ==
  []<>(\/ algoStatus \notin {"NotStarted", "Started"}
       \/ ~Quoted \/ lost
       \/ \A id \in OrderId : exch[id].status # "None")

-----------------------------------------------------------------------------
\* For TLC: a few sets of parameters, one of them refused.
TWAPOf(side, total, num, range) ==
  [algoType |-> "TWAP", side |-> side, totalSize |-> total, splitNum |-> num,
   hasRange |-> range, wellFormed |-> TRUE, initialUrgency |-> "PriceOfMaker", tickerOffset |-> 0]
MCParams ==
  {TWAPOf("Bid", 5, 2, FALSE), TWAPOf("Bid", 4, 1, TRUE), TWAPOf("Bid", 1, 2, FALSE),
   [TWAPOf("Bid", 4, 1, FALSE) EXCEPT !.wellFormed = FALSE],
   [TWAPOf("Bid", 2, 1, TRUE) EXCEPT !.algoType = "SmartOrder"]}
MCQuote == {[bid |-> 1, ask |-> 2], [bid |-> 3, ask |-> 6]}
=============================================================================
