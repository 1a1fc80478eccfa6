----------------------------- MODULE OrderInfo -----------------------------
(***************************************************************************)
(* The order record every process of BetterQuant2 keeps a copy of          *)
(* (bqpub OrderInfo) and the two functions that merge a report into it:    *)
(* updateByOrderInfoFromExch, run by a trade gateway on what the exchange  *)
(* said, and updateByOrderInfoFromTDGW, run by everybody else on what the  *)
(* gateway said.  The module has no state: it is the vocabulary of the     *)
(* other modules.                                                          *)
(*                                                                         *)
(* Data kept: identity, side, sizes with their sign (an Ask order carries  *)
(* negative deal sizes), status, the set-once fields exchOrderId,          *)
(* feeCurrency and statusCode.  A price is only ever compared with zero by *)
(* these functions, so avgPriced and lastPriced say "the price is not 0".  *)
(* Fees, times and trade ids are left out.                                 *)
(***************************************************************************)
EXTENDS Integers

CONSTANTS
  OrderId,      \* the orders, natural numbers different from 0
  ExchOrderId,  \* identifiers an exchange gives, natural numbers, not 0
  Size          \* sizes a client may ask for, natural numbers, not 0

ASSUME OrderIdAssumption == OrderId \subseteq Nat \ {0}
ASSUME ExchOrderIdAssumption == ExchOrderId \subseteq Nat \ {0}
ASSUME SizeAssumption == Size \subseteq Nat \ {0}

\* An identifier, a code or a currency that is not set.
Unset == 0

\* enum class OrderStatus: the order of the numbers is the order of progress.
Created               == 1
ConfirmedInLocal      == 3
Pending               == 5
ConfirmedByExch       == 10
PartialFilled         == 20
Filled                == 100
Canceled              == 101
PartialFilledCanceled == 105
Failed                == 110

OrderStatus == {Created, ConfirmedInLocal, Pending, ConfirmedByExch,
                PartialFilled, Filled, Canceled, PartialFilledCanceled, Failed}

closed(o) == o.orderStatus >= Filled

Abs(n) == IF n < 0 THEN 0 - n ELSE n

\* The sign every size of an order carries: positive for Bid, negative for Ask.
Signed(side, n) == IF side = "Bid" THEN Abs(n) ELSE 0 - Abs(n)

HasSignOfSide(o) == IF o.side = "Bid" THEN o.dealSize >= 0 ELSE o.dealSize <= 0

getUndealedSize(o) ==
  IF o.side = "Bid" THEN o.orderSize - o.dealSize ELSE o.orderSize + o.dealSize

Order == [orderId     : OrderId,
          side        : {"Bid", "Ask"},
          orderSize   : Size,
          orderStatus : OrderStatus,
          dealSize    : Int,
          exchOrderId : ExchOrderId \cup {Unset},
          feeCurrency : {Unset, 1},
          statusCode  : {Unset, 1}]

\* A report: what is said about an order.  orderId may be Unset, in which
\* case the order is found by its exchOrderId.
Report == [orderId      : OrderId \cup {Unset},
           exchOrderId  : ExchOrderId \cup {Unset},
           orderStatus  : OrderStatus,
           dealSize     : Int,
           avgPriced    : BOOLEAN,
           lastDealSize : Int,
           lastPriced   : BOOLEAN,
           feeCurrency  : {Unset, 1},
           statusCode   : {Unset, 1}]

-----------------------------------------------------------------------------
\* The status a report moves an order to: it only advances, and never once
\* the order is closed.
StatusAdvancesAlways(o, new) == new.orderStatus > o.orderStatus   \* mutant: closed orders too

StatusAdvances(o, new) == new.orderStatus > o.orderStatus /\ ~closed(o)

\* mutant: any other size
DealSizeIsValidIfOther(o, new) ==
  new.dealSize # o.dealSize /\ Abs(new.dealSize) <= o.orderSize /\ new.avgPriced

\* The accumulated deal size of a report is taken when it grew, stays within
\* the order and comes with an average price.
DealSizeIsValid(o, new) ==
  /\ Abs(new.dealSize) > Abs(o.dealSize)
  /\ Abs(new.dealSize) <= o.orderSize
  /\ new.avgPriced

\* A trade return carries the last deal only; it is added to the total.
IsRtnTrade(new) ==
  /\ new.dealSize = 0 /\ ~new.avgPriced
  /\ new.lastDealSize # 0 /\ new.lastPriced

SetOnce(old, new) == IF old = Unset THEN new ELSE old

\* Fields that are written once and never change again.
StaticFieldSet(o, new) ==
  \/ o.exchOrderId = Unset /\ new.exchOrderId # Unset
  \/ o.feeCurrency = Unset /\ new.feeCurrency # Unset
  \/ o.statusCode = Unset /\ new.statusCode # Unset

WithStaticFields(o, new) ==
  [o EXCEPT !.exchOrderId = SetOnce(@, new.exchOrderId),
            !.feeCurrency = SetOnce(@, new.feeCurrency),
            !.statusCode  = SetOnce(@, new.statusCode)]

\* Gateway side.  A trade return sets the status from the new total whatever
\* the status was; the sign of what the exchange sends is normalised first.
DealSizeFromExch(o, new) ==
  CASE DealSizeIsValid(o, new) -> Signed(o.side, new.dealSize)
    [] IsRtnTrade(new)         -> o.dealSize + Signed(o.side, new.lastDealSize)
    [] OTHER                   -> o.dealSize

StatusFromExch(o, new) ==
  CASE IsRtnTrade(new) -> IF Abs(DealSizeFromExch(o, new)) < o.orderSize
                          THEN PartialFilled ELSE Filled
    [] ~IsRtnTrade(new) /\ StatusAdvances(o, new) -> new.orderStatus
    [] OTHER -> o.orderStatus

updateByOrderInfoFromExch(o, new) ==
  WithStaticFields([o EXCEPT !.orderStatus = StatusFromExch(o, new),
                             !.dealSize = DealSizeFromExch(o, new)], new)

IsSomeFieldOfOrderUpdated(o, new) ==
  \/ StatusAdvances(o, new)
  \/ DealSizeIsValid(o, new)
  \/ IsRtnTrade(new)
  \/ StaticFieldSet(o, new)

\* Everybody else: no trade returns, sizes already signed.
IsTheOrderCanBeUsedCalcPos(o, new) == DealSizeIsValid(o, new)

updateByOrderInfoFromTDGW(o, new) ==
  WithStaticFields(
    [o EXCEPT !.orderStatus = IF StatusAdvances(o, new) THEN new.orderStatus ELSE @,
              !.dealSize = IF DealSizeIsValid(o, new) THEN new.dealSize ELSE @], new)

\* Would the answer to an order query change the order?  The sizes are
\* compared with their signs.
compAndCheckIfUpdate(o, new) ==
  \/ StatusAdvances(o, new)
  \/ /\ new.orderStatus = PartialFilled /\ o.orderStatus = PartialFilled
     /\ new.dealSize > o.dealSize
  \/ o.feeCurrency = Unset /\ new.feeCurrency # Unset
  \/ o.exchOrderId = Unset /\ new.exchOrderId # Unset

\* What a process that stores the order sends on about it.
ReportOf(o) ==
  [orderId |-> o.orderId, exchOrderId |-> o.exchOrderId,
   orderStatus |-> o.orderStatus, dealSize |-> o.dealSize,
   avgPriced |-> o.dealSize # 0, lastDealSize |-> 0, lastPriced |-> FALSE,
   feeCurrency |-> o.feeCurrency, statusCode |-> o.statusCode]
=============================================================================
