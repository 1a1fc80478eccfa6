-------------------------------- MODULE TDSrv --------------------------------
(***************************************************************************)
(* The trade server (bqtd-srv) between a strategy engine and the gateways, *)
(* for orders of one contract of the Chinese futures markets, which are    *)
(* the ones that go through OrderPreProc:                                  *)
(*                                                                         *)
(*   order          StgEng -> OrderPreProc -> module 1 -> ... -> gateway   *)
(*   cancellation   StgEng ----------------> module 1 -> ... -> gateway    *)
(*   return         gateway -> OrderPreProc -> module 1 -> ...             *)
(*                                              and to StgEng by module 1  *)
(*                                                                         *)
(* OrderPreProc has a thread, and each risk control module one (the orders *)
(* of one partition); each has an order manager of its own, and what they  *)
(* are told waits in their queues.  OrderPreProc decides which account     *)
(* trades: an order that says neither open nor close closes what the       *)
(* account holds and has not frozen, or what another account of the group  *)
(* of shared positions has.  A risk control module refuses an order by its *)
(* plug-ins or, the first, because its gateway is not registered.          *)
(*                                                                         *)
(* What a plug-in decides is any choice; its counters, the database and    *)
(* the modules' own positions are left out.  Answers to cancellations      *)
(* change nothing here and are left out.  The gateway is external: it      *)
(* reports an order as TDGateway and TDGatewayCTP show.                    *)
(***************************************************************************)
EXTENDS OrderGroup, Functions, TLC

CONSTANTS
  Acct,        \* the accounts, a group of shared positions
  InitPos,     \* InitPos[a]: the net position account a starts with
  Side,        \* the sides orders may have
  Direction,   \* what a strategy says: "Open", or "Others" for either
  NumModules,  \* the number of risk control modules
  MaxPreQueue, \* bound: the length of the queue of OrderPreProc
  MaxModQueue, \* bound: the length of the queue of a module
  Joint        \* may a deal be reported together with the cancellation?

ASSUME InitPosAssumption == InitPos \in [Acct -> Int]
ASSUME TDSrvAssumption ==
  /\ Side \subseteq {"Bid", "Ask"} /\ Direction \subseteq {"Open", "Others"}
  /\ {NumModules, MaxPreQueue, MaxModQueue} \subseteq Nat \ {0} /\ Joint \in BOOLEAN

Module == 1 .. NumModules
Summed(f, ids) == FoldFunctionOnSet(+, 0, f, ids)
NoOrder == [orderId |-> Unset]
Known(o) == o # NoOrder

VARIABLES
  stg,        \* stg[id]: the strategy engine's copy of the order
  preQueue,   \* queue of OrderPreProc: orders and returns
  pre,        \* order manager of OrderPreProc
  hold,       \* hold[a]: net position of account a, position manager of OrderPreProc
  modQueue,   \* modQueue[n]: queue of module n: orders, cancellations and returns
  mod,        \* mod[n]: order manager of module n
  gw,         \* gw[id]: the order in the order manager of its gateway
  canceling   \* orders their gateway was asked to cancel

preVars == <<preQueue, pre, hold>>
modVars == <<modQueue, mod>>
vars == <<stg, preVars, modVars, gw, canceling>>

Init ==
  /\ stg = [id \in OrderId |-> NoOrder] /\ gw = [id \in OrderId |-> NoOrder]
  /\ preQueue = << >> /\ modQueue = [n \in Module |-> << >>]
  /\ pre = EmptyGroup /\ mod = [n \in Module |-> EmptyGroup]
  /\ hold = InitPos /\ canceling = {}

NewOrder(id, acct, side, direction, size) ==
  [orderId |-> id, side |-> side, orderSize |-> size, orderStatus |-> Created,
   dealSize |-> 0, exchOrderId |-> Unset, feeCurrency |-> Unset, statusCode |-> Unset,
   acctId |-> acct, posDirection |-> direction]

\* A message about an order; lastDealSize is the deal a return tells of.
Msg(kind, o, last) == [kind |-> kind, order |-> o, lastDealSize |-> last]

IsIn(queue, kind, id) ==
  \E i \in DOMAIN queue : queue[i].kind = kind /\ queue[i].order.orderId = id

\* What the strategy engine makes of a return.
Receive(copy, o) == updateByOrderInfoFromTDGW(copy, ReportOf(o))

\* The order comes back to the strategy engine failed.
Fail(o) ==
  stg' = [stg EXCEPT ![o.orderId] =
            Receive(@, [o EXCEPT !.orderStatus = Failed, !.statusCode = 1])]

-----------------------------------------------------------------------------
\* Strategy engine.
StgOrder(id, acct, side, direction, size) ==
  LET o == NewOrder(id, acct, side, direction, size)
  IN  /\ ~Known(stg[id]) /\ Len(preQueue) < MaxPreQueue
      /\ stg' = [stg EXCEPT ![id] = o]
      /\ preQueue' = Append(preQueue, Msg("order", o, 0))
      /\ UNCHANGED <<pre, hold, modVars, gw, canceling>>

\* The copy of the strategy engine is what is sent; cancellations do not pass
\* through OrderPreProc.  Bound: one at a time is under way for an order.
StgCancel(id) ==
  /\ Known(stg[id]) /\ ~closed(stg[id]) /\ id \notin canceling
  /\ \A n \in Module : ~IsIn(modQueue[n], "cancel", id)
  /\ Len(modQueue[1]) < MaxModQueue
  /\ modQueue' = [modQueue EXCEPT ![1] = Append(@, Msg("cancel", stg[id], 0))]
  /\ UNCHANGED <<stg, preVars, mod, gw, canceling>>

-----------------------------------------------------------------------------
\* OrderPreProc.  What is frozen of the position of an account: the rest of
\* the orders under way that close it by the same side.
NothingFrozen(o, acct) == 0   \* mutant

getFrozenPos(o, acct) ==
  Summed([id \in OpenIds(pre) |-> getUndealedSize(pre.open[id])],
    {id \in OpenIds(pre) : /\ pre.open[id].acctId = acct
                           /\ pre.open[id].posDirection = "Close"
                           /\ pre.open[id].side = o.side})

\* A buying order closes a short position, a selling order a long one.
getPosCanBeBorrowed(o, acct) ==
  IF hold[acct] = 0 \/ (hold[acct] > 0 <=> o.side = "Bid") THEN 0
  ELSE Abs(hold[acct]) - getFrozenPos(o, acct)

Enough(o, acct) == getPosCanBeBorrowed(o, acct) >= o.orderSize

\* The orders it may become: as it is when the strategy chose, else one that
\* closes, in its own account if possible; no order if nothing is enough.
handleSharedPos(o) ==
  LET Closing(acct) == [o EXCEPT !.posDirection = "Close", !.acctId = acct]
  IN  CASE o.posDirection # "Others" -> {o}
        [] o.posDirection = "Others" /\ Enough(o, o.acctId) -> {Closing(o.acctId)}
        [] OTHER -> {Closing(acct) : acct \in {a \in Acct : Enough(o, a)}}

PreHandleOrder ==
  /\ preQueue # << >> /\ Head(preQueue).kind = "order" /\ Len(modQueue[1]) < MaxModQueue
  /\ preQueue' = Tail(preQueue)
  /\ LET orders == handleSharedPos(Head(preQueue).order)
     IN  \/ \E o \in orders :
              /\ CanAdd(pre, o) /\ pre' = add(pre, o)
              /\ modQueue' = [modQueue EXCEPT ![1] = Append(@, Msg("order", o, 0))]
              /\ UNCHANGED stg
         \/ orders = {} /\ Fail(Head(preQueue).order) /\ UNCHANGED <<pre, modQueue>>
  /\ UNCHANGED <<hold, mod, gw, canceling>>

DealOfFilled(ret) ==   \* mutant: a partial deal does not change the position
  IF ret.order.orderStatus = Filled THEN ret.lastDealSize ELSE 0

\* A partly filled or filled order changes the position by its last deal.
DealOf(ret) ==
  IF /\ Found(pre, ReportOf(ret.order))
     /\ IsTheOrderCanBeUsedCalcPos(Lookup(pre, ReportOf(ret.order)), ReportOf(ret.order))
     /\ ret.order.orderStatus \in {PartialFilled, Filled}
  THEN ret.lastDealSize ELSE 0

PreHandleRet ==
  /\ preQueue # << >> /\ Head(preQueue).kind = "ret" /\ Len(modQueue[1]) < MaxModQueue
  /\ LET ret == Head(preQueue)
     IN  /\ pre' = UpdateFromTDGW(pre, ReportOf(ret.order))
         /\ hold' = [hold EXCEPT ![ret.order.acctId] = @ + DealOf(ret)]
         /\ modQueue' = [modQueue EXCEPT ![1] = Append(@, ret)]
  /\ preQueue' = Tail(preQueue)
  /\ UNCHANGED <<stg, mod, gw, canceling>>

-----------------------------------------------------------------------------
\* Risk control modules.  Module n takes the head of its queue and may hand
\* it to the next module.
Takes(n, kind) == modQueue[n] # << >> /\ Head(modQueue[n]).kind = kind

Pass(n) ==
  /\ n < NumModules => Len(modQueue[n + 1]) < MaxModQueue
  /\ modQueue' = [k \in Module |-> CASE k = n -> Tail(modQueue[n])
                                     [] k = n + 1 -> Append(modQueue[k], Head(modQueue[n]))
                                     [] OTHER -> modQueue[k]]
Drop(n) == modQueue' = [modQueue EXCEPT ![n] = Tail(@)]

ModAcceptsOrder(n) ==
  /\ Takes(n, "order") /\ Pass(n)
  /\ LET o == Head(modQueue[n]).order
     IN  /\ CanAdd(mod[n], o) /\ mod' = [mod EXCEPT ![n] = add(@, o)]
         /\ gw' = IF n = NumModules
                  THEN [gw EXCEPT ![o.orderId] = [o EXCEPT !.orderStatus = Pending]] ELSE gw
  /\ UNCHANGED <<stg, preVars, canceling>>

RefuseSilently(n) ==   \* mutant: nobody tells the strategy engine
  /\ Takes(n, "order") /\ Drop(n)
  /\ UNCHANGED <<stg, preVars, mod, gw, canceling>>

\* Refused by a plug-in the order is taken back from the module's manager.
ModRefusesOrder(n) ==
  /\ Takes(n, "order") /\ Drop(n)
  /\ LET o == Head(modQueue[n]).order
     IN  /\ mod' = [mod EXCEPT ![n] = remove(add(@, o), o.orderId)]
         /\ Fail(o)
  /\ UNCHANGED <<preVars, gw, canceling>>

\* The cancellation goes to the gateway of the account it names; a gateway
\* that does not have the order says so.
ModAcceptsCancel(n) ==
  /\ Takes(n, "cancel") /\ Pass(n)
  /\ LET o == Head(modQueue[n]).order
         reached == /\ n = NumModules /\ Known(gw[o.orderId])
                    /\ gw[o.orderId].acctId = o.acctId /\ ~closed(gw[o.orderId])
     IN  canceling' = IF reached THEN canceling \cup {o.orderId} ELSE canceling
  /\ UNCHANGED <<stg, preVars, mod, gw>>

ModRefusesCancel(n) ==
  /\ Takes(n, "cancel") /\ Drop(n)
  /\ UNCHANGED <<stg, preVars, mod, gw, canceling>>

\* A return is sent on by the first module; a plug-in may stop it on its way
\* to the next one.
HandleRetUnsent(n) ==   \* mutant: a return that changes no position is not sent on
  /\ Takes(n, "ret") /\ (Pass(n) \/ Drop(n))
  /\ LET ret == Head(modQueue[n])
         o == ret.order
     IN  /\ stg' = IF n = 1 /\ ret.lastDealSize # 0
                   THEN [stg EXCEPT ![o.orderId] = Receive(@, o)] ELSE stg
         /\ mod' = [mod EXCEPT ![n] = UpdateFromTDGW(@, ReportOf(o))]
  /\ UNCHANGED <<preVars, gw, canceling>>

ModHandlesRet(n) ==
  /\ Takes(n, "ret") /\ (Pass(n) \/ Drop(n))
  /\ LET o == Head(modQueue[n]).order
     IN  /\ stg' = IF n = 1 THEN [stg EXCEPT ![o.orderId] = Receive(@, o)] ELSE stg
         /\ mod' = [mod EXCEPT ![n] = UpdateFromTDGW(@, ReportOf(o))]
  /\ UNCHANGED <<preVars, gw, canceling>>

-----------------------------------------------------------------------------
\* Gateway and exchange.  Every change is reported.
Reports(id, o) ==
  /\ Len(preQueue) < MaxPreQueue
  /\ gw' = [gw EXCEPT ![id] = o]
  /\ preQueue' = Append(preQueue, Msg("ret", o, o.dealSize - gw[id].dealSize))
  /\ UNCHANGED <<stg, pre, hold, modVars, canceling>>

Live(id) == Known(gw[id]) /\ gw[id].orderStatus \in {ConfirmedByExch, PartialFilled}

GWConfirms(id) ==
  /\ Known(gw[id]) /\ gw[id].orderStatus = Pending
  /\ Reports(id, [gw[id] EXCEPT !.orderStatus = ConfirmedByExch, !.exchOrderId = id])

GWRefuses(id) ==
  /\ Known(gw[id]) /\ gw[id].orderStatus = Pending
  /\ Reports(id, [gw[id] EXCEPT !.orderStatus = Failed, !.statusCode = 1])

GWDeals(id) ==
  /\ Live(id)
  /\ Reports(id, [gw[id] EXCEPT
       !.dealSize = @ + Signed(gw[id].side, 1),
       !.orderStatus = IF getUndealedSize(gw[id]) = 1 THEN Filled ELSE PartialFilled])

\* Joint: the return of the last deal was lost, and a query brings it with
\* the cancellation.
GWCancels(id) ==
  /\ Live(id) /\ id \in canceling
  /\ \E lots \in IF Joint /\ getUndealedSize(gw[id]) > 1 THEN {0, 1} ELSE {0} :
       LET dealSize == gw[id].dealSize + Signed(gw[id].side, lots)
       IN  Reports(id, [gw[id] EXCEPT
             !.dealSize = dealSize,
             !.orderStatus = IF dealSize = 0 THEN Canceled ELSE PartialFilledCanceled])

-----------------------------------------------------------------------------
Next ==
  \/ \E id \in OrderId, acct \in Acct, side \in Side, direction \in Direction, size \in Size :
       StgOrder(id, acct, side, direction, size)
  \/ PreHandleOrder \/ PreHandleRet
  \/ \E n \in Module :
       \/ ModAcceptsOrder(n) \/ ModRefusesOrder(n)
       \/ ModAcceptsCancel(n) \/ ModRefusesCancel(n)
       \/ ModHandlesRet(n)
  \/ \E id \in OrderId :
       \/ StgCancel(id)
       \/ GWConfirms(id) \/ GWRefuses(id) \/ GWDeals(id) \/ GWCancels(id)

Spec == Init /\ [][Next]_vars

-----------------------------------------------------------------------------
OrderInTDSrv ==
  [orderId : OrderId, side : Side, orderSize : Size, orderStatus : OrderStatus,
   dealSize : Int, exchOrderId : OrderId \cup {Unset}, feeCurrency : {Unset},
   statusCode : {Unset, 1}, acctId : Acct, posDirection : Direction \cup {"Close"}]

\* Types; every copy of an order has deals of its side and within its size,
\* and only an order that was left to the trade server changes hands.
TypeOK ==
  /\ stg \in [OrderId -> OrderInTDSrv \cup {NoOrder}]
  /\ gw \in [OrderId -> OrderInTDSrv \cup {NoOrder}]
  /\ hold \in [Acct -> Int] /\ canceling \subseteq OrderId
  /\ \A id \in OrderId :
       /\ Known(stg[id]) => HasSignOfSide(stg[id]) /\ getUndealedSize(stg[id]) >= 0
       /\ Known(gw[id]) =>
            /\ HasSignOfSide(gw[id]) /\ getUndealedSize(gw[id]) >= 0
            /\ gw[id].posDirection # "Others"
            /\ gw[id].acctId = stg[id].acctId \/ gw[id].posDirection = "Close"

\* What orders of a side can close at the exchange: the position of the other
\* side the account started with, what was opened and what was closed since.
AtGW == {id \in OrderId : Known(gw[id])}

ClosablePos(acct, side) ==
  LET dealt == [id \in AtGW |-> Abs(gw[id].dealSize)]
      opened == {id \in AtGW : /\ gw[id].acctId = acct /\ gw[id].side # side
                               /\ gw[id].posDirection = "Open"}
      closing == {id \in AtGW : /\ gw[id].acctId = acct /\ gw[id].side = side
                                /\ gw[id].posDirection = "Close"}
      initial == IF InitPos[acct] > 0 <=> side = "Ask" THEN Abs(InitPos[acct]) ELSE 0
  IN  initial + Summed(dealt, opened) - Summed(dealt, closing)

\* The live orders that close a position never ask for more than the account
\* has at the exchange, although the trade server learns of deals later,
\* orders compete for the position and some are refused on their way.
NeverOverborrowed ==
  \A acct \in Acct, side \in Side :
    Summed([id \in AtGW |-> getUndealedSize(gw[id])],
           {id \in AtGW : /\ gw[id].acctId = acct /\ gw[id].side = side
                          /\ gw[id].posDirection = "Close" /\ ~closed(gw[id])})
      <= ClosablePos(acct, side)

\* The position manager of OrderPreProc and its order manager tell the same
\* story: "only Filled and PartialFilled change a position" (PosMgr.hpp:262).
OrderOf(om, id) ==
  IF id \in OpenIds(om) THEN om.open[id]
  ELSE om.recent[CHOOSE i \in DOMAIN om.recent : om.recent[i].orderId = id]
HeldBy(om) == OpenIds(om) \cup RecentIds(om)
HoldFollowsDeals ==
  \A acct \in Acct :
    hold[acct] = InitPos[acct] +
      Summed([id \in HeldBy(pre) |-> OrderOf(pre, id).dealSize],
             {id \in HeldBy(pre) : OrderOf(pre, id).acctId = acct})

\* When nothing is under way to them, the strategy engine, OrderPreProc and
\* the first module agree with the gateway.
Agree(a, b) == a.orderStatus = b.orderStatus /\ a.dealSize = b.dealSize
SrvAgreesWithGW ==
  \A id \in OrderId :
    /\ Known(gw[id]) /\ gw[id].orderStatus # Pending
    /\ ~IsIn(preQueue, "ret", id) /\ ~IsIn(modQueue[1], "ret", id)
    => Agree(stg[id], gw[id]) /\ Agree(OrderOf(pre, id), gw[id])
       /\ Agree(OrderOf(mod[1], id), gw[id])

\* No order is forgotten: one the strategy engine has heard nothing of is on
\* its way to the gateway, unanswered there, or its answer is on its way back,
\* on whichever path it is refused.
UnansweredIsOnItsWay ==
  \A id \in OrderId :
    Known(stg[id]) /\ stg[id].orderStatus = Created =>
      \/ IsIn(preQueue, "order", id) \/ \E n \in Module : IsIn(modQueue[n], "order", id)
      \/ Known(gw[id]) /\ gw[id].orderStatus = Pending
      \/ IsIn(preQueue, "ret", id) \/ IsIn(modQueue[1], "ret", id)

-----------------------------------------------------------------------------
\* For TLC: accounts that start with the same long position.
MCInitPos == [a \in Acct |-> 2]
Symmetry == Permutations(Acct)
=============================================================================
