----------------------------- MODULE MCTradeRisk -----------------------------
(***************************************************************************)
(* The two things a risk control thread of the trade server keeps: the     *)
(* limits of its plug-ins (RiskPlugins) and its book of positions          *)
(* (Positions).  Neither reads the other, so a behaviour is one of a part. *)
(***************************************************************************)
EXTENDS RiskPlugins, TLC

CONSTANTS CoinBased, AcctOf, Deal, PnlNoted, MayFail, MaxDeals, MaxGWCrashes
VARIABLES deals, gwNo, unstored, tradeRows, srvAt, srvUp, modBook, syncTaskGroup, dbTasks,
          posDB, restored, excused, torn, gwCrashes
VARIABLE part   \* "limits" or "positions"

Book == INSTANCE Positions

ASSUME BookAssumption == Book!PositionsAssumption

limitVars == <<now, world, volatile, ordMgr, shm, stashed, opened, exposed, repeats>>
posVars == <<deals, gwNo, unstored, tradeRows, srvAt, srvUp, modBook, syncTaskGroup, dbTasks,
             posDB, restored, excused, torn, gwCrashes>>
mcVars == <<part, limitVars, posVars, crashes>>

MCInit == part \in {"limits", "positions"} /\ Init /\ Book!Init
MCNext == \/ part = "limits" /\ Next /\ UNCHANGED <<part, posVars>>
          \/ part = "positions" /\ Book!Next /\ UNCHANGED <<part, limitVars>>
MCSpec == MCInit /\ [][MCNext]_mcVars

-----------------------------------------------------------------------------
\* Orders that open and close at prices that meet, and one that a list forbids.
Order(side, direction, price, size, trdAcctId) ==
  [acctId |-> "10000", symbolCode |-> "rb2401", trdAcctId |-> trdAcctId, side |-> side,
   posDirection |-> direction, orderPrice |-> price, orderSize |-> size]
MCShape ==
  {Order("Bid", "Open", 2, 2, "1"), Order("Ask", "Close", 2, 1, "1"),
   Order("Ask", "Open", 2, 1, "2")}
MCRule == {"OrderSizeTotal", "OrderTimesWithinTime", "RejectOrderTimesTotal",
           "CancelOrderTimesTotal", "HoldVolTotal"}
MCLimitValue ==
  [r \in MCRule |-> CASE r = "OrderSizeTotal" -> 2 [] r = "HoldVolTotal" -> 2 [] OTHER -> 1]
\* A limit of each side, one of the buyers, one of a product, of an account, and of both.
MCLetters == "rb2401" :> "rb"
MCPrefix == "rb*" :> "rb"
MCCondOf ==
  [r \in MCRule |->
     CASE r = "OrderSizeTotal" -> << <<"side", "*">>, <<"acctId", "">> >>
       [] r = "OrderTimesWithinTime" -> << <<"acctId", "10000">> >>
       [] r = "RejectOrderTimesTotal" -> << <<"side", "Bid">> >>
       [] r = "CancelOrderTimesTotal" -> << <<"posDirection", "Open">>, <<"symbolCode", "rb*">> >>
       [] r = "HoldVolTotal" -> << <<"acctId", "10000">>, <<"symbolCode", "rb*">> >>]
MCBlackList == {[condition |-> << <<"acctId", "10000">>, <<"trdAcctId", "2">> >>,
                 symbolCode |-> "rb2401"]}
MCWhiteList == {[condition |-> << <<"trdAcctId", "1">> >>, symbolCode |-> "rb2401"]}
MCSelfTradeCtrlRange == {<< <<"acctId", "10000">> >>}
Symmetry == Permutations(OrderId)

\* One account that trades two contracts: "u" on one side, buying and selling more or the
\* other way round, so that both directions are opened, closed and flipped; "c", margined in
\* its coin and sold short on a side of its own, of which a part is closed, then too much.
MCAcctOf == ("u" :> "a1") @@ ("c" :> "a1")
T(grp, posSide, side, n, price, cur, opens) ==
  [grp |-> grp, posSide |-> posSide, side |-> side, cur |-> cur, opens |-> opens,
   size |-> IF side = "Bid" THEN n ELSE -n, price |-> price]
MCOneSide == {T("u", "Both", "Bid", 2, 3, "CNY", TRUE), T("u", "Both", "Ask", 3, 2, "CNY", FALSE)}
MCTwoSides == {T("c", "Short", "Ask", 3, 1, "CNY", TRUE), T("c", "Short", "Bid", 2, 2, "CNY", FALSE)}
MCDeal == MCOneSide \cup MCTwoSides \cup {T("u", "Both", "Bid", 1, 1, "BNB", TRUE)}

-----------------------------------------------------------------------------
\* No more is forwarded than the rules allow: in all, within a time, in rejections and in
\* what is held and pending, but for what a crash did not count; no more orders cross a
\* pending one than are allowed, and nothing is closed on the day it was opened.
LimitsKept ==
  /\ SentWithinLimit /\ RateKept /\ RejectionsCounted /\ HoldWithinLimit
  /\ SelfTradesAllowed /\ NeverClosesTodayUncrashed

\* What a book holds is the sum of its deals, and its realised profit and its worth at
\* the average price add up to what they cost.
BookFollowsDeals == Book!NetFollowsDeals /\ Book!PnlFollowsDeals

\* What the table of positions lacks was lost in a way that is known.
LostOnlyIfExcused == Book!LostOnlyIfExcused
=============================================================================
