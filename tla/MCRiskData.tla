----------------------------- MODULE MCRiskData -----------------------------
(***************************************************************************)
(* What reaches the processes by the database and by publication: the rows *)
(* of risk control the trade server reads (RiskConf) and the positions the *)
(* risk manager loads, counts and publishes (RiskMgr).  Neither reads the  *)
(* other, so a behaviour is one of a part.                                 *)
(***************************************************************************)
EXTENDS RiskMgr

CONSTANTS FlowCtrlRule, TrdSymbolList, SelfTradeCtrlRange, PnlMonitorRange, StepOf, Condition,
          Value, Step, ThreadNum, Acct, InitDB, MaxChgs, MaxCrashes
VARIABLES db, accts, clock, snap, checkTimes, updateTime, inbox, mgr, acctGrp, reload,
          rowsAtStart, missed, clashed, bare, chgs, crashes
VARIABLE part   \* "conf" or "positions"

Conf == INSTANCE RiskConf WITH queue <- inbox, loaded <- rowsAtStart

ASSUME ConfAssumption == Conf!RiskConfAssumption

confVars == <<db, accts, clock, snap, checkTimes, updateTime, inbox, mgr, acctGrp, reload,
              rowsAtStart, missed, clashed, bare, chgs, crashes>>
mcVars == <<part, confVars, vars>>

MCInit == /\ part \in {"conf", "positions"} /\ Init /\ Conf!Init
          /\ part = "conf" => kind = "AcctId"
MCNext == \/ part = "conf" /\ Conf!Next /\ UNCHANGED <<part, vars>>
          \/ part = "positions" /\ Next /\ UNCHANGED <<part, confVars>>

\* The fairness of each module.  That of RiskMgr asks for nothing in the other part, where
\* nothing has happened to it and no account has a position to publish.
MCFairness ==
  /\ WF_confVars(part = "conf" /\ Conf!Check) /\ WF_confVars(part = "conf" /\ Conf!HandleAcctInfoChg)
  /\ \A mt \in Conf!Thread : /\ WF_confVars(part = "conf" /\ Conf!HandleConfChg(mt))
                             /\ WF_confVars(part = "conf" /\ Conf!OnPosSnapshot(mt))
  /\ Fairness
MCSpec == MCInit /\ [][MCNext]_mcVars /\ MCFairness

-----------------------------------------------------------------------------
\* A module of two threads and one of one.
MCStepOf == ("f1" :> "acctId") @@ ("f2" :> "acctId")
            @@ ("t1" :> "stgId") @@ ("loss" :> "stgId") @@ ("profit" :> "stgId")
MCCondition == ("loss" :> "c1") @@ ("profit" :> "c1")
MCValue == [k \in DOMAIN MCStepOf |-> IF k \in {"f1", "loss"} THEN {1, 2} ELSE {1}]
MCInitDB == [k \in {"f1", "loss"} |-> 1]
MCStep == <<"stgId", "acctId">>
MCThreadNum == <<2, 1>>

D(o, grp, posSide, side, n, price, cur) ==
  [id |-> o, no |-> 1, grp |-> grp, posSide |-> posSide, side |-> side, cur |-> cur, opens |-> TRUE,
   size |-> IF side = "Bid" THEN n ELSE -n, price |-> price]

\* A purchase with and one without the currency of the fee.
MCDealOf == (1 :> D(1, "u", "Both", "Bid", 1, 2, "CNY")) @@
            (2 :> D(2, "u", "Both", "Bid", 1, 4, ""))
MCMaxStops == [by \in Kind |-> IF by = "StgInstId" THEN 1 ELSE 0]
MCIdsOf == "u" :> [acctId |-> "a1", stgId |-> "s1", stgInstId |-> 1]

-----------------------------------------------------------------------------
\* A rule that takes the place of another is there before the other goes.
NeverUncovered == Conf!NeverUncovered

\* Every deal is counted once in the book of the risk manager, unless its order was between
\* two tables at a start, and merging two records changes neither position nor cost.
PositionsCountedOnce == CountedOnceUnlessStarting /\ MergeKeepsPosAndCost

\* In the end every thread enforces what the database says and has the profit or loss of what
\* it monitors, and a subscriber is shown every record of the risk manager's book as it is.
EventuallyUpToDate == <>[](IF part = "conf" THEN Conf!Enforced ELSE Shown)
=============================================================================
