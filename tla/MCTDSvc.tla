------------------------------- MODULE MCTDSvc -------------------------------
(***************************************************************************)
(* What a trade gateway does besides forwarding orders and returns: it keeps *)
(* the account's assets and simulates an exchange.  Neither reads the other. *)
(***************************************************************************)
\* TDSvc with two assets, and three simulated orders: a purchase dealt in two parts, a
\* sale dealt in part, and one that only rests.
EXTENDS Assets, SimedTD, TLC

VARIABLE part   \* "copies" or "published" (of the assets), or "simed"

vars == <<part, assetVars, simVars>>

Init == part \in {"copies", "published", "simed"} /\ AssetInit /\ SimInit

CopyStep == part = "copies" /\ CopyNext /\ UNCHANGED <<part, simVars>>
PubStep == part = "published" /\ PubNext /\ UNCHANGED <<part, simVars>>
SimStep == part = "simed" /\ SimNext /\ UNCHANGED <<part, assetVars>>
Next == CopyStep \/ PubStep \/ SimStep

\* The scheduler, the database threads, the poll, the websocket thread and the risk
\* manager's publications go on.
Fairness ==
  /\ WF_vars(part = "copies" /\ Poll /\ UNCHANGED <<part, simVars>>)
  /\ WF_vars(part = "copies" /\ compareWithAssetsUpdate /\ UNCHANGED <<part, simVars>>)
  /\ WF_vars(part = "published" /\ Publish /\ UNCHANGED <<part, simVars>>)

Spec == Init /\ [][Next]_vars /\ Fairness

-----------------------------------------------------------------------------
Settled ==
  /\ wsThread.step = "idle" /\ httpThread.step \in {"idle", "answered"}
  /\ syncTaskGroup = << >> /\ dbTasks = << >> /\ toRiskMgr = << >>

\* When nothing is on its way, the table and the risk manager hold what the gateway holds,
\* except an asset whose changes the two threads queued in the wrong order, whose
\* statements were executed in another order, or that changed while a process was ending.
CopiesAgree ==
  part = "copies" /\ Settled => \A a \in Asset :
    /\ assetDB[a] = assetInfoGroup[a] \/ \E why \in {"queued", "executed"} : <<a, why>> \in mayDiffer
    /\ riskAssets[a] = assetInfoGroup[a]
       \/ \E why \in {"queued", "executed", "unwritten", "missed"} : <<a, why>> \in mayDiffer

\* The gateway comes to hold what the exchange holds, whatever messages were lost and
\* whichever thread was late, unless every asset is gone: an empty answer is ignored.
Known == assetInfoGroup = exchAssets \/ exchAssets = None

\* A strategy is shown what the risk manager holds, unless it holds nothing for the account
\* any more and was restarted, or had published the account in a snapshot only.
Shown ==
  shown = riskAssets \/ (riskAssets = None /\ \E a \in Asset : <<a, "shown">> \in mayDiffer)

\* Both in the end and for good.
EventuallyAgreed == <>[]((part = "copies" => Known) /\ (part = "published" => Shown))

-----------------------------------------------------------------------------
MCSimOrder ==
  {[orderId |-> id, side |-> IF id = 2 THEN "Ask" ELSE "Bid", orderSize |-> 4,
    orderStatus |-> Pending, dealSize |-> 0, exchOrderId |-> Unset, feeCurrency |-> Unset,
    statusCode |-> Unset] : id \in OrderId}

MCInfoOf ==
  (1 :> [orderStatus |-> Filled, transDetailGroup |-> <<1, 3>>]) @@
  (2 :> [orderStatus |-> PartialFilled, transDetailGroup |-> <<2, 1>>]) @@
  (3 :> [orderStatus |-> Filled, transDetailGroup |-> <<2>>])
=============================================================================
