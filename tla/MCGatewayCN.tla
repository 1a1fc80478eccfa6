----------------------------- MODULE MCGatewayCN -----------------------------
(***************************************************************************)
(* The two gateways that stand on bqtd-svc-base-cn, to CTP (TDGatewayCTP)  *)
(* and to XTP (TDGatewayXTP).  They are processes of their own and have    *)
(* nothing in common, so a behaviour is one of either.                     *)
(***************************************************************************)
EXTENDS TDGatewayCTP

CONSTANTS OutOfOrder, MaxDisconnects, MaxCrashes
VARIABLES xOrdMgr, xUsed, rel, session, xRequest, syncTasks, db, xExch, cancel, stream,
          xAnswer, disconnects, crashes
VARIABLE gateway   \* "CTP" or "XTP"

XTP == INSTANCE TDGatewayXTP
         WITH ordMgr <- xOrdMgr, used <- xUsed, request <- xRequest, exch <- xExch,
              answer <- xAnswer

ASSUME XTPAssumption == XTP!TDGatewayXTPAssumption

xtpVars == <<xOrdMgr, xUsed, rel, session, xRequest, syncTasks, db, xExch, cancel, stream,
             xAnswer, disconnects, crashes>>
mcVars == <<gateway, vars, xtpVars>>

MCInit == gateway \in {"CTP", "XTP"} /\ Init /\ XTP!Init
MCNext == \/ gateway = "CTP" /\ Next /\ UNCHANGED <<gateway, xtpVars>>
          \/ gateway = "XTP" /\ XTP!Next /\ UNCHANGED <<gateway, vars>>

\* What is fair of the one asks for nothing of the other, which has no order.
MCSpec == MCInit /\ [][MCNext]_mcVars /\ Fairness /\ XTP!Fairness

-----------------------------------------------------------------------------
\* XTP: no deal is counted twice, whatever is lost and whenever the gateway is started again.
XTPDealCountedOnce == XTP!DealCountedOnce

\* XTP: an order that ended, or never came there, ends here, with the size that was dealt.
XTPFinishedIsLearnt == XTP!FinishedIsLearnt
=============================================================================
