--------------------------- MODULE OrderLifecycle ---------------------------
(***************************************************************************)
(* What an order manager promises about every order, without containers    *)
(* and without reports.  An order is absent, then live, then done, then    *)
(* gone; it never goes back.  The size dealt only grows while the order is *)
(* known.  A live order leaves by being finished or withdrawn; a done one  *)
(* is forgotten only when another one is finished and Capacity orders are  *)
(* done already.                                                           *)
(***************************************************************************)
EXTENDS Naturals, FiniteSets

CONSTANTS Id, Capacity

VARIABLES
  phase,   \* phase[id]: where the order is in its life
  dealt    \* dealt[id]: the size dealt, 0 unless live or done

lifecycleVars == <<phase, dealt>>

Done(p) == {id \in Id : p[id] = "done"}

LifecycleInit ==
  /\ phase = [id \in Id |-> "absent"]
  /\ dealt = [id \in Id |-> 0]

DealtGrows(id) == dealt'[id] \in Nat /\ dealt'[id] >= dealt[id]

Accept(id) ==
  /\ phase[id] = "absent"
  /\ phase' = [phase EXCEPT ![id] = "live"]
  /\ dealt' = dealt

Withdraw(id) ==
  /\ phase[id] = "live"
  /\ phase' = [phase EXCEPT ![id] = "gone"]
  /\ dealt' = [dealt EXCEPT ![id] = 0]

\* A deal of an order that is live or already done (a late deal).
Deal(id) ==
  /\ phase[id] \in {"live", "done"}
  /\ DealtGrows(id) /\ dealt' = [dealt EXCEPT ![id] = dealt'[id]]
  /\ phase' = phase

\* The order is finished, perhaps by a last deal; there is room for it.
Finish(id) ==
  /\ phase[id] = "live"
  /\ Cardinality(Done(phase)) < Capacity
  /\ phase' = [phase EXCEPT ![id] = "done"]
  /\ DealtGrows(id) /\ dealt' = [dealt EXCEPT ![id] = dealt'[id]]

\* The order is finished and an order done before it is forgotten for it.
FinishForgetting(id, old) ==
  /\ phase[id] = "live" /\ phase[old] = "done"
  /\ Cardinality(Done(phase)) = Capacity
  /\ phase' = [phase EXCEPT ![id] = "done", ![old] = "gone"]
  /\ DealtGrows(id) /\ dealt' = [dealt EXCEPT ![id] = dealt'[id], ![old] = 0]

LifecycleNext ==
  \E id \in Id :
    \/ Accept(id) \/ Withdraw(id) \/ Deal(id) \/ Finish(id)
    \/ \E old \in Id : FinishForgetting(id, old)

LifecycleSpec == LifecycleInit /\ [][LifecycleNext]_lifecycleVars
=============================================================================
