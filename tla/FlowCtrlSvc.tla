----------------------------- MODULE FlowCtrlSvc -----------------------------
(***************************************************************************)
(* The flow control of requests to an exchange: FlowCtrlSvc keeps the times  *)
(* of the last requests of a group and refuses one when the rate since the  *)
(* oldest of them would reach the limit.                                    *)
(***************************************************************************)
EXTENDS Integers, FiniteSets, Sequences, SequencesExt

CONSTANTS
  Weight,       \* of each task of the group; 0 for one that is not limited
  timeDur,      \* milliseconds ...
  limitNum,     \* ... and how many tasks are allowed in them
  MaxNow        \* bound: the clock

\* A limit below a weight makes exceedFlowCtrl look at the front of an empty queue.
ASSUME FlowCtrlAssumption ==
  /\ timeDur \in Nat \ {0} /\ limitNum \in Nat \ {0} /\ MaxNow \in Nat
  /\ \A t \in DOMAIN Weight : Weight[t] \in Nat /\ Weight[t] < limitNum

VARIABLES
  now,
  timePoints,   \* timePointGroupOfTaskHasBeenExec_, a circular buffer of limitNum
  executed      \* ghost: the times of all tasks since the last reset, by their weight

flowVars == <<now, timePoints, executed>>

FlowInit == now = 0 /\ timePoints = << >> /\ executed = << >>

\* exceedFlowCtrl, with the quotients multiplied out.
Few(n, weight) == n + weight < limitNum
RateReached(n, weight, td) == (n + weight) * timeDur >= limitNum * td
Exceeds(points, weight, t) ==
  /\ ~Few(Len(points), weight)
  /\ t = Head(points) \/ RateReached(Len(points), weight, t - Head(points))

\* The buffer drops its oldest times.  (PushUnlessFull: it does not.)
PushUnlessFull(points, weight, t) == IF Len(points) = limitNum THEN points ELSE points \o [n \in 1 .. weight |-> t]
Push(points, weight, t) ==
  LET all == points \o [n \in 1 .. weight |-> t]
  IN  IF Len(all) > limitNum THEN SubSeq(all, Len(all) - limitNum + 1, Len(all)) ELSE all

exceedFlowCtrl(task) ==
  /\ Weight[task] > 0 /\ ~Exceeds(timePoints, Weight[task], now)
  /\ timePoints' = Push(timePoints, Weight[task], now)
  /\ executed' = executed \o [n \in 1 .. Weight[task] |-> now]
  /\ UNCHANGED now

reset == timePoints # << >> /\ timePoints' = << >> /\ executed' = << >> /\ UNCHANGED now

Tick == now < MaxNow /\ now' = now + 1 /\ UNCHANGED <<timePoints, executed>>

FlowNext == (\E t \in DOMAIN Weight : exceedFlowCtrl(t)) \/ reset \/ Tick

-----------------------------------------------------------------------------
\* In no time of timeDur more than the limit is let through, but for the rest of the last
\* task when it weighs more than one: the rate is that since the oldest time kept.
Heaviest == CHOOSE w \in {Weight[t] : t \in DOMAIN Weight} : \A t \in DOMAIN Weight : Weight[t] <= w
WithinLimit ==
  \A n \in DOMAIN executed :
    Cardinality({m \in 1 .. n : executed[n] - executed[m] <= timeDur}) <= limitNum + Heaviest - 1
=============================================================================
