----------------------------- MODULE OrderGroup -----------------------------
(***************************************************************************)
(* The two containers of an OrdMgr (bqordmgr): the orders under way and    *)
(* the most recently closed ones.  Every process has an OrdMgr of its own, *)
(* and every thread of the trade server has one, so the containers are a   *)
(* value here, not a variable:                                             *)
(*                                                                         *)
(*   open    the orders under way, a function from their orderId           *)
(*   recent  the closed orders, oldest first, at most MaxClosed of them    *)
(*                                                                         *)
(* Each operator is the body of one method, which the code runs inside a   *)
(* spin lock; a module that uses it makes it (part of) one step.  The      *)
(* market is a constant of an instance, so the key (marketCode,            *)
(* exchOrderId) is the exchOrderId.                                        *)
(***************************************************************************)
EXTENDS OrderInfo, Sequences

CONSTANT MaxClosed   \* maxSizeOfOrderInfoOfClosedGroup_

ASSUME MaxClosedAssumption == MaxClosed \in Nat \ {0}

EmptyGroup == [open |-> [id \in {} |-> {}], recent |-> << >>]

OpenIds(om) == DOMAIN om.open
RecentIds(om) == {om.recent[i].orderId : i \in DOMAIN om.recent}

\* add: refused when the order is already under way.
CanAdd(om, o) == o.orderId \notin OpenIds(om)

add(om, o) ==
  [om EXCEPT !.open = [id \in DOMAIN @ \cup {o.orderId} |->
                         IF id = o.orderId THEN o ELSE @[id]]]

\* remove: the order is dropped, it does not become a recently closed one.
remove(om, id) ==
  [om EXCEPT !.open = [x \in DOMAIN @ \ {id} |-> @[x]]]

-----------------------------------------------------------------------------
\* A report names its order by orderId when it has one, else by exchOrderId.
Names(new, o) ==
  IF new.orderId # Unset THEN o.orderId = new.orderId
  ELSE new.exchOrderId # Unset /\ o.exchOrderId = new.exchOrderId

OpenMatch(om, new) == {id \in OpenIds(om) : Names(new, om.open[id])}
RecentMatch(om, new) == {i \in DOMAIN om.recent : Names(new, om.recent[i])}

Found(om, new) == OpenMatch(om, new) # {} \/ RecentMatch(om, new) # {}

\* The order a report is about; the orders under way are searched first.
Lookup(om, new) ==
  IF OpenMatch(om, new) # {} THEN om.open[CHOOSE id \in OpenMatch(om, new) : TRUE]
  ELSE om.recent[CHOOSE i \in RecentMatch(om, new) : TRUE]

\* A closed order enters the recent ones unless its orderId is there, and
\* the one closed first leaves when they are too many.
PushRecent(recent, o) ==
  LET grown == IF \E i \in DOMAIN recent : recent[i].orderId = o.orderId
               THEN recent ELSE Append(recent, o)
  IN  IF Len(grown) > MaxClosed THEN Tail(grown) ELSE grown

\* mutant: a closed order stays among those under way as well
StoreTwice(om, o) ==
  IF o.orderId \in OpenIds(om)
  THEN [open |-> [om.open EXCEPT ![o.orderId] = o],
        recent |-> IF closed(o) THEN PushRecent(om.recent, o) ELSE om.recent]
  ELSE om

\* Put an updated order back: a closed one moves from the orders under way
\* to the recent ones; one that was found among the recent stays there,
\* whatever its status is now.
Store(om, o) ==
  IF o.orderId \in OpenIds(om)
  THEN IF closed(o)
       THEN [open   |-> remove(om, o.orderId).open,
             recent |-> PushRecent(om.recent, o)]
       ELSE [om EXCEPT !.open[o.orderId] = o]
  ELSE [om EXCEPT !.recent =
          [i \in DOMAIN @ |-> IF @[i].orderId = o.orderId THEN o ELSE @[i]]]

\* The whole of updateByOrderInfoFromExch and updateByOrderInfoFromTDGW.
UpdateFromExch(om, new) ==
  IF Found(om, new)
  THEN Store(om, updateByOrderInfoFromExch(Lookup(om, new), new)) ELSE om

UpdateFromTDGW(om, new) ==
  IF Found(om, new)
  THEN Store(om, updateByOrderInfoFromTDGW(Lookup(om, new), new)) ELSE om

-----------------------------------------------------------------------------
IsGroup(om) ==
  \E S \in SUBSET OrderId : om \in [open : [S -> Order], recent : Seq(Order)]
=============================================================================
