---------------------------- MODULE MCEventBus ----------------------------
(* Small instances of EventBus for TLC. *)
EXTENDS EventBus, TLC

CONSTANTS e1, e2, a1, h1, h2

\* e1 has two subscribers, as SALES_ORDER_CONFIRMED and PRODUCTION_COMPLETED
\* have, e2 has one, and nobody subscribes to the alert.
SomeHandlers ==
  [e \in Events |-> CASE e = e1 -> <<h1, h2>>
                      [] e = e2 -> <<h2>>
                      [] OTHER  -> <<>>]

SamePriority == [e \in Events |-> 5]

\* The alert is more urgent than the others.
AlertFirst == [e \in Events |-> IF e = a1 THEN 1 ELSE 5]
===========================================================================
