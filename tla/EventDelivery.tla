--------------------------- MODULE EventDelivery ---------------------------
(***************************************************************************)
(* What sys_event_store promises for each event, without saying how: an    *)
(* event that was accepted is delivered, or waits and is tried again, or   *)
(* is given up after exactly MaxRetries failed tries.  EventBus implements *)
(* it as long as ticks do not overlap and nobody presses retry.            *)
(***************************************************************************)
EXTENDS Integers

CONSTANTS Events, MaxRetries

VARIABLES outcome, tries

Init ==
  /\ outcome = [e \in Events |-> "none"]
  /\ tries = [e \in Events |-> 0]

\* The event is recorded, delivered already or waiting for the poller.
Accept(e) ==
  /\ outcome[e] = "none"
  /\ \E o \in {"delivered", "waiting"} : outcome' = [outcome EXCEPT ![e] = o]
  /\ UNCHANGED tries

Deliver(e) ==
  /\ outcome[e] = "waiting"
  /\ outcome' = [outcome EXCEPT ![e] = "delivered"]
  /\ UNCHANGED tries

\* A try fails, and the last one allowed kills the event.
FailTry(e) ==
  /\ outcome[e] = "waiting"
  /\ tries[e] < MaxRetries
  /\ tries' = [tries EXCEPT ![e] = @ + 1]
  /\ outcome' = [outcome EXCEPT
                   ![e] = IF tries'[e] = MaxRetries THEN "dead" ELSE "waiting"]

Next == \E e \in Events : Accept(e) \/ Deliver(e) \/ FailTry(e)

Spec == Init /\ [][Next]_<<outcome, tries>>
=============================================================================
