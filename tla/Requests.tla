------------------------------ MODULE Requests ------------------------------
(***************************************************************************)
(* Requests in flight.  The services of the platform serve each request in *)
(* a chain of statements on the shared database, and requests interleave   *)
(* between any two statements.  A request is a record: what it does (op),  *)
(* where it is (stage), and what it has read and not yet written.  The     *)
(* component modules extend this one.                                      *)
(***************************************************************************)
EXTENDS Integers, FiniteSets, Sequences, Functions

CONSTANTS Clients,     \* the requests served at the same time
          MaxRequests  \* bound: requests served in all

ASSUME ClientsAssumption == IsFiniteSet(Clients)
ASSUME MaxRequestsAssumption == MaxRequests \in Nat

VARIABLES job,  \* [Clients -> the request it serves, or NoJob]
          left  \* bound: how many more are served

reqVars == <<job, left>>

NoJob == [op |-> "none"]

ReqInit ==
  /\ job = [c \in Clients |-> NoJob]
  /\ left = MaxRequests

\* A request that is served in one statement or transaction.
Once ==
  /\ left > 0
  /\ left' = left - 1
  /\ UNCHANGED job

\* Client c sends a request that takes several steps.
Accept(c, j) ==
  /\ job[c] = NoJob
  /\ left > 0
  /\ left' = left - 1
  /\ job' = [job EXCEPT ![c] = j]

Continue(c, j) ==
  /\ job' = [job EXCEPT ![c] = j]
  /\ UNCHANGED left

Reply(c) == Continue(c, NoJob)

\* Client c is at this stage of this operation.
At(c, op, stage) == job[c].op = op /\ job[c].stage = stage
=============================================================================
