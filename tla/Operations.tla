----------------------------- MODULE Operations -----------------------------
(***************************************************************************)
(* The operations of one work order in progress and its work in progress   *)
(* (OperationService, and the parts of ProductionReportService that write  *)
(* operations).                                                            *)
(*                                                                         *)
(* A start and a report are statements of their own.  The completion of an *)
(* operation is a transaction that also activates the next operations and  *)
(* moves the work in progress; it computes from an operation read before.  *)
(* The rows of the work in progress of an order lie side by side in one    *)
(* index, so that transactions that update them wait for each other when   *)
(* there is one.  Nothing ever sets isParallel, so parallel operations are *)
(* those of one sequence.                                                  *)
(*                                                                         *)
(* reported, scanned, lateOps and transferred are history: the quantities  *)
(* reported for an operation, the operations completed by a scan, those    *)
(* that were written while another request had read them, and whether the  *)
(* work in progress was moved by hand.                                     *)
(***************************************************************************)
EXTENDS Requests

CONSTANTS Ops,        \* the operations of the order
          SequenceOf  \* [Ops -> Nat], as in the routing

ASSUME SequenceAssumption == SequenceOf \in [Ops -> Nat]

VARIABLES op, wipAt, reported, scanned, lateOps, transferred

opData == <<op, wipAt, reported, scanned, lateOps, transferred>>
opVars == <<opData, reqVars>>

-----------------------------------------------------------------------------
OpStatus == {"PENDING", "IN_PROGRESS", "COMPLETED"}
PendingOps == {o \in Ops : op[o].status = "PENDING"}
Later(o) == {u \in Ops : SequenceOf[u] > SequenceOf[o]}

OpsInit ==
  /\ op = [o \in Ops |-> [status |-> "PENDING", qty |-> 0]]
  /\ wipAt = << >>
  /\ reported = [o \in Ops |-> 0]
  /\ scanned = {} /\ lateOps = {} /\ transferred = FALSE

\* The transaction of a completion keeps its own operation locked, and the
\* rows of the work in progress.
Completing(c) == At(c, "completeOp", "commit")
OpFree(c, o) == \A d \in Clients \ {c} : Completing(d) => job[d].on # o
WipFree(c) ==
  wipAt # << >> => \A d \in Clients \ {c} : ~Completing(d)

\* Client c writes operation o; others that have read it are late.
LateFor(c, o) ==
  IF \E d \in Clients \ {c} : job[d].op \in {"completeOp", "reportOp"}
                              /\ job[d].on = o
  THEN lateOps \cup {o} ELSE lateOps

-----------------------------------------------------------------------------
(* startCheck: the four checks have passed *)

StartOp(c, o) ==
  /\ op[o].status = "PENDING"
  /\ Accept(c, [op |-> "startOp", on |-> o, stage |-> "status"])
  /\ UNCHANGED opData

StartOpStatus(c) ==
  /\ At(c, "startOp", "status")
  /\ OpFree(c, job[c].on)
  /\ op' = [op EXCEPT ![job[c].on].status = "IN_PROGRESS"]
  /\ Continue(c, [job[c] EXCEPT !.stage = "look"])
  /\ UNCHANGED <<wipAt, reported, scanned, lateOps, transferred>>

StartOpLook(c) ==
  /\ At(c, "startOp", "look")
  /\ IF \E i \in DOMAIN wipAt : wipAt[i] = job[c].on
     THEN Reply(c)
     ELSE Continue(c, [job[c] EXCEPT !.stage = "wip"])
  /\ UNCHANGED opData

StartOpWip(c) ==
  /\ At(c, "startOp", "wip")
  /\ WipFree(c)
  /\ wipAt' = Append(wipAt, job[c].on)
  /\ Reply(c)
  /\ UNCHANGED <<op, reported, scanned, lateOps, transferred>>

-----------------------------------------------------------------------------
(* complete, autoAdvance *)

CompleteOp(c, o, q) ==
  /\ op[o].status = "IN_PROGRESS"
  /\ Accept(c, [op |-> "completeOp", on |-> o, qty |-> q,
                total |-> op[o].qty + q, stage |-> "begin"])
  /\ UNCHANGED opData

\* Variant: routings are numbered without gaps
NextOpsAdjacent(o) == {u \in PendingOps : SequenceOf[u] = SequenceOf[o] + 1}

\* The pending operations of the next sequence that has any.
NextOps(o) ==
  {u \in PendingOps \cap Later(o) :
     \A v \in PendingOps \cap Later(o) : SequenceOf[u] <= SequenceOf[v]}

CompleteOpBegin(c) ==
  /\ At(c, "completeOp", "begin")
  /\ OpFree(c, job[c].on) /\ WipFree(c)
  /\ Continue(c, [op |-> "completeOp", on |-> job[c].on, qty |-> job[c].qty,
                  total |-> job[c].total, stage |-> "commit",
                  next |-> NextOps(job[c].on)])
  /\ UNCHANGED opData

\* Variant: the quantity of the scan replaces the one so far
NewTotalOfScan(j) == j.qty

NewTotal(j) == j.total

\* The rows of the work in progress go to the next operations one after the
\* other, so that they end up at the last of them.
CompleteOpCommit(c) ==
  /\ Completing(c)
  /\ LET o == job[c].on  next == job[c].next
     IN /\ \A u \in next : OpFree(c, u)
        /\ op' = [u \in Ops |->
             IF u = o THEN [status |-> "COMPLETED", qty |-> NewTotal(job[c])]
             ELSE IF u \in next THEN [op[u] EXCEPT !.status = "IN_PROGRESS"]
             ELSE op[u]]
        /\ IF next = {} THEN UNCHANGED wipAt
           ELSE \E last \in next : wipAt' = [i \in DOMAIN wipAt |-> last]
        /\ reported' = [reported EXCEPT ![o] = reported[o] + job[c].qty]
        /\ scanned' = scanned \cup {o}
        /\ lateOps' = LateFor(c, o)
  /\ Reply(c)
  /\ UNCHANGED transferred

-----------------------------------------------------------------------------
(* Reports on an operation: its status is not looked at *)

ReportOpStart(c, o) ==
  /\ OpFree(c, o)
  /\ Once
  /\ op' = [op EXCEPT ![o].status = "IN_PROGRESS"]
  /\ UNCHANGED <<wipAt, reported, scanned, lateOps, transferred>>

ReportOpRead(c, o, q) ==
  /\ Accept(c, [op |-> "reportOp", on |-> o, qty |-> q,
                total |-> op[o].qty + q, stage |-> "write"])
  /\ UNCHANGED opData

ReportOpWrite(c) ==
  /\ At(c, "reportOp", "write")
  /\ LET o == job[c].on
     IN /\ OpFree(c, o)
        /\ op' = [op EXCEPT ![o] = [status |-> "COMPLETED", qty |-> NewTotal(job[c])]]
        /\ reported' = [reported EXCEPT ![o] = reported[o] + job[c].qty]
        /\ lateOps' = LateFor(c, o)
  /\ Continue(c, [op |-> "moveWip", on |-> job[c].on, stage |-> "write"])
  /\ UNCHANGED <<wipAt, scanned, transferred>>

\* updateWip: one row of the order goes where the report was made.
MoveWip(c) ==
  /\ At(c, "moveWip", "write")
  /\ WipFree(c)
  /\ IF wipAt = << >> THEN UNCHANGED wipAt
     ELSE \E i \in DOMAIN wipAt : wipAt' = [wipAt EXCEPT ![i] = job[c].on]
  /\ Reply(c)
  /\ UNCHANGED <<op, reported, scanned, lateOps, transferred>>

\* The report TRANSFER moves all rows, to whatever operation it names.
TransferWip(c, o) ==
  /\ WipFree(c)
  /\ Once
  /\ wipAt' = [i \in DOMAIN wipAt |-> o]
  /\ transferred' = TRUE
  /\ UNCHANGED <<op, reported, scanned, lateOps>>

OpDie(c) ==
  /\ job[c] # NoJob
  /\ Reply(c)
  /\ UNCHANGED opData

-----------------------------------------------------------------------------
OpsNext ==
  \E c \in Clients :
    \/ \E o \in Ops :
         \/ StartOp(c, o) \/ ReportOpStart(c, o) \/ TransferWip(c, o)
         \/ CompleteOp(c, o, 1) \/ ReportOpRead(c, o, 1)
    \/ StartOpStatus(c) \/ StartOpLook(c) \/ StartOpWip(c)
    \/ CompleteOpBegin(c) \/ CompleteOpCommit(c)
    \/ ReportOpWrite(c) \/ MoveWip(c)
    \/ OpDie(c)

OpsSpec == ReqInit /\ OpsInit /\ [][OpsNext]_opVars

-----------------------------------------------------------------------------
OpsTypeOK ==
  /\ op \in [Ops -> [status : OpStatus, qty : Nat]]
  /\ wipAt \in Seq(Ops)
  /\ reported \in [Ops -> Nat]
  /\ scanned \subseteq Ops /\ lateOps \subseteq Ops /\ transferred \in BOOLEAN

(***************************************************************************)
(* No order stalls between two operations: after the completion scan of an *)
(* operation, unless it was the last, some later one is under way or done; *)
(* and the work in progress lies at an operation that has been started,    *)
(* until somebody moves it by hand.  Whatever requests overlap or die. The *)
(* completed quantity of an operation is the sum of what was reported and  *)
(* scanned for it, except where a request wrote it while another had read  *)
(* it.                                                                     *)
(***************************************************************************)
ProgressIsKept ==
  /\ \A o \in scanned : Later(o) # {} => Later(o) \ PendingOps # {}
  /\ ~transferred => \A i \in DOMAIN wipAt : wipAt[i] \notin PendingOps
  /\ \A o \in Ops \ lateOps : op[o].qty = reported[o]
=============================================================================
