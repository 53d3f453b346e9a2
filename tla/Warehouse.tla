----------------------------- MODULE Warehouse -----------------------------
(***************************************************************************)
(* The warehouse operations built on InventoryService: the issue of a      *)
(* demand over several stock rows (IssueService) and the stock take        *)
(* (StockTakeService), each a series of database transactions with program *)
(* state in between, beside the single operations of Inventory.            *)
(*                                                                         *)
(* A client serves one request at a time: a single operation, which is one *)
(* transaction, or a job, which goes through several steps.                *)
(***************************************************************************)
EXTENDS Inventory, FiniteSets

CONSTANTS NoLine,     \* no line of the stock take for that key
          Wants,      \* the quantities an issue asks for
          MaxCount,   \* bound: the largest quantity counted
          MaxRequests \* bound: the requests served in all

ASSUME WantsAssumption == Wants \subseteq Nat \ {0}
ASSUME KeysAssumption == IsFiniteSet(Keys)
ASSUME BoundsAssumption == MaxCount \in Nat /\ MaxRequests \in Nat

VARIABLES job,        \* what each client is at between transactions
          announced,  \* history: the issues announced, wanted and moved
          takeStatus, \* status of the stock take
          starting,   \* a start of the take has read its status
          line,       \* its lines, one per stock row
          applied,    \* history: how often a count has been applied
          requests    \* the requests that have come

whVars == <<stock, txn, ledger, lost, counted, clamped, job, announced,
            takeStatus, starting, line, applied, requests>>

-----------------------------------------------------------------------------
NoJob == [kind |-> "none"]

\* IssueService.issue: the candidates left with the available quantity read
\* from each, what is wanted, still missing and being taken, and what the
\* ledger has of it so far.
IssueJob == {j \in [kind   : {"issue"},
                   cands  : [Keys -> Nat],
                   want   : Nat,
                   left   : Nat,
                   taking : Nat,
                   out    : Nat] : j.taking <= j.left}

\* StockTakeService.approve: the corrections read from the counted lines.
ApproveJob == [kind : {"approve"}, stage : {"read", "write"},
               plan : Seq(Write)]

Line == [book : Nat, diff : Int, status : {"PENDING", "COUNTED", "ADJUSTED"}]

ASSUME NoLineAssumption == NoLine \notin Line

WhInit ==
  /\ InvInit
  /\ job = [c \in Clients |-> NoJob]
  /\ announced = {}
  /\ takeStatus = "NONE"
  /\ starting = FALSE
  /\ line = [k \in Keys |-> NoLine]
  /\ applied = [k \in Keys |-> 0]
  /\ requests = 0

takeVars == <<takeStatus, starting, line, applied>>
Idle(c) == txn[c] = NoTxn /\ job[c] = NoJob

\* A new request reaches an idle client.
Arrives(c) ==
  /\ Idle(c)
  /\ requests < MaxRequests
  /\ requests' = requests + 1

\* A request for a single operation of InventoryService.
Single(c) ==
  /\ Arrives(c)
  /\ Request(c)
  /\ UNCHANGED <<job, announced, takeVars>>

-----------------------------------------------------------------------------
(* Issue of a demand *)

Least(a, b) == IF a < b THEN a ELSE b

\* LocationStrategyService.recommend: the rows with something available.
Available(k) == IF stock[k] = NoRow THEN 0 ELSE stock[k].availableQty

\* Nothing is available anywhere: the request is refused at once.
IssueStart(c, want) ==
  /\ Arrives(c)
  /\ \E k \in Keys : Available(k) > 0
  /\ job' = [job EXCEPT ![c] =
       [kind |-> "issue", cands |-> [k \in Keys |-> Available(k)],
        want |-> want, left |-> want, taking |-> 0, out |-> 0]]
  /\ UNCHANGED <<invVars, announced, takeVars>>

\* The next candidate (the order is that of the strategy asked for).
IssueNext(c, k) ==
  /\ txn[c] = NoTxn
  /\ job[c].kind = "issue"
  /\ job[c].left > 0 /\ job[c].cands[k] > 0
  /\ LET qty == Least(job[c].left, job[c].cands[k])
     IN /\ Issue(c, k, qty)
        /\ job' = [job EXCEPT ![c] =
             [kind |-> "issue", cands |-> [job[c].cands EXCEPT ![k] = 0],
              want |-> job[c].want, left |-> job[c].left,
              taking |-> qty, out |-> job[c].out]]
  /\ UNCHANGED <<announced, takeVars, requests>>

\* remaining -= qty
Remaining(j) == j.left - j.taking

\* What the transaction of an issue has entered in the ledger: it is the
\* entry of the one row it has updated.
Taken(c) == -txn[c].entry[CHOOSE k \in Keys : Holds(c, k)]

\* job of c when its transaction commits
AfterCommit(c) ==
  CASE job[c].kind = "issue" ->
         [kind |-> "issue", cands |-> job[c].cands, want |-> job[c].want,
          left |-> Remaining(job[c]), taking |-> 0,
          out |-> job[c].out + Taken(c)]
    [] OTHER -> NoJob

\* Variant: a row that cannot be taken from counts as taken
FailureSwallowed(c) ==
  CASE job[c].kind = "issue" ->
         [kind |-> "issue", cands |-> job[c].cands, want |-> job[c].want,
          left |-> Remaining(job[c]), taking |-> 0, out |-> job[c].out]
    [] OTHER -> NoJob

\* The exception of a failed transaction ends the whole request: nothing
\* catches it, and what earlier transactions took stays taken.
AfterFailure(c) == NoJob

\* All taken: MATERIAL_ISSUED is published.  Candidates used up: the request
\* fails with WMS_INSUFFICIENT_STOCK, its transactions are committed.
IssueEnd(c) ==
  /\ txn[c] = NoTxn
  /\ job[c].kind = "issue"
  /\ \/ /\ job[c].left = 0
        /\ announced' = announced \cup
             {[want |-> job[c].want, out |-> job[c].out]}
     \/ /\ job[c].left > 0
        /\ \A k \in Keys : job[c].cands[k] = 0
        /\ UNCHANGED announced
  /\ job' = [job EXCEPT ![c] = NoJob]
  /\ UNCHANGED <<invVars, takeVars, requests>>

-----------------------------------------------------------------------------
(* Stock take *)

\* The order and its lines, with the book quantity of every row.
CreateTake ==
  /\ takeStatus = "NONE"
  /\ takeStatus' = "DRAFT"
  /\ line' = [k \in Keys |->
       IF stock[k] = NoRow THEN NoLine
       ELSE [book |-> stock[k].quantity, diff |-> 0, status |-> "PENDING"]]
  /\ UNCHANGED <<invVars, job, announced, starting, applied, requests>>

\* start reads the take and checks its status, and updates it later by id;
\* others may have read it in between.
StartRead ==
  /\ takeStatus = "DRAFT"
  /\ starting' = TRUE
  /\ UNCHANGED <<invVars, job, announced, takeStatus, line, applied, requests>>

StartTake ==
  /\ starting
  /\ takeStatus' = "IN_PROGRESS"
  /\ starting' \in BOOLEAN
  /\ UNCHANGED <<invVars, job, announced, line, applied, requests>>

\* A line may be counted whatever the status of the take or of the line.
CountLine(k, n) ==
  /\ line[k] # NoLine
  /\ line' = [line EXCEPT ![k] =
       [book |-> line[k].book, diff |-> n - line[k].book,
        status |-> "COUNTED"]]
  /\ applied' = [applied EXCEPT ![k] = 0]
  /\ UNCHANGED <<invVars, job, announced, takeStatus, starting, requests>>

\* The lines an approval corrects: counted, with a difference.
ToCorrect ==
  {k \in Keys : /\ line[k] # NoLine
                /\ line[k].status = "COUNTED"
                /\ line[k].diff # 0}

Correction(k) == [kind |-> "count", key |-> k, qty |-> line[k].diff]

\* Every order in which the rows of a set can be visited.
Orders(S) ==
  {o \in [1..Cardinality(S) -> S] : \A i, j \in DOMAIN o : o[i] = o[j] => i = j}

\* approve reads the counted lines before it opens its transaction.
ApproveRead(c) ==
  /\ Arrives(c)
  /\ takeStatus # "NONE"
  /\ \E o \in Orders(ToCorrect) :
       job' = [job EXCEPT ![c] =
         [kind |-> "approve", stage |-> "read",
          plan |-> [i \in DOMAIN o |-> Correction(o[i])]]]
  /\ UNCHANGED <<invVars, announced, takeVars>>

ApproveBegin(c) ==
  /\ job[c].kind = "approve" /\ job[c].stage = "read"
  /\ Begin(c, job[c].plan)
  /\ job' = [job EXCEPT ![c] =
       [kind |-> "approve", stage |-> "write", plan |-> job[c].plan]]
  /\ UNCHANGED <<announced, takeVars, requests>>

InPlan(c, k) == \E i \in DOMAIN job[c].plan : job[c].plan[i].key = k

\* Variant: the lines are not closed
LeftCounted == "COUNTED"

\* The status an approval leaves on the lines it has been through.
AfterApproval == "ADJUSTED"

\* The approval commits: lines and take go with the rows, in one transaction.
CloseTake(c) ==
  /\ takeStatus' = "CLOSED"
  /\ line' = [k \in Keys |->
       IF InPlan(c, k)
       THEN [book |-> line[k].book, diff |-> line[k].diff,
             status |-> AfterApproval]
       ELSE line[k]]
  /\ applied' = [k \in Keys |->
       IF k \in txn[c].counted THEN applied[k] + 1 ELSE applied[k]]
  /\ UNCHANGED starting

-----------------------------------------------------------------------------
Work(c) ==
  /\ Update(c) \/ Insert(c) \/ PassOver(c)
  /\ UNCHANGED <<job, announced, takeVars, requests>>

Finish(c) ==
  /\ Commit(c)
  /\ job' = [job EXCEPT ![c] = AfterCommit(c)]
  /\ IF job[c].kind = "approve" THEN CloseTake(c) ELSE UNCHANGED takeVars
  /\ UNCHANGED <<announced, requests>>

Fail(c) ==
  /\ Reject(c) \/ GiveUp(c)
  /\ job' = [job EXCEPT ![c] = AfterFailure(c)]
  /\ UNCHANGED <<announced, takeVars, requests>>

WhNext ==
  \/ \E c \in Clients :
       \/ Single(c)
       \/ \E n \in Wants : IssueStart(c, n)
       \/ \E k \in Keys : IssueNext(c, k)
       \/ IssueEnd(c)
       \/ ApproveRead(c) \/ ApproveBegin(c)
       \/ Work(c) \/ Finish(c) \/ Fail(c)
  \/ CreateTake \/ StartRead \/ StartTake
  \/ \E k \in Keys, n \in 0..MaxCount : CountLine(k, n)

WhSpec == WhInit /\ [][WhNext]_whVars

-----------------------------------------------------------------------------
WhTypeOK ==
  /\ InvTypeOK
  /\ job \in [Clients -> {NoJob} \cup IssueJob \cup ApproveJob]
  /\ announced \subseteq [want : Nat, out : Nat]
  /\ takeStatus \in {"NONE", "DRAFT", "IN_PROGRESS", "CLOSED"}
  /\ starting \in BOOLEAN
  /\ line \in [Keys -> Line \cup {NoLine}]
  /\ applied \in [Keys -> Nat]
  /\ requests \in 0..MaxRequests

(***************************************************************************)
(* MATERIAL_ISSUED tells the truth: an issue is announced only when the    *)
(* transactions it committed entered in the ledger exactly the quantity    *)
(* announced, although the rows it chose from may have been emptied by     *)
(* other requests between the listing and the deductions.                  *)
(***************************************************************************)
AnnouncedIsIssued == \A a \in announced : a.out = a.want

(***************************************************************************)
(* A difference counted by a stock take is applied at most once, whatever  *)
(* else happens to the rows and however often the take is approved, as     *)
(* long as one request is served at a time.                                *)
(***************************************************************************)
AppliedAtMostOnce == \A k \in Keys : applied[k] <= 1

-----------------------------------------------------------------------------
(* What the documents say, and the code does not keep. *)

(***************************************************************************)
(* EX-CON-003: stock stays consistent when issues of one batch run at the  *)
(* same time.  Here: stock and ledger agree unless a stock take stepped in.*)
(***************************************************************************)
ConcurrencyIsConsistent ==
  \A k \in Keys \ counted : Quantity(stock[k]) = ledger[k]

(***************************************************************************)
(* EX-BIZ-009: when the correction of a row fails, the approval is rolled  *)
(* back.  A line is not marked adjusted when its row was passed over.      *)
(***************************************************************************)
AdjustedIsApplied ==
  \A k \in Keys : line[k] # NoLine =>
     (line[k].status = "ADJUSTED" => applied[k] > 0)
=============================================================================
