----------------------------- MODULE WorkOrders -----------------------------
(***************************************************************************)
(* Work orders of the MES: release, status changes, production reports,    *)
(* split, merge, cascade cancel and the change of a parent                 *)
(* (WorkOrderService, ProductionReportService, CascadeCancelService,       *)
(* WorkOrderTreeService).                                                  *)
(*                                                                         *)
(* Every request reads the order, checks what it has read, and writes      *)
(* later, by primary key and whatever the row holds by then: a step per    *)
(* statement that another request can see or disturb.  Split and merge     *)
(* check before their transaction and only write in it; cascade cancel     *)
(* locks each row and checks it again.  Such a transaction reads nothing   *)
(* that can change before it commits, so it is one step.                   *)
(*                                                                         *)
(* The second save of an order of the APS and the saves of a change of     *)
(* parent write whole rows, as they were read: what others have written in *)
(* between is undone, status and completed quantity included.              *)
(*                                                                         *)
(* All orders are for one material.  contended, reported, overwritten and  *)
(* reverted are history: the orders two requests have worked on at the     *)
(* same time, the quantities reports have brought to an order, and the     *)
(* orders whose completed quantity, or whose status, was written over one  *)
(* not read (the status by a whole row).                                   *)
(***************************************************************************)
EXTENDS Integers, Sequences, FiniteSets, Functions

CONSTANTS Orders,      \* the ids of work orders
          Clients,     \* the requests served at the same time
          NoOrder,     \* no such row, no parent, not the part of a split
          FromAps,     \* whether orders come from the APS
          Quantities,  \* the quantities of released orders
          Reports,     \* the quantities of reports
          MaxLevel,    \* bound: levels a change of parent goes down
          MaxRequests  \* bound: orders released and requests served in all

ASSUME QuantitiesAssumption ==
  Quantities \subseteq Nat \ {0} /\ Reports \subseteq Nat \ {0}
ASSUME FromApsAssumption == FromAps \in BOOLEAN
ASSUME RequestsAssumption == MaxRequests \in Nat
ASSUME LevelsAssumption == MaxLevel \in Nat

VARIABLES order, job, merges, announced, contended, reported, overwritten,
          reverted, requests

vars == <<order, job, merges, announced, contended, reported, overwritten,
          reverted, requests>>

-----------------------------------------------------------------------------
Status == {"RELEASED", "IN_PROGRESS", "COMPLETED", "CLOSED", "CANCELLED"}

\* splitOf is the order the number of this one is made from.
Order == [status    : Status,
          planned   : Nat,
          completed : Nat,
          parent    : Orders \cup {NoOrder},
          splitOf   : Orders \cup {NoOrder}]

ASSUME NoOrderAssumption == NoOrder \notin Orders /\ NoOrder \notin Order

NewOrder(n, parent, splitOf) ==
  [status |-> "RELEASED", planned |-> n, completed |-> 0,
   parent |-> parent, splitOf |-> splitOf]

WithStatus(row, status) == [row EXCEPT !.status = status]

\* WO_TRANSITIONS
Transitions(status) ==
  CASE status = "RELEASED"    -> {"IN_PROGRESS", "CLOSED"}
    [] status = "IN_PROGRESS" -> {"COMPLETED", "CLOSED"}
    [] status = "COMPLETED"   -> {"CLOSED"}
    [] OTHER                  -> {}

NoJob == [op |-> "none", on |-> {}]

\* A row in memory, to be saved; detached: its parent is undefined, and save()
\* leaves that column alone.
Pending == [wo : Orders, row : Order, level : Nat, detached : BOOLEAN]

\* A request between its first read and its end, and the orders it is about.
\* at: the order whose children are looked for next.
Job == [op : {"status"}, on : SUBSET Orders, to : Status \ {"RELEASED", "CANCELLED"}]
       \cup [op    : {"complete"}, on : SUBSET Orders,
             stage : {"write", "check", "close", "announce"},
             seen  : Nat, qty : Nat]
       \cup [op : {"split", "merge", "cancel"}, on : SUBSET Orders]
       \cup [op : {"root", "tree"}, on : SUBSET Orders, rows : SUBSET Pending,
             at : Orders \cup {NoOrder}, level : Nat]

\* The request that has these rows to save
Saving(op, rows, at, level) ==
  [op |-> op, on |-> {r.wo : r \in rows}, rows |-> rows, at |-> at, level |-> level]

AsRead(w, row, level) ==
  [wo |-> w, row |-> row, level |-> level, detached |-> FALSE]

Exists(w) == order[w] # NoOrder
Has(w, status) == Exists(w) /\ order[w].status = status
Unused == {w \in Orders : ~Exists(w)}

Init ==
  /\ order = [w \in Orders |-> NoOrder]
  /\ job = [c \in Clients |-> NoJob]
  /\ merges = {}
  /\ announced = [w \in Orders |-> <<>>]
  /\ contended = {} /\ overwritten = {} /\ reverted = {}
  /\ reported = [w \in Orders |-> 0]
  /\ requests = 0

Arrives ==
  /\ requests < MaxRequests
  /\ requests' = requests + 1

\* Another request than that of client c is working on order w.
TakenBy(c) ==
  {w \in Orders : \E d \in Clients \ {c} : w \in job[d].on}

\* A request of client c reads the orders it is about.
Take(c, request) ==
  /\ job[c] = NoJob
  /\ Arrives
  /\ job' = [job EXCEPT ![c] = request]
  /\ contended' = contended \cup (request.on \cap TakenBy(c))
  /\ UNCHANGED <<order, merges, announced, reported, overwritten, reverted>>

Done(c) == job' = [job EXCEPT ![c] = NoJob]

-----------------------------------------------------------------------------
\* An order is made by hand, or comes from the APS below a root that is found.
Release(w, n, parent) ==
  /\ Arrives
  /\ ~Exists(w)
  /\ parent = NoOrder \/ (parent \in Orders /\ Exists(parent))
  /\ order' = [order EXCEPT ![w] = NewOrder(n, parent, NoOrder)]
  /\ UNCHANGED <<job, merges, announced, contended, reported, overwritten,
                 reverted>>

\* An order of the APS whose root is not found, its parent found or not, is
\* to be saved a second time, as its own root.
ReleaseRoot(c, w, n, parent) ==
  /\ FromAps
  /\ job[c] = NoJob
  /\ Arrives
  /\ ~Exists(w)
  /\ parent = NoOrder \/ (parent \in Orders /\ Exists(parent))
  /\ LET row == NewOrder(n, parent, NoOrder)
     IN /\ order' = [order EXCEPT ![w] = row]
        /\ job' = [job EXCEPT ![c] = Saving("root", {AsRead(w, row, 0)}, NoOrder, 0)]
  /\ UNCHANGED <<merges, announced, contended, reported, overwritten, reverted>>

\* What save() leaves of the row it finds
Saved(r, found) ==
  IF r.detached THEN [r.row EXCEPT !.parent = found.parent] ELSE r.row

\* save() writes every column that differs from the row in memory.
SaveRow(r) ==
  LET w == r.wo  row == Saved(r, order[w])
  IN /\ order' = [order EXCEPT ![w] = row]
     /\ overwritten' = overwritten \cup
          (IF order[w].completed = row.completed THEN {} ELSE {w})
     /\ reverted' = reverted \cup
          (IF order[w].status = row.status THEN {} ELSE {w})

RootWrite(c) ==
  /\ job[c].op = "root"
  /\ \E r \in job[c].rows : SaveRow(r)
  /\ Done(c)
  /\ UNCHANGED <<merges, announced, contended, reported, requests>>

\* A report START; on an order in progress it leaves the order alone.
StartRead(c, w) ==
  /\ Has(w, "RELEASED")
  /\ Take(c, [op |-> "status", on |-> {w}, to |-> "IN_PROGRESS"])

TransitionRead(c, w, to) ==
  /\ Exists(w)
  /\ to \in Transitions(order[w].status)
  /\ Take(c, [op |-> "status", on |-> {w}, to |-> to])

\* UPDATE ... SET status WHERE id
StatusWrite(c, w) ==
  /\ job[c].op = "status" /\ job[c].on = {w}
  /\ order' = [order EXCEPT ![w] = WithStatus(order[w], job[c].to)]
  /\ Done(c)
  /\ UNCHANGED <<merges, announced, contended, reported, overwritten, reverted,
                 requests>>

-----------------------------------------------------------------------------
(* Report COMPLETE *)

\* Variant: a finished order still takes reports
ReportableWhenDone(w) == Has(w, "IN_PROGRESS") \/ Has(w, "COMPLETED")

Reportable(w) == Has(w, "IN_PROGRESS")

CompleteRead(c, w, n) ==
  /\ Reportable(w)
  /\ Take(c, [op |-> "complete", on |-> {w}, stage |-> "write",
              seen |-> order[w].completed, qty |-> n])

Completing(c, w, stage) ==
  job[c].op = "complete" /\ job[c].on = {w} /\ job[c].stage = stage

\* Variant: the report is taken off
NewCompletedOff(j) == j.seen - j.qty

\* Variant: the quantity is counted twice
NewCompletedTwice(j) == j.seen + j.qty + j.qty

NewCompleted(j) == j.seen + j.qty

CompleteWrite(c, w) ==
  /\ Completing(c, w, "write")
  /\ order' = [order EXCEPT ![w] =
       [order[w] EXCEPT !.completed = NewCompleted(job[c])]]
  /\ reported' = [reported EXCEPT ![w] = reported[w] + job[c].qty]
  /\ overwritten' = IF order[w].completed = job[c].seen THEN overwritten
                    ELSE overwritten \cup {w}
  /\ job' = [job EXCEPT ![c] =
       [op |-> "complete", on |-> {w}, stage |-> "check",
        seen |-> job[c].seen, qty |-> job[c].qty]]
  /\ UNCHANGED <<merges, announced, contended, reverted, requests>>

\* Variant: any report finishes the order
ReachedAtOnce(row) == TRUE

Reached(row) == row.completed >= row.planned

\* The order is read again; the request goes on if all of it is completed.
CompleteCheck(c, w) ==
  /\ Completing(c, w, "check")
  /\ job' = [job EXCEPT ![c] =
       IF Reached(order[w])
       THEN [op |-> "complete", on |-> {w}, stage |-> "close",
             seen |-> order[w].completed, qty |-> job[c].qty]
       ELSE NoJob]
  /\ UNCHANGED <<order, merges, announced, contended, reported, overwritten,
                 reverted, requests>>

CompleteClose(c, w) ==
  /\ Completing(c, w, "close")
  /\ order' = [order EXCEPT ![w] = WithStatus(order[w], "COMPLETED")]
  /\ job' = [job EXCEPT ![c] =
       [op |-> "complete", on |-> {w}, stage |-> "announce",
        seen |-> job[c].seen, qty |-> job[c].qty]]
  /\ UNCHANGED <<merges, announced, contended, reported, overwritten, reverted,
                 requests>>

\* PRODUCTION_COMPLETED, with the quantity of the second read
CompleteAnnounce(c, w) ==
  /\ Completing(c, w, "announce")
  /\ announced' = [announced EXCEPT ![w] = Append(announced[w], job[c].seen)]
  /\ Done(c)
  /\ UNCHANGED <<order, merges, contended, reported, overwritten, reverted,
                 requests>>

-----------------------------------------------------------------------------
(* Split and merge *)

SplitRead(c, w) ==
  /\ Has(w, "RELEASED")
  /\ Take(c, [op |-> "split", on |-> {w}])

\* Variant: numbers are not unique
NumberNeverTaken(w) == FALSE

\* uk_mes_wo: the numbers of the parts, made from that of w, are in use.
NumberTaken(w) == \E x \in Orders : Exists(x) /\ order[x].splitOf = w

\* The parts are created, w is closed.
SplitCommit(c, w) ==
  /\ job[c].op = "split" /\ job[c].on = {w}
  /\ ~NumberTaken(w)
  /\ \E S \in SUBSET Unused : \E part \in [S -> 1..order[w].planned] :
       /\ SumFunction(part) = order[w].planned
       /\ order' = [x \in Orders |->
            CASE x \in S -> NewOrder(part[x], w, w)
              [] x = w   -> WithStatus(order[w], "CLOSED")
              [] OTHER   -> order[x]]
  /\ Done(c)
  /\ UNCHANGED <<merges, announced, contended, reported, overwritten, reverted,
                 requests>>

MergeRead(c, sources) ==
  /\ Cardinality(sources) >= 2
  /\ \A w \in sources : Has(w, "RELEASED")
  /\ Take(c, [op |-> "merge", on |-> sources])

\* A row after UPDATE ... SET status = 'CLOSED' WHERE id IN sources
SourceClosed(x, sources) ==
  IF x \in sources THEN WithStatus(order[x], "CLOSED") ELSE order[x]

\* The target is created, the sources are closed.  (That the total is a
\* natural number is said because the provers cannot unfold the sum.)
MergeCommit(c) ==
  /\ job[c].op = "merge"
  /\ LET sources == job[c].on
         total == SumFunction([w \in sources |-> order[w].planned])
     IN \E t \in Unused, planned \in {total} \cap Nat :
          /\ order' = [x \in Orders |->
               IF x = t THEN NewOrder(planned, NoOrder, NoOrder)
                        ELSE SourceClosed(x, sources)]
          /\ merges' = merges \cup {[target |-> t, sources |-> sources]}
  /\ Done(c)
  /\ UNCHANGED <<announced, contended, reported, overwritten, reverted, requests>>

-----------------------------------------------------------------------------
(* Cascade cancel *)

\* The orders below w, from its children down.
Descendants(w) ==
  LET below[n \in Nat] ==
        IF n = 0 THEN {w}
        ELSE LET above == below[n - 1]
             IN above \cup {x \in Orders : Exists(x) /\ order[x].parent \in above}
      all == below[Cardinality(Orders)]
  IN {x \in Orders : Exists(x) /\ order[x].parent \in Orders
                     /\ order[x].parent \in all}

\* Orders below themselves, as two changes of parent can make them
Cyclic == {x \in Orders : x \in Descendants(x)}

\* The preview; without an order to cancel the request ends at once, and on a
\* cycle its query fails.
CancelRead(c, w) ==
  LET toCancel ==
        {x \in Orders : x \in Descendants(w) /\ Has(x, "RELEASED")}
  IN /\ Exists(w)
     /\ Descendants(w) \cap Cyclic = {}
     /\ toCancel # {}
     /\ Take(c, [op |-> "cancel", on |-> toCancel])

\* Variant: the locked row is not checked again
CancellableAsPreviewed(w) == TRUE

Cancellable(w) == Has(w, "RELEASED")

\* The rows are locked, checked and written.
CancelCommit(c) ==
  /\ job[c].op = "cancel"
  /\ \A w \in job[c].on : Cancellable(w)
  /\ order' = [x \in Orders |->
       IF x \in job[c].on THEN WithStatus(order[x], "CANCELLED")
                           ELSE order[x]]
  /\ Done(c)
  /\ UNCHANGED <<merges, announced, contended, reported, overwritten, reverted,
                 requests>>

-----------------------------------------------------------------------------
(* Change of a parent *)

\* The order is read and the new parent found not to be below it (the walk
\* up from the parent is in WorkOrderTree).  Without a new parent the column
\* becomes undefined.
MoveRead(c, w, p) ==
  /\ Exists(w)
  /\ p \in Orders =>
       /\ Exists(p) /\ p # w /\ p \notin Descendants(w)
       /\ \A x \in Cyclic : p # x /\ p \notin Descendants(x)
  /\ LET r == IF p = NoOrder
              THEN [AsRead(w, order[w], 0) EXCEPT !.detached = TRUE]
              ELSE AsRead(w, [order[w] EXCEPT !.parent = p], 0)
     IN Take(c, Saving("tree", {r}, NoOrder, 0))

\* The rows are saved depth first.
TreeSave(c) ==
  /\ job[c].op = "tree" /\ job[c].at = NoOrder
  /\ \E r \in job[c].rows :
       /\ \A other \in job[c].rows : other.level <= r.level
       /\ SaveRow(r)
       /\ job' = [job EXCEPT ![c] =
            Saving("tree", job[c].rows \ {r}, r.wo, r.level)]
  /\ UNCHANGED <<merges, announced, contended, reported, requests>>

\* The children of the order just saved are read, rows and all.
TreeFind(c) ==
  /\ job[c].op = "tree" /\ job[c].at # NoOrder
  /\ job[c].level < MaxLevel
  /\ LET children == {x \in Orders : Exists(x) /\ order[x].parent = job[c].at}
         rows == job[c].rows \cup
                   {AsRead(x, order[x], job[c].level + 1) : x \in children}
     IN /\ job' = [job EXCEPT ![c] =
             IF rows = {} THEN NoJob ELSE Saving("tree", rows, NoOrder, 0)]
        /\ contended' = contended \cup (children \cap TakenBy(c))
  /\ UNCHANGED <<order, merges, announced, reported, overwritten, reverted,
                 requests>>

-----------------------------------------------------------------------------
\* A request fails (a number is taken, a locked row is no longer released)
\* or dies with the process: what it has written outside a transaction stays.
Abort(c) ==
  /\ job[c] # NoJob
  /\ Done(c)
  /\ UNCHANGED <<order, merges, announced, contended, reported, overwritten,
                 reverted, requests>>

-----------------------------------------------------------------------------
Next ==
  \/ \E w \in Orders, n \in Quantities, p \in Orders \cup {NoOrder} :
       Release(w, n, p)
  \/ \E c \in Clients :
       \/ \E w \in Orders :
            \/ \E n \in Quantities, p \in Orders \cup {NoOrder} :
                 ReleaseRoot(c, w, n, p)
            \/ StartRead(c, w)
            \/ \E to \in Status : TransitionRead(c, w, to)
            \/ StatusWrite(c, w)
            \/ \E n \in Reports : CompleteRead(c, w, n)
            \/ CompleteWrite(c, w) \/ CompleteCheck(c, w)
            \/ CompleteClose(c, w) \/ CompleteAnnounce(c, w)
            \/ SplitRead(c, w) \/ SplitCommit(c, w)
            \/ CancelRead(c, w)
            \/ \E p \in Orders \cup {NoOrder} : MoveRead(c, w, p)
       \/ RootWrite(c) \/ TreeSave(c) \/ TreeFind(c)
       \/ \E S \in SUBSET Orders : MergeRead(c, S)
       \/ MergeCommit(c) \/ CancelCommit(c) \/ Abort(c)

Spec == Init /\ [][Next]_vars

-----------------------------------------------------------------------------
TypeOK ==
  /\ order \in [Orders -> Order \cup {NoOrder}]
  /\ job \in [Clients -> Job \cup {NoJob}]
  /\ merges \subseteq [target : Orders, sources : SUBSET Orders]
  /\ announced \in [Orders -> Seq(Nat)]
  /\ contended \subseteq Orders /\ overwritten \subseteq Orders
  /\ reverted \subseteq Orders
  /\ reported \in [Orders -> Nat]
  /\ requests \in 0..MaxRequests

(***************************************************************************)
(* No order is cancelled once work has been reported on it, however the    *)
(* cancellation races with reports and status changes: the locked row is   *)
(* checked again.  Only an order to which a whole row saved late (by the   *)
(* APS, or by a change of parent) has given back a status it had left may  *)
(* be RELEASED, and cancelled, with work on it.                            *)
(***************************************************************************)
CancelledHasNoWork ==
  \A w \in Orders \ reverted : Has(w, "CANCELLED") => reported[w] = 0

(***************************************************************************)
(* The completed quantity of an order never exceeds what was reported on   *)
(* it, and is equal to it unless it was written over unread.               *)
(***************************************************************************)
CompletedIsReported ==
  \A w \in Orders : Exists(w) =>
     /\ order[w].completed <= reported[w]
     /\ w \notin overwritten => order[w].completed = reported[w]

(***************************************************************************)
(* PRODUCTION_COMPLETED, which makes the warehouse receive the quantity it *)
(* names, is published for the planned quantity or more, and never for     *)
(* more than was reported.                                                 *)
(***************************************************************************)
AnnouncedWasMade ==
  \A w \in Orders : \A i \in DOMAIN announced[w] :
     order[w].planned <= announced[w][i] /\ announced[w][i] <= reported[w]

(***************************************************************************)
(* An order is split at most once, and its parts make up its quantity, for *)
(* any number of splits at the same time (EX-CON-004): the numbers of the  *)
(* parts collide, and the unique key rolls the second split back.  And the *)
(* quantity of an order goes one way only: it is produced and announced,   *)
(* or split up, or merged into another order, and that once, if no two     *)
(* requests work on the order at the same time.                            *)
(***************************************************************************)
OneFate ==
  LET PartsOf(w) == {x \in Orders : Exists(x) /\ order[x].splitOf = w}
  IN /\ \A w \in Orders : PartsOf(w) # {} =>
          SumFunction([x \in PartsOf(w) |-> order[x].planned]) = order[w].planned
     /\ \A w \in Orders \ contended :
          Len(announced[w]) + Cardinality({m \in merges : w \in m.sources})
            + (IF PartsOf(w) # {} THEN 1 ELSE 0) <= 1

-----------------------------------------------------------------------------
(* What the documents say, and the code does not keep. *)

(***************************************************************************)
(* SM-MES-WO006: a closed order does not change its status again.          *)
(***************************************************************************)
ClosedStaysClosed ==
  [][\A w \in Orders : Has(w, "CLOSED") => Has(w, "CLOSED")']_vars
=============================================================================
