-------------------------- MODULE WorkOrdersProofs --------------------------
(***************************************************************************)
(* Proofs about WorkOrders: for any number of orders and of requests at    *)
(* the same time, completed quantities come from reports, no order is      *)
(* cancelled after work was reported on it, and PRODUCTION_COMPLETED never *)
(* names more than was made.                                               *)
(*                                                                         *)
(* The inductive invariant says what a request still in flight knows: its  *)
(* orders exist, what it has read was reported, the rows it is to save     *)
(* have the quantity and the origin of their orders, and no report is in   *)
(* flight on an order that is RELEASED or CANCELLED, unless a whole row    *)
(* saved late has given it back a status it had left.                      *)
(*                                                                         *)
(* The last part proves where the quantity of an order ends up (OneFate):  *)
(* FateInv keeps the sums over the parts of split orders and the merges    *)
(* made of an order, with what the requests in flight still hold of them.  *)
(***************************************************************************)
EXTENDS WorkOrders, FiniteSetTheorems, TLAPS

USE QuantitiesAssumption, FromApsAssumption, RequestsAssumption,
    LevelsAssumption, NoOrderAssumption

-----------------------------------------------------------------------------
\* The orders of a request in flight exist.
OnExisting == \A c \in Clients : \A w \in job[c].on : Exists(w)

Reporting(c, w) == job[c].op = "complete" /\ w \in job[c].on

\* Nothing has been reported, and no report is on its way.
Untouched(w) ==
  reported[w] = 0 /\ \A c \in Clients : ~Reporting(c, w)

\* Not there yet, or not started, or cancelled
Fresh(w) ==
  \/ ~Exists(w)
  \/ w \notin reverted /\ (Has(w, "RELEASED") \/ Has(w, "CANCELLED"))

FreshUntouched == \A w \in Orders : Fresh(w) => Untouched(w)

\* The rows a request is to save
Saves(c) == job[c].op \in {"root", "tree"}

\* Of row r, what its order never changes, and what was reported
RowOfOrder(r) ==
  /\ r.row.planned = order[r.wo].planned
  /\ r.row.splitOf = order[r.wo].splitOf
  /\ r.row.completed <= reported[r.wo]

RowsHold(j) ==
  /\ j.on = {r.wo : r \in j.rows}
  /\ \A r \in j.rows : RowOfOrder(r)

RowsAreOfOrders == \A c \in Clients : Saves(c) => RowsHold(job[c])

UnusedSilent == \A w \in Orders : ~Exists(w) => announced[w] = <<>>

\* What a report has read was reported, and is enough where it closes.
SeenWasReported ==
  \A c \in Clients, w \in Orders : Reporting(c, w) =>
     /\ job[c].seen <= reported[w]
     /\ job[c].stage \in {"close", "announce"} =>
          order[w].planned <= job[c].seen

IInv ==
  /\ TypeOK
  /\ OnExisting
  /\ FreshUntouched
  /\ RowsAreOfOrders
  /\ UnusedSilent
  /\ SeenWasReported
  /\ CompletedIsReported
  /\ AnnouncedWasMade

-----------------------------------------------------------------------------
(* Rows *)

\* A new row is a row, released, with nothing completed.
LEMMA NewRow ==
  ASSUME NEW n \in Nat, NEW p \in Orders \cup {NoOrder},
         NEW s \in Orders \cup {NoOrder}
  PROVE  /\ NewOrder(n, p, s) \in Order
         /\ NewOrder(n, p, s) # NoOrder
         /\ NewOrder(n, p, s).status = "RELEASED"
         /\ NewOrder(n, p, s).parent = p
         /\ NewOrder(n, p, s).completed = 0
         /\ NewOrder(n, p, s).planned = n /\ NewOrder(n, p, s).splitOf = s
BY DEF NewOrder, Order, Status

\* A change of status leaves the quantities.
LEMMA StatusRow ==
  ASSUME NEW row \in Order, NEW s \in Status
  PROVE  /\ WithStatus(row, s) \in Order
         /\ WithStatus(row, s) # NoOrder
         /\ WithStatus(row, s).status = s
         /\ WithStatus(row, s).splitOf = row.splitOf
         /\ WithStatus(row, s).planned = row.planned
         /\ WithStatus(row, s).completed = row.completed
BY DEF WithStatus, Order, Status

\* A new completed quantity leaves the rest.
LEMMA CompletedRow ==
  ASSUME NEW row \in Order, NEW n \in Nat
  PROVE  /\ [row EXCEPT !.completed = n] \in Order
         /\ [row EXCEPT !.completed = n] # NoOrder
         /\ [row EXCEPT !.completed = n].status = row.status
         /\ [row EXCEPT !.completed = n].splitOf = row.splitOf
         /\ [row EXCEPT !.completed = n].planned = row.planned
         /\ [row EXCEPT !.completed = n].completed = n
BY DEF Order, Status

\* The row of an order that exists
LEMMA RowOfExisting ==
  ASSUME TypeOK, NEW w \in Orders, Exists(w)
  PROVE  order[w] \in Order
BY DEF TypeOK, Exists

\* What the job of a report in flight looks like
LEMMA ReportingJob ==
  ASSUME TypeOK, NEW c \in Clients, NEW w \in Orders, Reporting(c, w)
  PROVE  /\ job[c] \in [op    : {"complete"}, on : SUBSET Orders,
                         stage : {"write", "check", "close", "announce"},
                         seen  : Nat, qty : Nat]
         /\ job[c].seen \in Nat /\ job[c].qty \in Nat
<1>1. job[c] \in Job \cup {NoJob}
  BY DEF TypeOK
<1>2. job[c].op = "complete"
  BY DEF Reporting
<1>3. job[c] # NoJob
  BY <1>2 DEF NoJob
<1>4. job[c] \in [op    : {"complete"}, on : SUBSET Orders,
                  stage : {"write", "check", "close", "announce"},
                  seen  : Nat, qty : Nat]
  BY <1>1, <1>2, <1>3 DEF Job
<1> QED
  BY <1>4

\* Requests are about orders.
LEMMA OnOrders ==
  ASSUME TypeOK, NEW c \in Clients
  PROVE  job[c].on \subseteq Orders
<1>1. job[c] \in Job \cup {NoJob}
  BY DEF TypeOK
<1> QED
  BY <1>1 DEF Job, NoJob

\* A row to be saved is one of an order.
LEMMA PendingRow ==
  ASSUME TypeOK, NEW c \in Clients, Saves(c), NEW r \in job[c].rows
  PROVE  /\ r \in Pending /\ r.wo \in Orders /\ r.row \in Order
         /\ r.row.completed \in Nat
         /\ job[c].rows \subseteq Pending
<1>1. job[c] \in Job \cup {NoJob} /\ job[c].op \in {"root", "tree"}
  BY DEF TypeOK, Saves
<1>2. job[c] # NoJob
  BY <1>1 DEF NoJob
<1>3. job[c].rows \subseteq Pending
  BY <1>1, <1>2 DEF Job
<1>4. r \in Pending
  BY <1>3
<1>5. r.wo \in Orders /\ r.row \in Order
  BY <1>4 DEF Pending
<1>6. r.row.completed \in Nat
  BY <1>5 DEF Order
<1> QED
  BY <1>3, <1>4, <1>5, <1>6

\* What a request that has rows to save looks like
LEMMA SavingJob ==
  ASSUME NEW op \in {"root", "tree"}, NEW rows \in SUBSET Pending,
         NEW at \in Orders \cup {NoOrder}, NEW level \in Nat
  PROVE  /\ Saving(op, rows, at, level) \in Job
         /\ Saving(op, rows, at, level).op = op
         /\ Saving(op, rows, at, level).on = {r.wo : r \in rows}
         /\ Saving(op, rows, at, level).rows = rows
<1>1. {r.wo : r \in rows} \subseteq Orders
  BY DEF Pending
<1> QED
  BY <1>1 DEF Saving, Job

\* A row as it was read from an order
LEMMA AsReadRow ==
  ASSUME NEW w \in Orders, NEW row \in Order, NEW level \in Nat
  PROVE  /\ AsRead(w, row, level) \in Pending
         /\ AsRead(w, row, level).wo = w /\ AsRead(w, row, level).row = row
BY DEF AsRead, Pending

\* The status of an existing row, and that NoOrder is none of them.
LEMMA HasStatus ==
  ASSUME TypeOK, NEW w \in Orders
  PROVE  /\ Has(w, "RELEASED") => Exists(w) /\ order[w].status = "RELEASED"
         /\ Exists(w) => order[w].completed \in Nat /\ order[w].planned \in Nat
BY RowOfExisting DEF Has, Order

LEMMA InitIInv == Init => IInv
<1> SUFFICES ASSUME Init PROVE IInv
  OBVIOUS
<1>1. TypeOK
  BY DEF Init, TypeOK
<1>2. /\ OnExisting /\ FreshUntouched /\ RowsAreOfOrders /\ UnusedSilent
      /\ SeenWasReported
  BY DEF Init, OnExisting, FreshUntouched, Untouched, RowsAreOfOrders, Saves,
         UnusedSilent, SeenWasReported, Reporting, NoJob, Exists, Has
<1>3. CompletedIsReported /\ AnnouncedWasMade
  BY DEF Init, CompletedIsReported, AnnouncedWasMade, Exists
<1> QED BY <1>1, <1>2, <1>3 DEF IInv

-----------------------------------------------------------------------------
(***************************************************************************)
(* Steps.  Most actions change rows in the ways RowStep lists and jobs in  *)
(* the ways JobStep lists, and nothing else the invariant speaks of.       *)
(***************************************************************************)
\* Unchanged, a new status (cancelled from released only), or a new row.
RowStep(w) ==
  \/ order'[w] = order[w]
  \/ /\ Exists(w)
     /\ \E s \in Status \ {"RELEASED"} :
          /\ s = "CANCELLED" => Has(w, "RELEASED")
          /\ order'[w] = WithStatus(order[w], s)
  \/ /\ ~Exists(w)
     /\ \E n \in Nat, p, s \in Orders \cup {NoOrder} :
          order'[w] = NewOrder(n, p, s)

\* The request of c ends, or keeps its orders and what it has read.
JobStep(c) ==
  \/ job'[c] = NoJob
  \/ job'[c] = job[c]
  \/ /\ job[c].op = "complete" /\ job'[c].op = "complete"
     /\ job'[c].on = job[c].on
     /\ job'[c].seen = job[c].seen
     /\ job[c].stage = "close"

LEMMA RowStepKeeps ==
  ASSUME TypeOK, NEW w \in Orders, RowStep(w)
  PROVE  /\ order'[w] \in Order \cup {NoOrder}
         /\ Exists(w) => /\ Exists(w)'
                         /\ order'[w].splitOf = order[w].splitOf
                         /\ order'[w].planned = order[w].planned
                         /\ order'[w].completed = order[w].completed
         /\ ~Exists(w) /\ Exists(w)' => order'[w].completed = 0
         /\ reverted' = reverted => (Fresh(w)' => Fresh(w))
<1>1. CASE order'[w] = order[w]
  BY <1>1 DEF TypeOK, Exists, Fresh, Has
<1>2. CASE /\ Exists(w)
           /\ \E s \in Status \ {"RELEASED"} :
                /\ s = "CANCELLED" => Has(w, "RELEASED")
                /\ order'[w] = WithStatus(order[w], s)
  <2>1. PICK s \in Status \ {"RELEASED"} :
          /\ s = "CANCELLED" => Has(w, "RELEASED")
          /\ order'[w] = WithStatus(order[w], s)
    BY <1>2
  <2>2. order[w] \in Order
    BY <1>2, RowOfExisting
  <2>3. /\ order'[w] \in Order /\ order'[w] # NoOrder
        /\ order'[w].status = s
        /\ order'[w].splitOf = order[w].splitOf
        /\ order'[w].planned = order[w].planned
        /\ order'[w].completed = order[w].completed
    BY <2>1, <2>2, StatusRow
  <2>4. Fresh(w)' => s = "CANCELLED"
    BY <2>1, <2>3 DEF Fresh, Has, Exists
  <2> QED
    BY <1>2, <2>1, <2>3, <2>4 DEF Fresh, Exists
<1>3. CASE /\ ~Exists(w)
           /\ \E n \in Nat, p, s \in Orders \cup {NoOrder} :
                order'[w] = NewOrder(n, p, s)
  <2>1. PICK n \in Nat, p \in Orders \cup {NoOrder},
             s \in Orders \cup {NoOrder} : order'[w] = NewOrder(n, p, s)
    BY <1>3
  <2>2. /\ order'[w] \in Order /\ order'[w].completed = 0
        /\ order'[w].status = "RELEASED"
    BY <2>1, NewRow
  <2> QED
    BY <1>3, <2>2 DEF Fresh, Has
<1> QED
  BY <1>1, <1>2, <1>3 DEF RowStep

\* Rows read before stay rows of their orders.
LEMMA RowsKept ==
  ASSUME TypeOK, OnExisting, RowsAreOfOrders,
         \A d \in Clients : Saves(d)' =>
           job'[d] = job[d] \/ RowsHold(job[d])',
         \A w \in Orders : Exists(w) =>
           /\ order'[w].planned = order[w].planned
           /\ order'[w].splitOf = order[w].splitOf
           /\ reported[w] \in Nat /\ reported'[w] \in Nat
           /\ reported[w] <= reported'[w]
  PROVE  RowsAreOfOrders'
<1> SUFFICES ASSUME NEW d \in Clients, Saves(d)', job'[d] = job[d]
             PROVE  RowsHold(job[d])'
  BY DEF RowsAreOfOrders, Saves
<1>1. Saves(d) /\ RowsHold(job[d])
  BY DEF Saves, RowsAreOfOrders
<1>2. ASSUME NEW r \in job[d].rows PROVE RowOfOrder(r)'
  <2>1. RowOfOrder(r) /\ r.wo \in job[d].on
    BY <1>1, <1>2 DEF RowsHold
  <2>2. r.wo \in Orders /\ Exists(r.wo) /\ r.row.completed \in Nat
    BY <1>1, <1>2, <2>1, PendingRow DEF OnExisting
  <2> QED
    BY <2>1, <2>2 DEF RowOfOrder
<1> QED
  BY <1>1, <1>2 DEF RowsHold

\* Such steps keep the parts of the invariant.
LEMMA StepKeeps ==
  ASSUME IInv, TypeOK',
         \A w \in Orders : RowStep(w),
         \A c \in Clients : JobStep(c),
         UNCHANGED <<announced, reported, overwritten, reverted>>
  PROVE  IInv'
<1>0. /\ TypeOK /\ OnExisting /\ FreshUntouched /\ RowsAreOfOrders
      /\ UnusedSilent /\ SeenWasReported /\ CompletedIsReported
      /\ AnnouncedWasMade
  BY DEF IInv
<1>1. \A w \in Orders :
        /\ Exists(w) => /\ Exists(w)'
                        /\ order'[w].splitOf = order[w].splitOf
                        /\ order'[w].planned = order[w].planned
                        /\ order'[w].completed = order[w].completed
        /\ ~Exists(w) /\ Exists(w)' => order'[w].completed = 0
        /\ Fresh(w)' => Fresh(w)
  BY <1>0, RowStepKeeps
<1>2. \A c \in Clients : job[c].on \subseteq Orders
  BY <1>0, OnOrders
<1>3. ASSUME NEW c \in Clients, NEW w \in Orders, Reporting(c, w)'
      PROVE  /\ Reporting(c, w)
             /\ job'[c].seen = job[c].seen
             /\ job'[c].stage \in {"close", "announce"} =>
                  job[c].stage \in {"close", "announce"}
  BY <1>3 DEF JobStep, Reporting, NoJob
<1>4. OnExisting'
  <2> SUFFICES ASSUME NEW c \in Clients, NEW w \in job'[c].on
               PROVE  Exists(w)'
    BY DEF OnExisting
  <2>1. w \in job[c].on
    BY DEF JobStep, NoJob
  <2> QED
    BY <1>0, <1>1, <1>2, <2>1 DEF OnExisting
<1>5. FreshUntouched'
  <2> SUFFICES ASSUME NEW w \in Orders, Fresh(w)'
               PROVE  Untouched(w)'
    BY DEF FreshUntouched, Fresh
  <2>1. Untouched(w)
    BY <1>0, <1>1 DEF FreshUntouched, Fresh
  <2> QED
    BY <1>3, <2>1 DEF Untouched
<1>6. UnusedSilent'
  BY <1>0, <1>1 DEF UnusedSilent
<1>7. SeenWasReported'
  <2> SUFFICES ASSUME NEW c \in Clients, NEW w \in Orders, Reporting(c, w)'
               PROVE  /\ job'[c].seen <= reported'[w]
                      /\ job'[c].stage \in {"close", "announce"} =>
                           order'[w].planned <= job'[c].seen
    BY DEF SeenWasReported
  <2>1. Exists(w)
    BY <1>0, <1>3 DEF OnExisting, Reporting
  <2> QED
    BY <1>0, <1>1, <1>3, <2>1 DEF SeenWasReported
<1>8. CompletedIsReported'
  <2> SUFFICES ASSUME NEW w \in Orders, Exists(w)'
               PROVE  /\ order'[w].completed <= reported'[w]
                      /\ w \notin overwritten' =>
                           order'[w].completed = reported'[w]
    BY DEF CompletedIsReported
  <2>1. CASE Exists(w)
    BY <1>0, <1>1, <2>1 DEF CompletedIsReported
  <2>2. CASE ~Exists(w)
    BY <1>0, <1>1, <2>2 DEF FreshUntouched, Fresh, Untouched
  <2> QED
    BY <2>1, <2>2
<1>9. AnnouncedWasMade'
  <2> SUFFICES ASSUME NEW w \in Orders, NEW i \in DOMAIN announced[w]
               PROVE  /\ order'[w].planned <= announced[w][i]
                      /\ announced[w][i] <= reported[w]
    BY DEF AnnouncedWasMade
  <2>1. Exists(w)
    BY <1>0 DEF UnusedSilent
  <2> QED
    BY <1>0, <1>1, <2>1 DEF AnnouncedWasMade
<1>10. RowsAreOfOrders'
  <2>1. \A c \in Clients : Saves(c)' => job'[c] = job[c]
    BY DEF JobStep, Saves, NoJob
  <2>2. \A w \in Orders : reported[w] \in Nat /\ reported'[w] = reported[w]
    BY <1>0 DEF TypeOK
  <2> QED
    BY <1>0, <1>1, <2>1, <2>2, RowsKept
<1> QED
  BY <1>4, <1>5, <1>6, <1>7, <1>8, <1>9, <1>10 DEF IInv

-----------------------------------------------------------------------------
(* A request that begins *)

\* What a request of its kind may have read
Begins(request) ==
  /\ request \in Job
  /\ \A w \in request.on : Exists(w)
  /\ request.op \in {"root", "tree"} => RowsHold(request)
  /\ request.op = "complete" =>
       /\ request.stage = "write"
       /\ \A w \in request.on :
            Has(w, "IN_PROGRESS") /\ request.seen = order[w].completed

LEMMA TakeKeeps ==
  ASSUME IInv, NEW c \in Clients, NEW request, Begins(request),
         Take(c, request)
  PROVE  IInv'
<1>0. /\ TypeOK /\ OnExisting /\ FreshUntouched /\ RowsAreOfOrders
      /\ UnusedSilent /\ SeenWasReported /\ CompletedIsReported
      /\ AnnouncedWasMade
  BY DEF IInv
<1>1. /\ order' = order /\ announced' = announced /\ merges' = merges
      /\ reported' = reported /\ overwritten' = overwritten
      /\ reverted' = reverted
      /\ job' = [job EXCEPT ![c] = request]
      /\ request \in Job
  BY DEF Take, Begins
<1>2. /\ job' \in [Clients -> Job \cup {NoJob}]
      /\ job'[c] = request
      /\ \A d \in Clients \ {c} : job'[d] = job[d]
  BY <1>0, <1>1 DEF TypeOK
<1>3. contended' \subseteq Orders
  <2>1. request.on \subseteq Orders
    BY <1>1 DEF Job
  <2> QED
    BY <1>0, <2>1 DEF Take, TypeOK
<1>4. requests' \in 0..MaxRequests
  BY <1>0 DEF Take, Arrives, TypeOK
<1>5. TypeOK'
  BY <1>0, <1>1, <1>2, <1>3, <1>4 DEF TypeOK
<1>6. OnExisting'
  BY <1>0, <1>1, <1>2 DEF OnExisting, Begins, Exists
<1>7. \A w \in Orders : Reporting(c, w)' => Has(w, "IN_PROGRESS")
  BY <1>2 DEF Reporting, Begins
<1>8. FreshUntouched'
  <2> SUFFICES ASSUME NEW w \in Orders, Fresh(w)
               PROVE  Untouched(w)'
    BY <1>1 DEF FreshUntouched, Fresh, Exists, Has
  <2>1. ~Reporting(c, w)'
    BY <1>7 DEF Fresh, Has
  <2>2. Untouched(w)
    BY <1>0 DEF FreshUntouched, Fresh
  <2> QED
    BY <1>1, <1>2, <2>1, <2>2 DEF Untouched, Reporting
<1>9. UnusedSilent' /\ CompletedIsReported' /\ AnnouncedWasMade'
  BY <1>0, <1>1 DEF UnusedSilent, CompletedIsReported, AnnouncedWasMade, Exists
<1>10. SeenWasReported'
  <2> SUFFICES ASSUME NEW d \in Clients, NEW w \in Orders, Reporting(d, w)'
               PROVE  /\ job'[d].seen <= reported[w]
                      /\ job'[d].stage \in {"close", "announce"} =>
                           order[w].planned <= job'[d].seen
    BY <1>1 DEF SeenWasReported
  <2>1. CASE d = c
    <3>1. /\ Exists(w) /\ job'[d].seen = order[w].completed
          /\ job'[d].stage = "write"
      BY <1>2, <2>1 DEF Reporting, Begins, Has
    <3> QED
      BY <1>0, <3>1 DEF CompletedIsReported
  <2>2. CASE d # c
    BY <1>0, <1>2, <2>2 DEF SeenWasReported, Reporting
  <2> QED
    BY <2>1, <2>2
<1>11. RowsAreOfOrders'
  <2>1. RowsHold(request) => RowsHold(job[c])'
    BY <1>1, <1>2 DEF RowsHold, RowOfOrder
  <2>2. \A d \in Clients : Saves(d)' => job'[d] = job[d] \/ RowsHold(job[d])'
    BY <1>2, <2>1 DEF Saves, Begins
  <2>3. \A w \in Orders : reported[w] \in Nat
    BY <1>0 DEF TypeOK
  <2> QED
    BY <1>0, <1>1, <2>2, <2>3, RowsKept
<1> QED
  BY <1>5, <1>6, <1>8, <1>9, <1>10, <1>11 DEF IInv

\* The row that a change of parent is to save: that of its order
MovedRow(r, w) ==
  /\ r \in Pending /\ r.wo = w /\ Exists(w)
  /\ r.row.planned = order[w].planned /\ r.row.splitOf = order[w].splitOf
  /\ r.row.status = order[w].status /\ r.row.completed = order[w].completed

\* A new parent leaves the rest of the row.
LEMMA ParentRow ==
  ASSUME NEW row \in Order, NEW p \in Orders \cup {NoOrder}
  PROVE  /\ [row EXCEPT !.parent = p] \in Order
         /\ [row EXCEPT !.parent = p] # NoOrder
         /\ [row EXCEPT !.parent = p].status = row.status
         /\ [row EXCEPT !.parent = p].splitOf = row.splitOf
         /\ [row EXCEPT !.parent = p].planned = row.planned
         /\ [row EXCEPT !.parent = p].completed = row.completed
BY DEF Order

LEMMA MoveReadsRow ==
  ASSUME TypeOK, NEW c \in Clients, NEW w \in Orders,
         NEW p \in Orders \cup {NoOrder}, MoveRead(c, w, p)
  PROVE  \E r : MovedRow(r, w) /\ Take(c, Saving("tree", {r}, NoOrder, 0))
<1> DEFINE kept == [AsRead(w, order[w], 0) EXCEPT !.detached = TRUE]
           row == [order[w] EXCEPT !.parent = p]
           r == IF p = NoOrder THEN kept ELSE AsRead(w, row, 0)
<1>1. Exists(w) /\ Take(c, Saving("tree", {r}, NoOrder, 0))
  BY DEF MoveRead
<1>2. order[w] \in Order
  BY <1>1, RowOfExisting
<1>3. kept \in Pending /\ kept.wo = w /\ kept.row = order[w]
  BY <1>2 DEF AsRead, Pending
<1>4. AsRead(w, row, 0) \in Pending /\ AsRead(w, row, 0).wo = w /\ AsRead(w, row, 0).row = row
  BY <1>2, ParentRow, AsReadRow
<1>5. /\ row.status = order[w].status /\ row.splitOf = order[w].splitOf
      /\ row.planned = order[w].planned /\ row.completed = order[w].completed
  BY <1>2, ParentRow
<1> HIDE DEF kept, row
<1>6. MovedRow(r, w)
  BY <1>1, <1>3, <1>4, <1>5 DEF MovedRow
<1> QED
  BY <1>1, <1>6 DEF row, kept

LEMMA ReadsBegin ==
  ASSUME IInv, NEW c \in Clients,
         \/ \E w \in Orders :
              \/ StartRead(c, w)
              \/ \E to \in Status : TransitionRead(c, w, to)
              \/ \E n \in Reports : CompleteRead(c, w, n)
              \/ SplitRead(c, w) \/ CancelRead(c, w)
              \/ \E p \in Orders \cup {NoOrder} : MoveRead(c, w, p)
         \/ \E S \in SUBSET Orders : MergeRead(c, S)
  PROVE  IInv'
<1>0. TypeOK
  BY DEF IInv
<1>1. ASSUME NEW w \in Orders, StartRead(c, w) PROVE IInv'
  <2>1. Begins([op |-> "status", on |-> {w}, to |-> "IN_PROGRESS"])
    BY <1>1 DEF Begins, Job, Status, StartRead, Has
  <2> QED
    BY <1>1, <2>1, TakeKeeps DEF StartRead
<1>2. ASSUME NEW w \in Orders, NEW to \in Status, TransitionRead(c, w, to)
      PROVE  IInv'
  <2>1. to # "RELEASED" /\ to # "CANCELLED"
    BY <1>2 DEF TransitionRead, Transitions
  <2>2. Begins([op |-> "status", on |-> {w}, to |-> to])
    BY <1>2, <2>1 DEF Begins, Job, TransitionRead
  <2> QED
    BY <1>2, <2>2, TakeKeeps DEF TransitionRead
<1>3. ASSUME NEW w \in Orders, NEW n \in Reports, CompleteRead(c, w, n)
      PROVE  IInv'
  <2> DEFINE r == [op |-> "complete", on |-> {w}, stage |-> "write",
                   seen |-> order[w].completed, qty |-> n]
  <2>1. Has(w, "IN_PROGRESS") /\ Exists(w)
    BY <1>3 DEF CompleteRead, Reportable, Has
  <2>2. order[w].completed \in Nat
    BY <1>0, <2>1, HasStatus
  <2>3. Begins(r)
    BY <2>1, <2>2 DEF Begins, Job
  <2> QED
    BY <1>3, <2>3, TakeKeeps DEF CompleteRead
<1>4. ASSUME NEW w \in Orders, SplitRead(c, w) PROVE IInv'
  <2>1. Begins([op |-> "split", on |-> {w}])
    BY <1>4 DEF Begins, Job, SplitRead, Has
  <2> QED
    BY <1>4, <2>1, TakeKeeps DEF SplitRead
<1>5. ASSUME NEW w \in Orders, CancelRead(c, w) PROVE IInv'
  <2> DEFINE S == {x \in Orders : x \in Descendants(w) /\ Has(x, "RELEASED")}
  <2>1. \A x \in S : Exists(x)
    BY DEF Has
  <2>2. Begins([op |-> "cancel", on |-> S])
    BY <2>1 DEF Begins, Job
  <2> QED
    BY <1>5, <2>2, TakeKeeps DEF CancelRead
<1>6. ASSUME NEW S \in SUBSET Orders, MergeRead(c, S) PROVE IInv'
  <2>1. Begins([op |-> "merge", on |-> S])
    BY <1>6 DEF Begins, Job, MergeRead, Has
  <2> QED
    BY <1>6, <2>1, TakeKeeps DEF MergeRead
<1>7. ASSUME NEW w \in Orders, NEW p \in Orders \cup {NoOrder}, MoveRead(c, w, p)
      PROVE  IInv'
  <2>1. PICK r : MovedRow(r, w) /\ Take(c, Saving("tree", {r}, NoOrder, 0))
    BY <1>0, <1>7, MoveReadsRow
  <2>2. /\ Saving("tree", {r}, NoOrder, 0) \in Job
        /\ Saving("tree", {r}, NoOrder, 0).op = "tree"
        /\ Saving("tree", {r}, NoOrder, 0).on = {w}
        /\ Saving("tree", {r}, NoOrder, 0).rows = {r}
    <3>1. {r} \in SUBSET Pending /\ {x.wo : x \in {r}} = {w}
      BY <2>1 DEF MovedRow
    <3>2. "tree" \in {"root", "tree"} /\ NoOrder \in Orders \cup {NoOrder} /\ 0 \in Nat
      OBVIOUS
    <3>3. Saving("tree", {r}, NoOrder, 0) \in Job
      BY <3>1, <3>2, SavingJob
    <3> QED
      BY <3>1, <3>3 DEF Saving
  <2>3. RowOfOrder(r)
    <3>1. order[w].completed <= reported[w]
      BY <2>1 DEF IInv, CompletedIsReported, MovedRow
    <3> QED
      BY <2>1, <3>1 DEF RowOfOrder, MovedRow
  <2>4. Begins(Saving("tree", {r}, NoOrder, 0))
    BY <2>1, <2>2, <2>3 DEF Begins, RowsHold, MovedRow
  <2> QED
    BY <2>1, <2>4, TakeKeeps
<1> QED
  BY <1>1, <1>2, <1>3, <1>4, <1>5, <1>6, <1>7

-----------------------------------------------------------------------------
(* The steps of a report that are not of the form of StepKeeps *)

LEMMA CompleteWriteKeeps ==
  ASSUME IInv, NEW c \in Clients, NEW w \in Orders, CompleteWrite(c, w)
  PROVE  IInv'
<1>0. /\ TypeOK /\ OnExisting /\ FreshUntouched /\ RowsAreOfOrders
      /\ UnusedSilent /\ SeenWasReported /\ CompletedIsReported
      /\ AnnouncedWasMade
  BY DEF IInv
<1> DEFINE j == job[c]
           row == [order[w] EXCEPT !.completed = j.seen + j.qty]
<1>1. /\ Reporting(c, w) /\ j.on = {w} /\ j.stage = "write"
      /\ order' = [order EXCEPT ![w] = row]
      /\ reported' = [reported EXCEPT ![w] = reported[w] + j.qty]
      /\ overwritten' = IF order[w].completed = j.seen THEN overwritten
                         ELSE overwritten \cup {w}
      /\ job' = [job EXCEPT ![c] =
           [op |-> "complete", on |-> {w}, stage |-> "check",
            seen |-> j.seen, qty |-> j.qty]]
      /\ announced' = announced
      /\ UNCHANGED <<merges, contended, reverted, requests>>
  BY DEF CompleteWrite, Completing, Reporting, NewCompleted
<1>2. j.seen \in Nat /\ j.qty \in Nat /\ reported[w] \in Nat
  BY <1>0, <1>1, ReportingJob DEF TypeOK
<1>3. Exists(w) /\ order[w] \in Order
  BY <1>0, <1>1, RowOfExisting DEF OnExisting, Reporting
<1>4. /\ row \in Order /\ row # NoOrder /\ row.status = order[w].status
      /\ row.splitOf = order[w].splitOf
      /\ row.planned = order[w].planned /\ row.completed = j.seen + j.qty
  <2>1. j.seen + j.qty \in Nat
    BY <1>2
  <2> HIDE DEF j
  <2> QED
    BY <1>3, <2>1, CompletedRow
<1> HIDE DEF row
<1>5. /\ order'[w] = row
      /\ \A x \in Orders \ {w} : order'[x] = order[x]
      /\ reported'[w] = reported[w] + j.qty
      /\ \A x \in Orders \ {w} : reported'[x] = reported[x]
  BY <1>0, <1>1 DEF TypeOK
<1>6. /\ job'[c] = [op |-> "complete", on |-> {w}, stage |-> "check",
                    seen |-> j.seen, qty |-> j.qty]
      /\ \A d \in Clients \ {c} : job'[d] = job[d]
  BY <1>0, <1>1 DEF TypeOK
<1> HIDE DEF j
<1>7. TypeOK'
  <2>1. order' \in [Orders -> Order \cup {NoOrder}]
    BY <1>0, <1>1, <1>4 DEF TypeOK
  <2>2. job' \in [Clients -> Job \cup {NoJob}]
    BY <1>0, <1>1, <1>2 DEF TypeOK, Job
  <2>3. reported' \in [Orders -> Nat] /\ overwritten' \subseteq Orders
    BY <1>0, <1>1, <1>2 DEF TypeOK
  <2> QED
    BY <1>0, <1>1, <2>1, <2>2, <2>3 DEF TypeOK
<1>8. \A x \in Orders : /\ Exists(x)' = Exists(x)
                        /\ Fresh(x)' => Fresh(x)
                        /\ Exists(x) => /\ order'[x].planned = order[x].planned
                                        /\ order'[x].splitOf = order[x].splitOf
  BY <1>1, <1>3, <1>4, <1>5 DEF Exists, Fresh, Has
<1>9. \A d \in Clients, x \in Orders : Reporting(d, x)' => Reporting(d, x)
  BY <1>1, <1>6 DEF Reporting, j
<1>10. OnExisting'
  <2> SUFFICES ASSUME NEW d \in Clients, NEW x \in job'[d].on
               PROVE  Exists(x)'
    BY DEF OnExisting
  <2>1. x \in job[d].on
    BY <1>1, <1>6 DEF j
  <2>2. x \in Orders
    BY <1>0, <2>1, OnOrders
  <2> QED
    BY <1>0, <1>8, <2>1, <2>2 DEF OnExisting
<1>11. FreshUntouched'
  <2> SUFFICES ASSUME NEW x \in Orders, Fresh(x)'
               PROVE  Untouched(x)'
    BY DEF FreshUntouched, Fresh
  <2>1. Untouched(x)
    BY <1>0, <1>8 DEF FreshUntouched, Fresh
  <2>2. x # w
    BY <1>1, <2>1 DEF Untouched
  <2> QED
    BY <1>5, <1>9, <2>1, <2>2 DEF Untouched
<1>12. UnusedSilent'
  BY <1>0, <1>1, <1>8 DEF UnusedSilent
<1>13. \A x \in Orders : reported[x] \in Nat /\ reported'[x] \in Nat
                         /\ reported[x] <= reported'[x]
  <2>1. \A x \in Orders : reported[x] \in Nat
    BY <1>0 DEF TypeOK
  <2>2. reported'[w] \in Nat /\ reported[w] <= reported'[w]
    BY <1>2, <1>5
  <2>3. \A x \in Orders \ {w} : reported'[x] \in Nat /\ reported[x] <= reported'[x]
    BY <1>5, <2>1
  <2> QED
    BY <2>1, <2>2, <2>3
<1>14. SeenWasReported'
  <2> SUFFICES ASSUME NEW d \in Clients, NEW x \in Orders, Reporting(d, x)'
               PROVE  /\ job'[d].seen <= reported'[x]
                      /\ job'[d].stage \in {"close", "announce"} =>
                           order'[x].planned <= job'[d].seen
    BY DEF SeenWasReported
  <2>1. /\ Reporting(d, x) /\ Exists(x)
    BY <1>0, <1>9 DEF OnExisting, Reporting
  <2>2. job'[d].seen = job[d].seen
    BY <1>6 DEF j
  <2>3. job[d].seen \in Nat
    BY <1>0, <2>1, ReportingJob
  <2>4. job[d].seen <= reported[x]
    BY <1>0, <2>1 DEF SeenWasReported
  <2>5. job'[d].seen <= reported'[x]
    BY <1>13, <2>2, <2>3, <2>4
  <2>6. job'[d].stage \in {"close", "announce"} =>
          order'[x].planned <= job'[d].seen
    BY <1>0, <1>6, <1>8, <2>1 DEF SeenWasReported
  <2> QED
    BY <2>5, <2>6
<1>15. CompletedIsReported'
  <2> SUFFICES ASSUME NEW x \in Orders, Exists(x)'
               PROVE  /\ order'[x].completed <= reported'[x]
                      /\ x \notin overwritten' =>
                           order'[x].completed = reported'[x]
    BY DEF CompletedIsReported
  <2>1. CASE x = w
    <3>1. j.seen <= reported[w]
      BY <1>0, <1>1 DEF SeenWasReported, j
    <3>2. w \notin overwritten' =>
            w \notin overwritten /\ order[w].completed = j.seen
      BY <1>1
    <3>3. w \notin overwritten => order[w].completed = reported[w]
      BY <1>0, <1>3 DEF CompletedIsReported
    <3> QED
      BY <1>2, <1>4, <1>5, <2>1, <3>1, <3>2, <3>3
  <2>2. CASE x # w
    BY <1>0, <1>1, <1>5, <1>8, <2>2 DEF CompletedIsReported
  <2> QED
    BY <2>1, <2>2
<1>16. AnnouncedWasMade'
  <2> SUFFICES ASSUME NEW x \in Orders, NEW i \in DOMAIN announced[x]
               PROVE  /\ order'[x].planned <= announced[x][i]
                      /\ announced[x][i] <= reported'[x]
    BY <1>1 DEF AnnouncedWasMade
  <2>1. Exists(x)
    BY <1>0 DEF UnusedSilent
  <2>2. announced[x][i] \in Nat
    BY <1>0 DEF TypeOK
  <2>3. order[x].planned <= announced[x][i] /\ announced[x][i] <= reported[x]
    BY <1>0 DEF AnnouncedWasMade
  <2> QED
    BY <1>8, <1>13, <2>1, <2>2, <2>3
<1>17. RowsAreOfOrders'
  <2>1. \A d \in Clients : Saves(d)' => job'[d] = job[d]
    BY <1>6 DEF Saves
  <2> QED
    BY <1>0, <1>8, <1>13, <2>1, RowsKept
<1> QED
  BY <1>7, <1>10, <1>11, <1>12, <1>14, <1>15, <1>16, <1>17 DEF IInv

LEMMA CompleteCheckKeeps ==
  ASSUME IInv, NEW c \in Clients, NEW w \in Orders, CompleteCheck(c, w)
  PROVE  IInv'
<1>0. /\ TypeOK /\ OnExisting /\ FreshUntouched /\ RowsAreOfOrders
      /\ UnusedSilent /\ SeenWasReported /\ CompletedIsReported
      /\ AnnouncedWasMade
  BY DEF IInv
<1> DEFINE next == [op |-> "complete", on |-> {w}, stage |-> "close",
                    seen |-> order[w].completed, qty |-> job[c].qty]
<1>1. /\ Reporting(c, w) /\ job[c].on = {w}
      /\ job' = [job EXCEPT ![c] = IF Reached(order[w]) THEN next ELSE NoJob]
      /\ UNCHANGED <<order, merges, announced, contended, reported,
                     overwritten, reverted, requests>>
  BY DEF CompleteCheck, Completing, Reporting
<1>2. Exists(w) /\ order[w].completed \in Nat
  BY <1>0, <1>1, HasStatus DEF OnExisting, Reporting
<1>3. job[c].qty \in Nat
  BY <1>0, <1>1, ReportingJob
<1>4. next \in Job
  BY <1>2, <1>3 DEF Job
<1>5. /\ job'[c] = IF Reached(order[w]) THEN next ELSE NoJob
      /\ \A d \in Clients \ {c} : job'[d] = job[d]
      /\ job' \in [Clients -> Job \cup {NoJob}]
  BY <1>0, <1>1, <1>4 DEF TypeOK
<1>6. next.op = "complete" /\ next.on = {w} /\ next.seen = order[w].completed
  OBVIOUS
<1> HIDE DEF next
<1>7. TypeOK'
  BY <1>0, <1>1, <1>5 DEF TypeOK
<1>8. \A d \in Clients, x \in Orders : Reporting(d, x)' => Reporting(d, x)
  BY <1>1, <1>5, <1>6 DEF Reporting, NoJob
<1>9. OnExisting'
  <2> SUFFICES ASSUME NEW d \in Clients, NEW x \in job'[d].on
               PROVE  Exists(x)
    BY <1>1 DEF OnExisting, Exists
  <2>1. x \in job[d].on
    BY <1>1, <1>5, <1>6 DEF NoJob
  <2> QED
    BY <1>0, <2>1 DEF OnExisting
<1>10. FreshUntouched'
  BY <1>0, <1>1, <1>8
     DEF FreshUntouched, Fresh, Untouched, Exists, Has
<1>11. UnusedSilent' /\ CompletedIsReported' /\ AnnouncedWasMade'
  BY <1>0, <1>1 DEF UnusedSilent, CompletedIsReported, AnnouncedWasMade, Exists
<1>12. SeenWasReported'
  <2> SUFFICES ASSUME NEW d \in Clients, NEW x \in Orders, Reporting(d, x)'
               PROVE  /\ job'[d].seen <= reported[x]
                      /\ job'[d].stage \in {"close", "announce"} =>
                           order[x].planned <= job'[d].seen
    BY <1>1 DEF SeenWasReported
  <2>1. CASE d = c
    <3>1. job'[d] = next /\ Reached(order[w])
      BY <1>5, <2>1 DEF Reporting, NoJob
    <3>2. x = w
      BY <1>6, <3>1 DEF Reporting
    <3>3. order[w].completed <= reported[w] /\ order[w].planned <= order[w].completed
      BY <1>0, <1>2, <3>1, HasStatus DEF CompletedIsReported, Reached
    <3> QED
      BY <1>6, <3>1, <3>2, <3>3
  <2>2. CASE d # c
    BY <1>0, <1>5, <2>2 DEF SeenWasReported, Reporting
  <2> QED
    BY <2>1, <2>2
<1>13. RowsAreOfOrders'
  <2>1. \A d \in Clients : Saves(d)' => job'[d] = job[d]
    BY <1>5, <1>6 DEF Saves, NoJob
  <2>2. \A x \in Orders : reported[x] \in Nat
    BY <1>0 DEF TypeOK
  <2> QED
    BY <1>0, <1>1, <2>1, <2>2, RowsKept
<1> QED
  BY <1>7, <1>9, <1>10, <1>11, <1>12, <1>13 DEF IInv

\* What was announced stays.
LEMMA AppendOld ==
  ASSUME NEW s \in Seq(Nat), NEW n \in Nat, NEW i \in DOMAIN s
  PROVE  Append(s, n)[i] = s[i]
<1>1. i \in 1..Len(s)
  OBVIOUS
<1> QED
  BY <1>1

LEMMA CompleteAnnounceKeeps ==
  ASSUME IInv, NEW c \in Clients, NEW w \in Orders, CompleteAnnounce(c, w)
  PROVE  IInv'
<1>0. /\ TypeOK /\ OnExisting /\ FreshUntouched /\ RowsAreOfOrders
      /\ UnusedSilent /\ SeenWasReported /\ CompletedIsReported
      /\ AnnouncedWasMade
  BY DEF IInv
<1>1. /\ Reporting(c, w) /\ job[c].stage = "announce"
      /\ announced' = [announced EXCEPT ![w] = Append(announced[w], job[c].seen)]
      /\ job' = [job EXCEPT ![c] = NoJob]
      /\ UNCHANGED <<order, merges, contended, reported, overwritten, reverted,
                     requests>>
  BY DEF CompleteAnnounce, Completing, Reporting, Done
<1>2. job[c].seen \in Nat
  BY <1>0, <1>1, ReportingJob
<1>3. /\ announced'[w] = Append(announced[w], job[c].seen)
      /\ \A x \in Orders \ {w} : announced'[x] = announced[x]
      /\ job'[c] = NoJob
      /\ \A d \in Clients \ {c} : job'[d] = job[d]
  BY <1>0, <1>1 DEF TypeOK
<1>4. TypeOK'
  <2>1. announced' \in [Orders -> Seq(Nat)]
    BY <1>0, <1>1, <1>2 DEF TypeOK
  <2>2. job' \in [Clients -> Job \cup {NoJob}]
    BY <1>0, <1>1 DEF TypeOK
  <2> QED
    BY <1>0, <1>1, <2>1, <2>2 DEF TypeOK
<1>5. \A d \in Clients, x \in Orders :
        Reporting(d, x)' => Reporting(d, x) /\ job'[d] = job[d]
  BY <1>3 DEF Reporting, NoJob
<1>6. OnExisting'
  BY <1>0, <1>1, <1>3 DEF OnExisting, Exists, NoJob
<1>7. FreshUntouched' /\ SeenWasReported'
  BY <1>0, <1>1, <1>5
     DEF FreshUntouched, Fresh, Untouched, SeenWasReported, Exists, Has
<1>8. CompletedIsReported'
  BY <1>0, <1>1 DEF CompletedIsReported, Exists
<1>9. Exists(w)
  BY <1>0, <1>1 DEF OnExisting, Reporting
<1>10. UnusedSilent'
  BY <1>0, <1>1, <1>3, <1>9 DEF UnusedSilent, Exists
<1>11. AnnouncedWasMade'
  <2> SUFFICES ASSUME NEW x \in Orders, NEW i \in DOMAIN announced'[x]
               PROVE  /\ order[x].planned <= announced'[x][i]
                      /\ announced'[x][i] <= reported[x]
    BY <1>1 DEF AnnouncedWasMade
  <2>1. CASE x # w
    BY <1>0, <1>3, <2>1 DEF AnnouncedWasMade
  <2>2. CASE x = w
    <3>1. announced[w] \in Seq(Nat)
      BY <1>0 DEF TypeOK
    <3>2. i \in DOMAIN announced[w] \/ i = Len(announced[w]) + 1
      BY <1>2, <1>3, <2>2, <3>1
    <3>3. CASE i \in DOMAIN announced[w]
      <4>1. announced'[x][i] = announced[w][i]
        BY SMTT(30), <1>2, <1>3, <2>2, <3>1, <3>3, AppendOld
      <4> QED
        BY <1>0, <2>2, <3>3, <4>1 DEF AnnouncedWasMade
    <3>4. CASE i = Len(announced[w]) + 1
      <4>1. announced'[x][i] = job[c].seen
        BY <1>2, <1>3, <2>2, <3>1, <3>4
      <4> QED
        BY <1>0, <1>1, <2>2, <4>1 DEF SeenWasReported
    <3> QED
      BY <3>2, <3>3, <3>4
  <2> QED
    BY <2>1, <2>2
<1>12. RowsAreOfOrders'
  <2>1. \A d \in Clients : Saves(d)' => job'[d] = job[d]
    BY <1>3 DEF Saves, NoJob
  <2>2. \A x \in Orders : reported[x] \in Nat
    BY <1>0 DEF TypeOK
  <2> QED
    BY <1>0, <1>1, <2>1, <2>2, RowsKept
<1> QED
  BY <1>4, <1>6, <1>7, <1>8, <1>10, <1>11, <1>12 DEF IInv

-----------------------------------------------------------------------------
(***************************************************************************)
(* The other steps are of the form of StepKeeps.                           *)
(***************************************************************************)

\* The types after a step that changes only rows, jobs and the merges
LEMMA StepTypes ==
  ASSUME TypeOK,
         order' \in [Orders -> Order \cup {NoOrder}],
         job' \in [Clients -> Job \cup {NoJob}],
         merges' \subseteq [target : Orders, sources : SUBSET Orders],
         UNCHANGED <<announced, contended, reported, overwritten, reverted>>,
         requests' \in 0..MaxRequests
  PROVE  TypeOK'
BY DEF TypeOK

\* The jobs after a request has ended
LEMMA DoneJobs ==
  ASSUME TypeOK, NEW c \in Clients, Done(c)
  PROVE  /\ job' \in [Clients -> Job \cup {NoJob}]
         /\ \A d \in Clients : JobStep(d)
BY DEF TypeOK, Done, JobStep

LEMMA ReleaseKeeps ==
  ASSUME IInv, NEW w \in Orders, NEW n \in Quantities,
         NEW p \in Orders \cup {NoOrder}, Release(w, n, p)
  PROVE  IInv'
<1>0. TypeOK
  BY DEF IInv
<1>1. NewOrder(n, p, NoOrder) \in Order
  BY NewRow
<1>2. /\ order' \in [Orders -> Order \cup {NoOrder}]
      /\ order'[w] = NewOrder(n, p, NoOrder)
      /\ \A x \in Orders \ {w} : order'[x] = order[x]
  BY <1>0, <1>1 DEF Release, TypeOK
<1>3. requests' \in 0..MaxRequests
  BY <1>0 DEF Release, Arrives, TypeOK
<1>4. TypeOK'
  BY <1>0, <1>2, <1>3, StepTypes DEF Release, TypeOK
<1>5. \A x \in Orders : RowStep(x)
  <2> TAKE x \in Orders
  <2>1. CASE x = w
    <3>1. ~Exists(w) /\ n \in Nat /\ NoOrder \in Orders \cup {NoOrder}
      BY DEF Release
    <3> QED
      BY <1>2, <2>1, <3>1 DEF RowStep
  <2>2. CASE x # w
    BY <1>2, <2>2 DEF RowStep
  <2> QED
    BY <2>1, <2>2
<1>6. \A d \in Clients : JobStep(d)
  BY DEF Release, JobStep
<1> QED
  BY <1>4, <1>5, <1>6, StepKeeps DEF Release

LEMMA ReleaseRootKeeps ==
  ASSUME IInv, NEW c \in Clients, NEW w \in Orders, NEW n \in Quantities,
         NEW p \in Orders \cup {NoOrder}, ReleaseRoot(c, w, n, p)
  PROVE  IInv'
<1>0. /\ TypeOK /\ OnExisting /\ FreshUntouched /\ RowsAreOfOrders
      /\ UnusedSilent /\ SeenWasReported /\ CompletedIsReported
      /\ AnnouncedWasMade
  BY DEF IInv
<1> DEFINE row == NewOrder(n, p, NoOrder)
           r == AsRead(w, row, 0)
           next == Saving("root", {r}, NoOrder, 0)
<1>1. /\ ~Exists(w)
      /\ order' = [order EXCEPT ![w] = row]
      /\ job' = [job EXCEPT ![c] = next]
      /\ UNCHANGED <<merges, announced, contended, reported, overwritten,
                     reverted>>
  BY DEF ReleaseRoot
<1>2. /\ row \in Order /\ row # NoOrder /\ row.status = "RELEASED"
      /\ row.completed = 0
  BY NewRow
<1>3. r \in Pending /\ r.wo = w /\ r.row = row
  BY <1>2, AsReadRow
<1>4. next \in Job /\ next.op = "root" /\ next.on = {w} /\ next.rows = {r}
  <2>1. {r} \in SUBSET Pending /\ {x.wo : x \in {r}} = {w}
    BY <1>3
  <2>2. "root" \in {"root", "tree"} /\ NoOrder \in Orders \cup {NoOrder} /\ 0 \in Nat
    OBVIOUS
  <2>3. next \in Job
    BY <2>1, <2>2, SavingJob
  <2> QED
    BY <2>1, <2>3 DEF Saving
<1> HIDE DEF row, r, next
<1>5. /\ order' \in [Orders -> Order \cup {NoOrder}]
      /\ order'[w] = row
      /\ \A x \in Orders \ {w} : order'[x] = order[x]
  BY <1>0, <1>1, <1>2 DEF TypeOK
<1>6. /\ job' \in [Clients -> Job \cup {NoJob}]
      /\ job'[c] = next
      /\ \A d \in Clients \ {c} : job'[d] = job[d]
  BY <1>0, <1>1, <1>4 DEF TypeOK
<1>7. requests' \in 0..MaxRequests
  BY <1>0 DEF ReleaseRoot, Arrives, TypeOK
<1>8. TypeOK'
  BY <1>0, <1>1, <1>5, <1>6, <1>7, StepTypes DEF TypeOK
<1>9. \A d \in Clients, x \in Orders :
        Reporting(d, x)' => Reporting(d, x) /\ job'[d] = job[d] /\ x # w
  BY <1>0, <1>1, <1>4, <1>6 DEF Reporting, OnExisting
<1>10. OnExisting'
  <2> SUFFICES ASSUME NEW d \in Clients, NEW x \in job'[d].on
               PROVE  Exists(x)'
    BY DEF OnExisting
  <2>1. CASE d = c
    BY <1>2, <1>4, <1>5, <1>6, <2>1 DEF Exists
  <2>2. CASE d # c
    <3>1. x \in Orders /\ Exists(x)
      BY <1>0, <1>6, <2>2, OnOrders DEF OnExisting
    <3> QED
      BY <1>2, <1>5, <3>1 DEF Exists
  <2> QED
    BY <2>1, <2>2
<1>11. Untouched(w)
  BY <1>0, <1>1 DEF FreshUntouched, Fresh
<1>12. FreshUntouched'
  <2> SUFFICES ASSUME NEW x \in Orders, Fresh(x)'
               PROVE  Untouched(x)'
    BY DEF FreshUntouched
  <2>1. Untouched(x)
    <3>1. CASE x = w
      BY <1>11, <3>1
    <3>2. CASE x # w
      BY <1>0, <1>1, <1>5, <3>2 DEF FreshUntouched, Fresh, Exists, Has
    <3> QED
      BY <3>1, <3>2
  <2> QED
    BY <1>1, <1>9, <2>1 DEF Untouched
<1>13. RowsAreOfOrders'
  <2>1. RowsHold(job[c])'
    <3>1. reported[w] = 0 /\ reported' = reported
      BY <1>1, <1>11 DEF Untouched
    <3>2. RowOfOrder(r)'
      BY <1>2, <1>3, <1>5, <3>1 DEF RowOfOrder
    <3> QED
      BY <1>3, <1>4, <1>6, <3>2 DEF RowsHold
  <2>2. \A d \in Clients : Saves(d)' => job'[d] = job[d] \/ RowsHold(job[d])'
    BY <1>6, <2>1
  <2>3. \A x \in Orders : reported[x] \in Nat /\ reported'[x] = reported[x]
    BY <1>0, <1>1 DEF TypeOK
  <2>4. \A x \in Orders : Exists(x) => order'[x] = order[x]
    BY <1>1, <1>5
  <2> QED
    BY <1>0, <2>2, <2>3, <2>4, RowsKept
<1>14. UnusedSilent'
  BY <1>0, <1>1, <1>2, <1>5 DEF UnusedSilent, Exists
<1>15. SeenWasReported'
  BY <1>0, <1>1, <1>5, <1>9 DEF SeenWasReported
<1>16. CompletedIsReported'
  <2>1. reported[w] = 0
    BY <1>11 DEF Untouched
  <2> QED
    BY <1>0, <1>1, <1>2, <1>5, <2>1 DEF CompletedIsReported, Exists
<1>17. AnnouncedWasMade'
  BY <1>0, <1>1, <1>5 DEF AnnouncedWasMade, UnusedSilent
<1> QED
  BY <1>8, <1>10, <1>12, <1>13, <1>14, <1>15, <1>16, <1>17 DEF IInv

\* What the save of a row leaves in its order
LEMMA SavedRow ==
  ASSUME IInv, NEW c \in Clients, Saves(c), NEW r \in job[c].rows
  PROVE  /\ r.wo \in job[c].on /\ r.wo \in Orders /\ Exists(r.wo)
         /\ order[r.wo] \in Order
         /\ Saved(r, order[r.wo]) \in Order
         /\ Saved(r, order[r.wo]) # NoOrder
         /\ Saved(r, order[r.wo]).status = r.row.status
         /\ Saved(r, order[r.wo]).planned = order[r.wo].planned
         /\ Saved(r, order[r.wo]).splitOf = order[r.wo].splitOf
         /\ Saved(r, order[r.wo]).completed = r.row.completed
         /\ r.row.completed <= reported[r.wo]
<1>0. TypeOK /\ OnExisting /\ RowsAreOfOrders
  BY DEF IInv
<1>1. r.wo \in job[c].on /\ RowOfOrder(r)
  BY <1>0 DEF RowsAreOfOrders, RowsHold
<1>2. r.wo \in Orders /\ r.row \in Order
  BY <1>0, PendingRow
<1>3. Exists(r.wo) /\ order[r.wo] \in Order
  BY <1>0, <1>1, <1>2, RowOfExisting DEF OnExisting
<1>4. order[r.wo].parent \in Orders \cup {NoOrder}
  BY <1>3 DEF Order
<1> DEFINE kept == [r.row EXCEPT !.parent = order[r.wo].parent]
<1>5. /\ kept \in Order /\ kept # NoOrder /\ kept.status = r.row.status
      /\ kept.splitOf = r.row.splitOf /\ kept.planned = r.row.planned
      /\ kept.completed = r.row.completed
  BY <1>2, <1>4, ParentRow
<1>6. Saved(r, order[r.wo]) = IF r.detached THEN kept ELSE r.row
  BY DEF Saved
<1> HIDE DEF kept
<1> QED
  BY <1>1, <1>2, <1>3, <1>5, <1>6 DEF RowOfOrder

\* A request that saves a row, and ends or has fewer rows to save
LEMMA SaveRowKeeps ==
  ASSUME IInv, NEW c \in Clients, Saves(c), NEW r \in job[c].rows, SaveRow(r),
         NEW j, job' = [job EXCEPT ![c] = j],
         \/ j = NoJob
         \/ /\ j \in Job /\ j.op = "tree"
            /\ j.rows \subseteq job[c].rows /\ j.on = {x.wo : x \in j.rows},
         UNCHANGED <<merges, announced, contended, reported, requests>>
  PROVE  IInv'
<1>0. /\ TypeOK /\ OnExisting /\ FreshUntouched /\ RowsAreOfOrders
      /\ UnusedSilent /\ SeenWasReported /\ CompletedIsReported
      /\ AnnouncedWasMade
  BY DEF IInv
<1> DEFINE w == r.wo
           row == Saved(r, order[w])
<1>1. /\ order' = [order EXCEPT ![w] = row]
      /\ overwritten' = overwritten \cup
           (IF order[w].completed = row.completed THEN {} ELSE {w})
      /\ reverted' = reverted \cup
           (IF order[w].status = row.status THEN {} ELSE {w})
  BY DEF SaveRow
<1>2. /\ w \in Orders /\ w \in job[c].on /\ Exists(w) /\ order[w] \in Order
      /\ row \in Order /\ row # NoOrder
      /\ row.planned = order[w].planned /\ row.splitOf = order[w].splitOf
      /\ row.completed <= reported[w]
  BY SavedRow
<1> HIDE DEF row, w
<1>3. /\ order' \in [Orders -> Order \cup {NoOrder}]
      /\ order'[w] = row
      /\ \A x \in Orders \ {w} : order'[x] = order[x]
  BY <1>0, <1>1, <1>2 DEF TypeOK
<1>4. /\ job' \in [Clients -> Job \cup {NoJob}]
      /\ job'[c] = j
      /\ \A d \in Clients \ {c} : job'[d] = job[d]
  BY <1>0 DEF TypeOK
<1>5. overwritten' \subseteq Orders /\ reverted' \subseteq Orders
  BY <1>0, <1>1, <1>2 DEF TypeOK
<1>6. TypeOK'
  BY <1>0, <1>3, <1>4, <1>5 DEF TypeOK
<1>7. \A x \in Orders : /\ Exists(x)' = Exists(x)
                        /\ Fresh(x)' => Fresh(x)
                        /\ Exists(x) => /\ order'[x].planned = order[x].planned
                                        /\ order'[x].splitOf = order[x].splitOf
  <2> TAKE x \in Orders
  <2>1. CASE x = w
    <3>1. Fresh(w)' => w \notin reverted /\ order[w].status = row.status
      BY <1>1, <1>2, <1>3 DEF Fresh, Exists
    <3> QED
      BY <1>2, <1>3, <2>1, <3>1 DEF Exists, Fresh, Has
  <2>2. CASE x # w
    BY <1>1, <1>3, <2>2 DEF Exists, Fresh, Has
  <2> QED
    BY <2>1, <2>2
<1>8. \A d \in Clients, x \in Orders :
        Reporting(d, x)' => Reporting(d, x) /\ job'[d] = job[d]
  BY <1>4 DEF Reporting, NoJob
<1>9. RowsAreOfOrders /\ (j.on \subseteq job[c].on)
  BY <1>0 DEF RowsAreOfOrders, RowsHold, NoJob
<1>10. OnExisting'
  <2> SUFFICES ASSUME NEW d \in Clients, NEW x \in job'[d].on
               PROVE  Exists(x)'
    BY DEF OnExisting
  <2>1. x \in job[d].on
    BY <1>4, <1>9
  <2>2. x \in Orders
    BY <1>0, <2>1, OnOrders
  <2> QED
    BY <1>0, <1>7, <2>1, <2>2 DEF OnExisting
<1>11. FreshUntouched'
  BY <1>0, <1>7, <1>8 DEF FreshUntouched, Untouched
<1>12. RowsAreOfOrders'
  <2>1. \A x \in Orders : reported[x] \in Nat /\ reported'[x] = reported[x]
    BY <1>0 DEF TypeOK
  <2>2. ASSUME j # NoJob PROVE RowsHold(job[c])'
    <3>1. ASSUME NEW x \in j.rows PROVE RowOfOrder(x)'
      <4>1. RowOfOrder(x) /\ x.wo \in job[c].on
        BY <1>0, <2>2, <3>1 DEF RowsAreOfOrders, RowsHold
      <4>2. x.wo \in Orders /\ Exists(x.wo)
        BY <1>0, <4>1, OnOrders DEF OnExisting
      <4> QED
        BY <1>7, <2>1, <4>1, <4>2 DEF RowOfOrder
    <3> QED
      BY <1>4, <2>2, <3>1 DEF RowsHold
  <2>3. \A d \in Clients : Saves(d)' => job'[d] = job[d] \/ RowsHold(job[d])'
    BY <1>4, <2>2 DEF Saves, NoJob
  <2> QED
    BY <1>0, <1>7, <2>1, <2>3, RowsKept
<1>13. UnusedSilent'
  BY <1>0, <1>7 DEF UnusedSilent
<1>14. SeenWasReported'
  <2> SUFFICES ASSUME NEW d \in Clients, NEW x \in Orders, Reporting(d, x)'
               PROVE  /\ job'[d].seen <= reported[x]
                      /\ job'[d].stage \in {"close", "announce"} =>
                           order'[x].planned <= job'[d].seen
    BY DEF SeenWasReported
  <2>1. Reporting(d, x) /\ Exists(x) /\ job'[d] = job[d]
    BY <1>0, <1>8 DEF OnExisting, Reporting
  <2> QED
    BY <1>0, <1>7, <2>1 DEF SeenWasReported
<1>15. CompletedIsReported'
  <2> SUFFICES ASSUME NEW x \in Orders, Exists(x)
               PROVE  /\ order'[x].completed <= reported[x]
                      /\ x \notin overwritten' =>
                           order'[x].completed = reported[x]
    BY <1>7 DEF CompletedIsReported
  <2>1. CASE x = w
    BY <1>0, <1>1, <1>2, <1>3, <2>1 DEF CompletedIsReported
  <2>2. CASE x # w
    BY <1>0, <1>1, <1>3, <2>2 DEF CompletedIsReported
  <2> QED
    BY <2>1, <2>2
<1>16. AnnouncedWasMade'
  <2> SUFFICES ASSUME NEW x \in Orders, NEW i \in DOMAIN announced[x]
               PROVE  /\ order'[x].planned <= announced[x][i]
                      /\ announced[x][i] <= reported[x]
    BY DEF AnnouncedWasMade
  <2>1. Exists(x)
    BY <1>0 DEF UnusedSilent
  <2> QED
    BY <1>0, <1>7, <2>1 DEF AnnouncedWasMade
<1> QED
  BY <1>6, <1>10, <1>11, <1>12, <1>13, <1>14, <1>15, <1>16 DEF IInv

LEMMA RootWriteKeeps ==
  ASSUME IInv, NEW c \in Clients, RootWrite(c)
  PROVE  IInv'
<1>1. PICK r \in job[c].rows : SaveRow(r)
  BY DEF RootWrite
<1>2. Saves(c)
  BY DEF RootWrite, Saves
<1> QED
  BY <1>1, <1>2, SaveRowKeeps DEF RootWrite, Done

LEMMA TreeSaveKeeps ==
  ASSUME IInv, NEW c \in Clients, TreeSave(c)
  PROVE  IInv'
<1>1. PICK r \in job[c].rows :
        /\ SaveRow(r)
        /\ job' = [job EXCEPT ![c] =
             Saving("tree", job[c].rows \ {r}, r.wo, r.level)]
  BY DEF TreeSave
<1>2. Saves(c) /\ TypeOK
  BY DEF TreeSave, Saves, IInv
<1>3. r \in Pending /\ job[c].rows \subseteq Pending
  BY <1>2, PendingRow
<1> DEFINE j == Saving("tree", job[c].rows \ {r}, r.wo, r.level)
<1>4. /\ j \in Job /\ j.op = "tree" /\ j.rows = job[c].rows \ {r}
      /\ j.on = {x.wo : x \in job[c].rows \ {r}}
  <2>1. /\ r.wo \in Orders \cup {NoOrder} /\ r.level \in Nat
        /\ job[c].rows \ {r} \in SUBSET Pending /\ "tree" \in {"root", "tree"}
    BY <1>3 DEF Pending
  <2>2. j \in Job
    BY <2>1, SavingJob
  <2> QED
    BY <2>2 DEF Saving
<1>5. job' = [job EXCEPT ![c] = j]
  BY <1>1
<1> HIDE DEF j
<1>6. /\ j \in Job /\ j.op = "tree"
      /\ j.rows \subseteq job[c].rows /\ j.on = {x.wo : x \in j.rows}
  BY <1>4
<1>7. UNCHANGED <<merges, announced, contended, reported, requests>>
  BY DEF TreeSave
<1> QED
  BY <1>1, <1>2, <1>5, <1>6, <1>7, SaveRowKeeps

\* The children of the order just saved, and the request that has them to save
Children(c) == {x \in Orders : Exists(x) /\ order[x].parent = job[c].at}
ChildRows(c) == {AsRead(x, order[x], job[c].level + 1) : x \in Children(c)}

LEMMA TreeFindFinds ==
  ASSUME TypeOK, NEW c \in Clients, TreeFind(c)
  PROVE  \E j :
           /\ job' = [job EXCEPT ![c] = j]
           /\ \/ j = NoJob
              \/ /\ j \in Job /\ j.op = "tree"
                 /\ j.rows = job[c].rows \cup ChildRows(c)
                 /\ j.on = {r.wo : r \in j.rows}
<1> DEFINE rows == job[c].rows \cup ChildRows(c)
           next == Saving("tree", rows, NoOrder, 0)
<1>1. job' = [job EXCEPT ![c] = IF rows = {} THEN NoJob ELSE next]
  BY DEF TreeFind, ChildRows, Children
<1>2. job[c] \in Job /\ job[c].op = "tree"
  BY DEF TypeOK, TreeFind, NoJob
<1>3. job[c].rows \subseteq Pending /\ job[c].level \in Nat
  BY <1>2 DEF Job
<1>4. ChildRows(c) \subseteq Pending
  <2> SUFFICES ASSUME NEW x \in Children(c)
               PROVE  AsRead(x, order[x], job[c].level + 1) \in Pending
    BY DEF ChildRows
  <2>1. x \in Orders /\ order[x] \in Order /\ job[c].level + 1 \in Nat
    BY <1>3, RowOfExisting DEF Children
  <2> QED
    BY <2>1, AsReadRow
<1>5. /\ next \in Job /\ next.op = "tree" /\ next.rows = rows
      /\ next.on = {r.wo : r \in rows}
  <2>1. rows \in SUBSET Pending
    BY <1>3, <1>4
  <2> HIDE DEF rows
  <2> QED
    BY <2>1, SavingJob
<1> HIDE DEF next
<1>6. CASE rows = {}
  BY <1>1, <1>6
<1>7. CASE rows # {}
  BY <1>1, <1>5, <1>7
<1> QED
  BY <1>6, <1>7

LEMMA TreeFindKeeps ==
  ASSUME IInv, NEW c \in Clients, TreeFind(c)
  PROVE  IInv'
<1>0. /\ TypeOK /\ OnExisting /\ FreshUntouched /\ RowsAreOfOrders
      /\ UnusedSilent /\ SeenWasReported /\ CompletedIsReported
      /\ AnnouncedWasMade
  BY DEF IInv
<1>1. PICK j : /\ job' = [job EXCEPT ![c] = j]
               /\ \/ j = NoJob
                  \/ /\ j \in Job /\ j.op = "tree"
                     /\ j.rows = job[c].rows \cup ChildRows(c)
                     /\ j.on = {r.wo : r \in j.rows}
  BY <1>0, TreeFindFinds
<1>2. /\ contended' = contended \cup (Children(c) \cap TakenBy(c))
      /\ UNCHANGED <<order, merges, announced, reported, overwritten, reverted,
                     requests>>
  BY DEF TreeFind, Children
<1>3. /\ job' \in [Clients -> Job \cup {NoJob}]
      /\ job'[c] = j
      /\ \A d \in Clients \ {c} : job'[d] = job[d]
  BY <1>0, <1>1 DEF TypeOK
<1>4. TypeOK'
  BY <1>0, <1>2, <1>3 DEF TypeOK, Children
<1>5. Saves(c) /\ RowsHold(job[c])
  BY <1>0 DEF TreeFind, Saves, RowsAreOfOrders
<1>6. ASSUME NEW r \in ChildRows(c) PROVE r.wo \in Orders /\ Exists(r.wo) /\ RowOfOrder(r)
  <2>1. PICK x \in Children(c) : r = AsRead(x, order[x], job[c].level + 1)
    BY <1>6 DEF ChildRows
  <2>2. x \in Orders /\ Exists(x) /\ r.wo = x /\ r.row = order[x]
    BY <2>1 DEF Children, AsRead
  <2> QED
    BY <1>0, <2>2 DEF RowOfOrder, CompletedIsReported
<1>7. OnExisting'
  <2> SUFFICES ASSUME NEW d \in Clients, NEW x \in job'[d].on
               PROVE  Exists(x)
    BY <1>2 DEF OnExisting, Exists
  <2>1. CASE x \in job[d].on
    BY <1>0, <2>1 DEF OnExisting
  <2>2. CASE x \notin job[d].on
    <3>1. d = c /\ j # NoJob
      BY <1>3, <2>2 DEF NoJob
    <3>2. PICK r \in job[c].rows \cup ChildRows(c) : x = r.wo
      BY <1>1, <1>3, <3>1
    <3>3. r \in ChildRows(c)
      BY <1>5, <2>2, <3>1, <3>2 DEF RowsHold
    <3> QED
      BY <1>6, <3>2, <3>3
  <2> QED
    BY <2>1, <2>2
<1>8. \A d \in Clients, x \in Orders :
        Reporting(d, x)' => Reporting(d, x) /\ job'[d] = job[d]
  BY <1>1, <1>3 DEF Reporting, NoJob
<1>9. FreshUntouched' /\ SeenWasReported'
  BY <1>0, <1>2, <1>8
     DEF FreshUntouched, Fresh, Untouched, SeenWasReported, Exists, Has
<1>10. UnusedSilent' /\ CompletedIsReported' /\ AnnouncedWasMade'
  BY <1>0, <1>2 DEF UnusedSilent, CompletedIsReported, AnnouncedWasMade, Exists
<1>11. RowsAreOfOrders'
  <2>1. ASSUME j # NoJob PROVE RowsHold(job[c])'
    <3>1. \A r \in j.rows : RowOfOrder(r)
      BY <1>1, <1>5, <1>6, <2>1 DEF RowsHold
    <3>2. \A r : RowOfOrder(r)' <=> RowOfOrder(r)
      BY <1>2 DEF RowOfOrder
    <3> QED
      BY <1>1, <1>3, <2>1, <3>1, <3>2 DEF RowsHold
  <2>2. \A d \in Clients : Saves(d)' => job'[d] = job[d] \/ RowsHold(job[d])'
    BY <1>3, <2>1 DEF Saves, NoJob
  <2>3. \A x \in Orders : reported[x] \in Nat
    BY <1>0 DEF TypeOK
  <2> QED
    BY <1>0, <1>2, <2>2, <2>3, RowsKept
<1> QED
  BY <1>4, <1>7, <1>9, <1>10, <1>11 DEF IInv

LEMMA StatusWriteKeeps ==
  ASSUME IInv, NEW c \in Clients, NEW w \in Orders, StatusWrite(c, w)
  PROVE  IInv'
<1>0. TypeOK /\ OnExisting
  BY DEF IInv
<1> DEFINE to == job[c].to
<1>1. to \in Status \ {"RELEASED", "CANCELLED"}
  <2>1. job[c] \in Job \cup {NoJob} /\ job[c].op = "status"
    BY <1>0 DEF TypeOK, StatusWrite
  <2> QED
    BY <2>1 DEF Job, NoJob
<1>2. Exists(w) /\ order[w] \in Order
  BY <1>0, RowOfExisting DEF OnExisting, StatusWrite
<1>3. /\ Done(c)
      /\ order' = [order EXCEPT ![w] = WithStatus(order[w], to)]
      /\ UNCHANGED <<merges, announced, contended, reported, overwritten,
                     reverted, requests>>
  BY DEF StatusWrite
<1> HIDE DEF to
<1>4. WithStatus(order[w], to) \in Order
  BY <1>1, <1>2, StatusRow
<1>5. /\ order' \in [Orders -> Order \cup {NoOrder}]
      /\ order'[w] = WithStatus(order[w], to)
      /\ \A x \in Orders \ {w} : order'[x] = order[x]
  BY <1>0, <1>3, <1>4 DEF TypeOK
<1>6. TypeOK'
  BY <1>0, <1>3, <1>5, DoneJobs, StepTypes DEF TypeOK
<1>7. \A x \in Orders : RowStep(x)
  BY <1>1, <1>2, <1>5 DEF RowStep
<1> QED
  BY <1>0, <1>3, <1>6, <1>7, DoneJobs, StepKeeps

LEMMA CompleteCloseKeeps ==
  ASSUME IInv, NEW c \in Clients, NEW w \in Orders, CompleteClose(c, w)
  PROVE  IInv'
<1>0. TypeOK /\ OnExisting
  BY DEF IInv
<1> DEFINE next == [op |-> "complete", on |-> {w}, stage |-> "announce",
                    seen |-> job[c].seen, qty |-> job[c].qty]
<1>1. /\ Reporting(c, w) /\ job[c].on = {w} /\ job[c].stage = "close"
      /\ order' = [order EXCEPT ![w] = WithStatus(order[w], "COMPLETED")]
      /\ job' = [job EXCEPT ![c] = next]
      /\ UNCHANGED <<merges, announced, contended, reported, overwritten,
                     reverted, requests>>
  BY DEF CompleteClose, Completing, Reporting
<1>2. Exists(w) /\ order[w] \in Order
  BY <1>0, <1>1, RowOfExisting DEF OnExisting, Reporting
<1>3. "COMPLETED" \in Status \ {"RELEASED"}
  BY DEF Status
<1>4. WithStatus(order[w], "COMPLETED") \in Order
  BY <1>2, <1>3, StatusRow
<1>5. /\ order' \in [Orders -> Order \cup {NoOrder}]
      /\ order'[w] = WithStatus(order[w], "COMPLETED")
      /\ \A x \in Orders \ {w} : order'[x] = order[x]
  BY <1>0, <1>1, <1>4 DEF TypeOK
<1>6. next \in Job
  BY <1>0, <1>1, ReportingJob DEF Job
<1>7. /\ next.op = "complete" /\ next.on = {w} /\ next.seen = job[c].seen
  OBVIOUS
<1> HIDE DEF next
<1>8. /\ job' \in [Clients -> Job \cup {NoJob}]
      /\ job'[c] = next
      /\ \A d \in Clients \ {c} : job'[d] = job[d]
  BY <1>0, <1>1, <1>6 DEF TypeOK
<1>9. TypeOK'
  BY <1>0, <1>1, <1>5, <1>8, StepTypes DEF TypeOK
<1>10. \A x \in Orders : RowStep(x)
  BY <1>2, <1>3, <1>5 DEF RowStep
<1>11. \A d \in Clients : JobStep(d)
  BY <1>1, <1>7, <1>8 DEF JobStep, Reporting
<1> QED
  BY <1>1, <1>9, <1>10, <1>11, StepKeeps

LEMMA SplitCommitKeeps ==
  ASSUME IInv, NEW c \in Clients, NEW w \in Orders, SplitCommit(c, w)
  PROVE  IInv'
<1>0. TypeOK /\ OnExisting
  BY DEF IInv
<1>1. Exists(w) /\ order[w] \in Order
  BY <1>0, RowOfExisting DEF OnExisting, SplitCommit
<1> PICK S \in SUBSET Unused : \E part \in [S -> 1..order[w].planned] :
      order' = [x \in Orders |->
        CASE x \in S -> NewOrder(part[x], w, w)
          [] x = w   -> WithStatus(order[w], "CLOSED")
          [] OTHER   -> order[x]]
  BY DEF SplitCommit
<1>2. PICK part \in [S -> 1..order[w].planned] :
        order' = [x \in Orders |->
          CASE x \in S -> NewOrder(part[x], w, w)
            [] x = w   -> WithStatus(order[w], "CLOSED")
            [] OTHER   -> order[x]]
  OBVIOUS
<1>3. \A x \in S : x \in Orders /\ ~Exists(x) /\ part[x] \in Nat
  BY <1>1, <1>2 DEF Unused, Order
<1>4. w \notin S
  BY <1>1, <1>3
<1>5. "CLOSED" \in Status \ {"RELEASED"}
  BY DEF Status
<1>6. \A x \in Orders : RowStep(x)
  <2> TAKE x \in Orders
  <2>1. CASE x \in S
    <3>1. order'[x] = NewOrder(part[x], w, w)
      BY <1>2, <1>4, <2>1
    <3>2. ~Exists(x) /\ part[x] \in Nat /\ w \in Orders \cup {NoOrder}
      BY <1>3, <2>1
    <3> QED
      BY <3>1, <3>2 DEF RowStep
  <2>2. CASE x = w
    BY <1>1, <1>2, <1>4, <1>5, <2>2 DEF RowStep
  <2>3. CASE x \notin S /\ x # w
    BY <1>2, <2>3 DEF RowStep
  <2> QED
    BY <2>1, <2>2, <2>3
<1>7. order' \in [Orders -> Order \cup {NoOrder}]
  BY <1>0, <1>2, <1>6, RowStepKeeps
<1>8. /\ Done(c)
      /\ UNCHANGED <<merges, announced, contended, reported, overwritten,
                     reverted, requests>>
  BY DEF SplitCommit
<1>9. TypeOK'
  BY <1>0, <1>7, <1>8, DoneJobs, StepTypes DEF TypeOK
<1> QED
  BY <1>0, <1>6, <1>8, <1>9, DoneJobs, StepKeeps

LEMMA MergeCommitKeeps ==
  ASSUME IInv, NEW c \in Clients, MergeCommit(c)
  PROVE  IInv'
<1>0. TypeOK /\ OnExisting
  BY DEF IInv
<1> DEFINE sources == job[c].on
<1>1. PICK t \in Unused, planned \in Nat :
        /\ order' = [x \in Orders |->
             IF x = t THEN NewOrder(planned, NoOrder, NoOrder)
                      ELSE SourceClosed(x, sources)]
        /\ merges' = merges \cup {[target |-> t, sources |-> sources]}
  BY DEF MergeCommit
<1>2. t \in Orders /\ ~Exists(t)
  BY DEF Unused
<1>3. sources \subseteq Orders
  BY <1>0, OnOrders
<1>4. \A x \in sources : Exists(x)
  BY <1>0 DEF OnExisting
<1> HIDE DEF sources
<1>5. "CLOSED" \in Status \ {"RELEASED"}
  BY DEF Status
<1>6. \A x \in Orders : RowStep(x)
  <2> TAKE x \in Orders
  <2>1. CASE x = t
    <3>1. order'[x] = NewOrder(planned, NoOrder, NoOrder)
      BY <1>1, <2>1
    <3> QED
      BY <1>2, <2>1, <3>1 DEF RowStep
  <2>2. CASE x # t /\ x \in sources
    BY <1>1, <1>4, <1>5, <2>2 DEF RowStep, SourceClosed
  <2>3. CASE x # t /\ x \notin sources
    BY <1>1, <2>3 DEF RowStep, SourceClosed
  <2> QED
    BY <2>1, <2>2, <2>3
<1>7. order' \in [Orders -> Order \cup {NoOrder}]
  BY <1>0, <1>1, <1>6, RowStepKeeps
<1>8. /\ Done(c)
      /\ UNCHANGED <<announced, contended, reported, overwritten, reverted,
                     requests>>
  BY DEF MergeCommit
<1>9. TypeOK'
  BY <1>0, <1>1, <1>2, <1>3, <1>7, <1>8, DoneJobs, StepTypes DEF TypeOK
<1> QED
  BY <1>0, <1>6, <1>8, <1>9, DoneJobs, StepKeeps

LEMMA CancelCommitKeeps ==
  ASSUME IInv, NEW c \in Clients, CancelCommit(c)
  PROVE  IInv'
<1>0. TypeOK /\ OnExisting
  BY DEF IInv
<1>1. \A x \in job[c].on : Exists(x) /\ Has(x, "RELEASED")
  BY DEF CancelCommit, Cancellable, Has
<1>2. /\ order' = [x \in Orders |->
           IF x \in job[c].on THEN WithStatus(order[x], "CANCELLED")
                               ELSE order[x]]
      /\ Done(c)
      /\ UNCHANGED <<merges, announced, contended, reported, overwritten,
                     reverted, requests>>
  BY DEF CancelCommit
<1>3. "CANCELLED" \in Status \ {"RELEASED"}
  BY DEF Status
<1>4. \A x \in Orders : RowStep(x)
  BY <1>1, <1>2, <1>3 DEF RowStep
<1>5. order' \in [Orders -> Order \cup {NoOrder}]
  BY <1>0, <1>2, <1>4, RowStepKeeps
<1>6. TypeOK'
  BY <1>0, <1>2, <1>5, DoneJobs, StepTypes DEF TypeOK
<1> QED
  BY <1>0, <1>2, <1>4, <1>6, DoneJobs, StepKeeps

LEMMA AbortKeeps ==
  ASSUME IInv, NEW c \in Clients, Abort(c)
  PROVE  IInv'
<1>0. TypeOK
  BY DEF IInv
<1>1. TypeOK'
  BY <1>0, DoneJobs, StepTypes DEF Abort, TypeOK
<1>2. \A w \in Orders : RowStep(w)
  BY DEF Abort, RowStep
<1> QED
  BY <1>0, <1>1, <1>2, DoneJobs, StepKeeps DEF Abort

-----------------------------------------------------------------------------
LEMMA NextIInv == IInv /\ [Next]_vars => IInv'
<1> SUFFICES ASSUME IInv, [Next]_vars PROVE IInv'
  OBVIOUS
<1>1. ASSUME NEW w \in Orders, NEW n \in Quantities,
             NEW p \in Orders \cup {NoOrder}, Release(w, n, p)
      PROVE  IInv'
  BY <1>1, ReleaseKeeps
<1>2. ASSUME NEW c \in Clients, NEW w \in Orders,
             \/ StartRead(c, w)
             \/ \E to \in Status : TransitionRead(c, w, to)
             \/ \E n \in Reports : CompleteRead(c, w, n)
             \/ SplitRead(c, w) \/ CancelRead(c, w)
             \/ \E p \in Orders \cup {NoOrder} : MoveRead(c, w, p)
      PROVE  IInv'
  BY <1>2, ReadsBegin
<1>3. ASSUME NEW c \in Clients, NEW S \in SUBSET Orders, MergeRead(c, S)
      PROVE  IInv'
  BY <1>3, ReadsBegin
<1>4. ASSUME NEW c \in Clients, NEW w \in Orders,
             \/ StatusWrite(c, w) \/ CompleteWrite(c, w)
             \/ CompleteCheck(c, w) \/ CompleteClose(c, w)
             \/ CompleteAnnounce(c, w) \/ SplitCommit(c, w)
      PROVE  IInv'
  BY <1>4, StatusWriteKeeps, CompleteWriteKeeps, CompleteCheckKeeps,
     CompleteCloseKeeps, CompleteAnnounceKeeps, SplitCommitKeeps
<1>5. ASSUME NEW c \in Clients, MergeCommit(c) \/ CancelCommit(c) \/ Abort(c)
      PROVE  IInv'
  BY <1>5, MergeCommitKeeps, CancelCommitKeeps, AbortKeeps
<1>6. ASSUME NEW c \in Clients,
             \/ \E w \in Orders, n \in Quantities, p \in Orders \cup {NoOrder} :
                  ReleaseRoot(c, w, n, p)
             \/ RootWrite(c) \/ TreeSave(c) \/ TreeFind(c)
      PROVE  IInv'
  BY <1>6, ReleaseRootKeeps, RootWriteKeeps, TreeSaveKeeps, TreeFindKeeps
<1>7. CASE UNCHANGED vars
  <2>1. TypeOK /\ TypeOK'
    BY <1>7 DEF IInv, TypeOK, vars
  <2>2. (\A w \in Orders : RowStep(w)) /\ (\A c \in Clients : JobStep(c))
    BY <1>7 DEF RowStep, JobStep, vars
  <2> QED
    BY <1>7, <2>1, <2>2, StepKeeps DEF vars
<1> QED
  BY <1>1, <1>2, <1>3, <1>4, <1>5, <1>6, <1>7 DEF Next

\* The inductive invariant holds in every reachable state.
THEOREM InvariantHolds == Spec => []IInv
BY InitIInv, NextIInv, PTL DEF Spec

\* Every variable keeps its type (TypeOK), for any number of orders and of
\* requests at the same time.
THEOREM TypeCorrect == Spec => []TypeOK
<1>1. IInv => TypeOK
  BY DEF IInv
<1> QED
  BY <1>1, InvariantHolds, PTL

\* No order is cancelled once work was reported on it, unless a whole row saved
\* late has given it back a status it had left: cascade cancel checks the rows
\* it has locked, and a report needs an order that is in progress.
THEOREM CancelledUntouched == Spec => []CancelledHasNoWork
<1>1. IInv => CancelledHasNoWork
  BY DEF IInv, FreshUntouched, Fresh, Untouched, CancelledHasNoWork
<1> QED
  BY <1>1, InvariantHolds, PTL

\* The completed quantity is what was reported, unless a report was written
\* over one that it had not read, and then it is less.
THEOREM QuantitiesAreReported == Spec => []CompletedIsReported
<1>1. IInv => CompletedIsReported
  BY DEF IInv
<1> QED
  BY <1>1, InvariantHolds, PTL

\* PRODUCTION_COMPLETED names at least the planned quantity and at most what
\* was reported, however often it is published.
THEOREM AnnouncementsAreMade == Spec => []AnnouncedWasMade
<1>1. IInv => AnnouncedWasMade
  BY DEF IInv
<1> QED
  BY <1>1, InvariantHolds, PTL

-----------------------------------------------------------------------------
(***************************************************************************)
(* One fate for every order.  What a request that works on an order alone  *)
(* may rely on is that the order still has the status it was read with     *)
(* (RequestHolds), and that an order which is not finished has no fate yet *)
(* (UnfinishedIsOpen).                                                     *)
(***************************************************************************)
MergesOf(w) == {m \in merges : w \in m.sources}
PartsIn(w) == {x \in Orders : Exists(x) /\ order[x].splitOf = w}

Open(w) == announced[w] = <<>> /\ MergesOf(w) = {} /\ PartsIn(w) = {}

FateIsOne(w) ==
  \/ Open(w)
  \/ Len(announced[w]) = 1 /\ MergesOf(w) = {} /\ PartsIn(w) = {}
  \/ announced[w] = <<>> /\ PartsIn(w) = {} /\ \E m : MergesOf(w) = {m}
  \/ announced[w] = <<>> /\ MergesOf(w) = {} /\ PartsIn(w) # {}

\* The status s that order w has as long as only request j works on it.
Held(j, w, s) ==
  /\ j.op = "status" => j.to \in Transitions(s)
  /\ j.op = "complete" =>
       s = IF j.stage = "announce" THEN "COMPLETED" ELSE "IN_PROGRESS"
  /\ j.op \in {"split", "merge"} => s = "RELEASED"
  /\ j.op \in {"root", "tree"} => \A r \in j.rows : r.wo = w => r.row.status = s

PartsAddUp ==
  \A w \in Orders : PartsIn(w) # {} =>
    SumFunction([x \in PartsIn(w) |-> order[x].planned]) = order[w].planned

OriginsExist ==
  \A x \in Orders : Exists(x) /\ order[x].splitOf \in Orders => Exists(order[x].splitOf)

SourcesExist == \A m \in merges : \A w \in m.sources : Exists(w)

OneRequest ==
  \A w \in Orders \ contended : \A c, d \in Clients :
    w \in job[c].on /\ w \in job[d].on => c = d

RequestHolds ==
  \A w \in Orders \ contended, c \in Clients : w \in job[c].on =>
    /\ Held(job[c], w, order[w].status)
    /\ job[c].op = "complete" /\ job[c].stage = "announce" => Open(w)

Unfinished(s) == s \in {"RELEASED", "IN_PROGRESS"}

UnfinishedIsOpen ==
  \A w \in Orders \ contended : Exists(w) /\ Unfinished(order[w].status) => Open(w)

FateInv ==
  /\ PartsAddUp /\ OriginsExist /\ SourcesExist
  /\ OneRequest /\ RequestHolds /\ UnfinishedIsOpen
  /\ \A w \in Orders \ contended : FateIsOne(w)

\* No row changes its quantity or its origin, and a new one has no origin.
RowStays(x) ==
  /\ Exists(x) => /\ order'[x] # NoOrder
                  /\ order'[x].splitOf = order[x].splitOf
                  /\ order'[x].planned = order[x].planned
  /\ ~Exists(x) /\ order'[x] # NoOrder => order'[x].splitOf = NoOrder

LEMMA PartsStay ==
  ASSUME PartsAddUp, OriginsExist, \A x \in Orders : RowStays(x)
  PROVE  /\ \A w : w # NoOrder => PartsIn(w)' = PartsIn(w)
         /\ PartsAddUp' /\ OriginsExist'
<1>1. ASSUME NEW w, w # NoOrder PROVE PartsIn(w)' = PartsIn(w)
  BY <1>1 DEF PartsIn, RowStays, Exists
<1>2. PartsAddUp'
  <2> SUFFICES ASSUME NEW w \in Orders, PartsIn(w)' # {}
               PROVE  SumFunction([x \in PartsIn(w)' |-> order'[x].planned])
                        = order'[w].planned
    BY DEF PartsAddUp
  <2>1. PartsIn(w)' = PartsIn(w) /\ PartsIn(w) # {}
    BY <1>1
  <2>2. Exists(w)
    BY <2>1 DEF PartsIn, OriginsExist
  <2>3. \A x \in PartsIn(w) : order'[x].planned = order[x].planned
    BY DEF PartsIn, RowStays
  <2>4. [x \in PartsIn(w)' |-> order'[x].planned] = [x \in PartsIn(w) |-> order[x].planned]
    BY <2>1, <2>3
  <2>5. order'[w].planned = order[w].planned
    BY <2>2 DEF RowStays
  <2> QED
    BY <2>1, <2>4, <2>5 DEF PartsAddUp
<1>3. OriginsExist'
  BY DEF OriginsExist, RowStays, Exists
<1> QED
  BY <1>1, <1>2, <1>3

\* An order that is not there has no fate.
LEMMA NewIsOpen ==
  ASSUME IInv, FateInv, NEW w \in Orders, ~Exists(w)
  PROVE  Open(w)
<1>1. announced[w] = <<>>
  BY DEF IInv, UnusedSilent
<1>2. MergesOf(w) = {}
  BY DEF FateInv, SourcesExist, MergesOf
<1>3. PartsIn(w) = {}
  BY DEF FateInv, OriginsExist, PartsIn
<1> QED
  BY <1>1, <1>2, <1>3 DEF Open

\* A step that announces, merges and splits nothing.
LEMMA FateKeeps ==
  ASSUME IInv, FateInv, \A x \in Orders : RowStays(x),
         UNCHANGED <<announced, merges>>, contended \subseteq contended',
         \A w \in Orders \ contended', c \in Clients : w \in job'[c].on =>
           /\ Held(job'[c], w, order'[w].status)
           /\ \A d \in Clients : w \in job'[d].on => c = d
           /\ job'[c].op = "complete" /\ job'[c].stage = "announce" =>
                \/ Has(w, "IN_PROGRESS")
                \/ /\ w \in job[c].on
                   /\ job[c].op = "complete" /\ job[c].stage = "announce",
         \A w \in Orders \ contended' :
           order'[w] # NoOrder /\ Unfinished(order'[w].status) =>
             ~Exists(w) \/ Unfinished(order[w].status)
  PROVE  FateInv'
<1>0. TypeOK
  BY DEF IInv
<1>1. PartsAddUp' /\ OriginsExist' /\ \A w \in Orders : PartsIn(w)' = PartsIn(w)
  BY PartsStay, NoOrderAssumption DEF FateInv
<1>2. \A w \in Orders : MergesOf(w)' = MergesOf(w) /\ announced'[w] = announced[w]
  BY DEF MergesOf
<1>3. ASSUME NEW w \in Orders
      PROVE  (Open(w)' <=> Open(w)) /\ (FateIsOne(w)' <=> FateIsOne(w))
  BY <1>1, <1>2 DEF Open, FateIsOne
<1>4. SourcesExist'
  <2>1. \A m \in merges : m.sources \subseteq Orders
    BY <1>0 DEF TypeOK
  <2> QED
    BY <2>1 DEF FateInv, SourcesExist, RowStays, Exists
<1>5. OneRequest'
  BY DEF OneRequest
<1>6. UnfinishedIsOpen'
  <2> SUFFICES ASSUME NEW w \in Orders \ contended', Exists(w)',
                      Unfinished(order'[w].status)
               PROVE  Open(w)'
    BY DEF UnfinishedIsOpen, Unfinished
  <2>1. ~Exists(w) \/ Unfinished(order[w].status)
    BY DEF Exists
  <2>2. Open(w)
    BY <2>1, NewIsOpen DEF FateInv, UnfinishedIsOpen
  <2> QED
    BY <1>3, <2>2
<1>7. RequestHolds'
  <2> SUFFICES ASSUME NEW w \in Orders \ contended', NEW c \in Clients, w \in job'[c].on
               PROVE  /\ Held(job'[c], w, order'[w].status)
                      /\ job'[c].op = "complete" /\ job'[c].stage = "announce" => Open(w)'
    BY DEF RequestHolds, Held
  <2>1. Has(w, "IN_PROGRESS") => Open(w)
    BY DEF FateInv, UnfinishedIsOpen, Has, Unfinished
  <2>2. /\ w \in job[c].on /\ job[c].op = "complete" /\ job[c].stage = "announce"
        => Open(w)
    BY DEF FateInv, RequestHolds
  <2> QED
    BY <1>3, <2>1, <2>2
<1>8. \A w \in Orders \ contended' : FateIsOne(w)'
  BY <1>3 DEF FateInv
<1> QED
  BY <1>1, <1>4, <1>5, <1>6, <1>7, <1>8 DEF FateInv

\* A step of the one request of order w, which writes its row.
LEMMA RowFate ==
  ASSUME IInv, FateInv, NEW c \in Clients, NEW w \in Orders, job[c].on = {w},
         NEW j, job' = [job EXCEPT ![c] = j], j.on \subseteq {w},
         NEW row, order' = [order EXCEPT ![w] = row], row # NoOrder,
         row.splitOf = order[w].splitOf, row.planned = order[w].planned,
         UNCHANGED <<announced, merges, contended>>,
         w \notin contended /\ w \in j.on =>
           /\ Held(j, w, row.status)
           /\ j.op = "complete" /\ j.stage = "announce" => Has(w, "IN_PROGRESS"),
         w \notin contended /\ Unfinished(row.status) => Unfinished(order[w].status)
  PROVE  FateInv'
<1>0. TypeOK /\ Exists(w)
  BY DEF IInv, OnExisting
<1>1. /\ order'[w] = row /\ \A x \in Orders \ {w} : order'[x] = order[x]
      /\ job'[c] = j /\ \A d \in Clients \ {c} : job'[d] = job[d]
  BY <1>0 DEF TypeOK
<1>2. \A x \in Orders : RowStays(x)
  BY <1>0, <1>1 DEF RowStays, Exists
<1>3. contended' = contended /\ announced' = announced /\ merges' = merges
  OBVIOUS
<1>4. ASSUME NEW x \in Orders \ contended, NEW d \in Clients, x \in job'[d].on
      PROVE  /\ Held(job'[d], x, order'[x].status)
             /\ \A e \in Clients : x \in job'[e].on => d = e
             /\ job'[d].op = "complete" /\ job'[d].stage = "announce" =>
                  \/ Has(x, "IN_PROGRESS")
                  \/ /\ x \in job[d].on
                     /\ job[d].op = "complete" /\ job[d].stage = "announce"
  <2>1. \A e \in Clients : x \in job'[e].on => x \in job[e].on
    BY <1>1
  <2>2. \A e \in Clients : x \in job'[e].on => d = e
    BY <1>4, <2>1 DEF FateInv, OneRequest
  <2>3. x = w <=> d = c
    BY <1>1, <1>4, <2>1 DEF FateInv, OneRequest
  <2>4. CASE d = c
    BY <1>1, <1>4, <2>2, <2>3, <2>4
  <2>5. CASE d # c
    <3>1. job'[d] = job[d] /\ order'[x] = order[x] /\ x \in job[d].on
      BY <1>1, <1>4, <2>3, <2>5
    <3>2. Held(job[d], x, order[x].status)
      BY <3>1 DEF FateInv, RequestHolds
    <3> QED
      BY <2>2, <3>1, <3>2
  <2> QED
    BY <2>4, <2>5
<1>5. \A x \in Orders \ contended :
        order'[x] # NoOrder /\ Unfinished(order'[x].status) =>
          ~Exists(x) \/ Unfinished(order[x].status)
  BY <1>1
<1> QED
  BY <1>2, <1>3, <1>4, <1>5, FateKeeps

\* What was read when a request began is still there when it began.
LEMMA TakeFate ==
  ASSUME IInv, FateInv, NEW c \in Clients, NEW r, Take(c, r), r.on \subseteq Orders,
         \A w \in r.on : Held(r, w, order[w].status),
         ~(r.op = "complete" /\ r.stage = "announce")
  PROVE  FateInv'
<1>0. TypeOK
  BY DEF IInv
<1>1. /\ order' = order /\ announced' = announced /\ merges' = merges
      /\ job' = [job EXCEPT ![c] = r] /\ job[c] = NoJob
      /\ contended' = contended \cup (r.on \cap TakenBy(c))
  BY DEF Take
<1>2. job'[c] = r /\ \A d \in Clients \ {c} : job'[d] = job[d]
  BY <1>0, <1>1 DEF TypeOK
<1>3. \A x \in Orders : RowStays(x)
  BY <1>1 DEF RowStays, Exists
<1>4. ASSUME NEW x \in Orders \ contended', NEW d \in Clients, x \in job'[d].on
      PROVE  /\ Held(job'[d], x, order'[x].status)
             /\ \A e \in Clients : x \in job'[e].on => d = e
             /\ job'[d].op = "complete" /\ job'[d].stage = "announce" =>
                  \/ Has(x, "IN_PROGRESS")
                  \/ /\ x \in job[d].on
                     /\ job[d].op = "complete" /\ job[d].stage = "announce"
  <2>1. x \notin contended
    BY <1>1
  <2>2. x \in r.on => \A e \in Clients \ {c} : x \notin job[e].on
    BY <1>1 DEF TakenBy
  <2>3. \A e \in Clients : x \in job'[e].on => d = e
    BY <1>2, <1>4, <2>1, <2>2 DEF FateInv, OneRequest
  <2>4. CASE d = c
    BY <1>1, <1>2, <1>4, <2>3, <2>4
  <2>5. CASE d # c
    BY <1>1, <1>2, <1>4, <2>1, <2>3, <2>5 DEF FateInv, RequestHolds
  <2> QED
    BY <2>4, <2>5
<1>5. \A w \in Orders \ contended' :
        order'[w] # NoOrder /\ Unfinished(order'[w].status) =>
          ~Exists(w) \/ Unfinished(order[w].status)
  BY <1>1
<1> QED
  BY <1>1, <1>3, <1>4, <1>5, FateKeeps

LEMMA ReadsFate ==
  ASSUME IInv, FateInv, NEW c \in Clients,
         \/ \E w \in Orders :
              \/ StartRead(c, w)
              \/ \E to \in Status : TransitionRead(c, w, to)
              \/ \E n \in Reports : CompleteRead(c, w, n)
              \/ SplitRead(c, w) \/ CancelRead(c, w)
              \/ \E p \in Orders \cup {NoOrder} : MoveRead(c, w, p)
         \/ \E S \in SUBSET Orders : MergeRead(c, S)
  PROVE  FateInv'
<1>1. ASSUME NEW w \in Orders, StartRead(c, w) PROVE FateInv'
  <2> DEFINE r == [op |-> "status", on |-> {w}, to |-> "IN_PROGRESS"]
  <2>1. "IN_PROGRESS" \in Transitions("RELEASED")
    BY DEF Transitions
  <2>2. \A x \in r.on : Held(r, x, order[x].status)
    BY <1>1, <2>1 DEF StartRead, Has, Held
  <2> QED
    BY <1>1, <2>2, TakeFate DEF StartRead
<1>2. ASSUME NEW w \in Orders, NEW to \in Status, TransitionRead(c, w, to)
      PROVE  FateInv'
  <2> DEFINE r == [op |-> "status", on |-> {w}, to |-> to]
  <2>1. \A x \in r.on : Held(r, x, order[x].status)
    BY <1>2 DEF TransitionRead, Held
  <2> QED
    BY <1>2, <2>1, TakeFate DEF TransitionRead
<1>3. ASSUME NEW w \in Orders, NEW n \in Reports, CompleteRead(c, w, n)
      PROVE  FateInv'
  <2> DEFINE r == [op |-> "complete", on |-> {w}, stage |-> "write",
                   seen |-> order[w].completed, qty |-> n]
  <2>1. \A x \in r.on : Held(r, x, order[x].status)
    BY <1>3 DEF CompleteRead, Reportable, Has, Held
  <2> QED
    BY <1>3, <2>1, TakeFate DEF CompleteRead
<1>4. ASSUME NEW w \in Orders, SplitRead(c, w) PROVE FateInv'
  <2> DEFINE r == [op |-> "split", on |-> {w}]
  <2>1. \A x \in r.on : Held(r, x, order[x].status)
    BY <1>4 DEF SplitRead, Has, Held
  <2> QED
    BY <1>4, <2>1, TakeFate DEF SplitRead
<1>5. ASSUME NEW w \in Orders, CancelRead(c, w) PROVE FateInv'
  <2> DEFINE S == {x \in Orders : x \in Descendants(w) /\ Has(x, "RELEASED")}
             r == [op |-> "cancel", on |-> S]
  <2>1. \A x \in r.on : Held(r, x, order[x].status)
    BY DEF Held
  <2> QED
    BY <1>5, <2>1, TakeFate DEF CancelRead
<1>6. ASSUME NEW S \in SUBSET Orders, MergeRead(c, S) PROVE FateInv'
  <2> DEFINE r == [op |-> "merge", on |-> S]
  <2>1. \A x \in r.on : Held(r, x, order[x].status)
    BY <1>6 DEF MergeRead, Has, Held
  <2> QED
    BY <1>6, <2>1, TakeFate DEF MergeRead
<1>7. ASSUME NEW w \in Orders, NEW p \in Orders \cup {NoOrder}, MoveRead(c, w, p)
      PROVE  FateInv'
  <2>1. PICK r : MovedRow(r, w) /\ Take(c, Saving("tree", {r}, NoOrder, 0))
    BY <1>7, MoveReadsRow DEF IInv
  <2> DEFINE j == Saving("tree", {r}, NoOrder, 0)
  <2>2. j.op = "tree" /\ j.on = {w} /\ j.rows = {r}
    BY <2>1 DEF MovedRow, Saving
  <2>3. Take(c, j)
    BY <2>1
  <2> HIDE DEF j
  <2>4. \A x \in j.on : Held(j, x, order[x].status)
    BY <2>1, <2>2 DEF Held, MovedRow
  <2> QED
    BY <2>2, <2>3, <2>4, TakeFate
<1> QED
  BY <1>1, <1>2, <1>3, <1>4, <1>5, <1>6, <1>7

\* New orders, and requests that end.
LEMMA ReleaseFate ==
  ASSUME IInv, FateInv, NEW w \in Orders, NEW n \in Quantities, ~Exists(w),
         NEW p \in Orders \cup {NoOrder},
         order' = [order EXCEPT ![w] = NewOrder(n, p, NoOrder)],
         UNCHANGED <<announced, merges, contended>>,
         \/ job' = job
         \/ \E c \in Clients : job' = [job EXCEPT ![c] =
              Saving("root", {AsRead(w, NewOrder(n, p, NoOrder), 0)}, NoOrder, 0)]
  PROVE  FateInv'
<1>0. TypeOK
  BY DEF IInv
<1> DEFINE next == Saving("root", {AsRead(w, NewOrder(n, p, NoOrder), 0)}, NoOrder, 0)
<1>8. /\ next.op = "root" /\ next.on = {w}
      /\ \A r \in next.rows : r.row.status = "RELEASED"
  BY DEF Saving, AsRead, NewOrder
<1>9. job' = job \/ \E c \in Clients : job' = [job EXCEPT ![c] = next]
  OBVIOUS
<1> HIDE DEF next
<1>1. /\ order'[w].status = "RELEASED" /\ order'[w].splitOf = NoOrder
      /\ \A x \in Orders \ {w} : order'[x] = order[x]
  BY <1>0 DEF TypeOK, NewOrder
<1>2. \A x \in Orders : RowStays(x)
  BY <1>1 DEF RowStays, Exists
<1>3. \A d \in Clients : w \notin job[d].on
  BY DEF IInv, OnExisting
<1>4. ASSUME NEW d \in Clients
      PROVE  job'[d] = job[d] \/ job'[d] = next
  BY <1>0, <1>9 DEF TypeOK
<1>5. \A d, e \in Clients : job'[d] # job[d] /\ job'[e] # job[e] => d = e
  BY <1>0, <1>9 DEF TypeOK
<1>6. ASSUME NEW x \in Orders \ contended', NEW d \in Clients, x \in job'[d].on
      PROVE  /\ Held(job'[d], x, order'[x].status)
             /\ \A e \in Clients : x \in job'[e].on => d = e
             /\ job'[d].op = "complete" /\ job'[d].stage = "announce" =>
                  \/ Has(x, "IN_PROGRESS")
                  \/ /\ x \in job[d].on
                     /\ job[d].op = "complete" /\ job[d].stage = "announce"
  <2>1. x \in Orders \ contended
    OBVIOUS
  <2>2. CASE job'[d] = job[d]
    <3>1. x # w /\ order'[x] = order[x]
      BY <1>1, <1>3, <1>6, <2>2
    <3>2. \A e \in Clients : x \in job'[e].on => x \in job[e].on
      BY <1>4, <1>8, <3>1
    <3>3. \A e \in Clients : x \in job'[e].on => d = e
      BY <1>6, <2>1, <2>2, <3>2 DEF FateInv, OneRequest
    <3>4. Held(job[d], x, order[x].status)
      BY <1>6, <2>1, <2>2 DEF FateInv, RequestHolds
    <3> QED
      BY <1>6, <2>2, <3>1, <3>3, <3>4
  <2>3. CASE job'[d] # job[d]
    <3>1. job'[d] = next /\ x = w
      BY <1>4, <1>6, <1>8, <2>3
    <3>2. \A e \in Clients : x \in job'[e].on => d = e
      BY <1>3, <1>5, <2>3, <3>1
    <3>3. Held(job'[d], x, order'[x].status)
      BY <1>1, <1>8, <3>1 DEF Held
    <3> QED
      BY <1>8, <3>1, <3>2, <3>3
  <2> QED
    BY <2>2, <2>3
<1>7. \A x \in Orders \ contended' :
        order'[x] # NoOrder /\ Unfinished(order'[x].status) =>
          ~Exists(x) \/ Unfinished(order[x].status)
  BY <1>1
<1> QED
  BY <1>2, <1>6, <1>7, FateKeeps

\* A request that ends leaves the others, and the rows it does not work on.
LEMMA EndFate ==
  ASSUME IInv, FateInv, NEW c \in Clients, Done(c),
         \A x \in Orders : RowStays(x),
         \A x \in Orders \ job[c].on : order'[x] = order[x],
         \A x \in job[c].on \ contended :
           Unfinished(order'[x].status) => Unfinished(order[x].status),
         UNCHANGED <<announced, merges, contended>>
  PROVE  FateInv'
<1>0. TypeOK
  BY DEF IInv
<1>1. job'[c] = NoJob /\ \A d \in Clients \ {c} : job'[d] = job[d]
  BY <1>0 DEF Done, TypeOK
<1>2. ASSUME NEW x \in Orders \ contended', NEW d \in Clients, x \in job'[d].on
      PROVE  /\ Held(job'[d], x, order'[x].status)
             /\ \A e \in Clients : x \in job'[e].on => d = e
             /\ job'[d].op = "complete" /\ job'[d].stage = "announce" =>
                  \/ Has(x, "IN_PROGRESS")
                  \/ /\ x \in job[d].on
                     /\ job[d].op = "complete" /\ job[d].stage = "announce"
  <2>1. x \in Orders \ contended
    OBVIOUS
  <2>2. d # c /\ job'[d] = job[d]
    BY <1>1, <1>2 DEF NoJob
  <2>3. \A e \in Clients : x \in job'[e].on => x \in job[e].on
    BY <1>1 DEF NoJob
  <2>4. \A e \in Clients : x \in job[e].on => d = e
    BY <1>2, <2>1, <2>2 DEF FateInv, OneRequest
  <2>5. order'[x] = order[x]
    BY <2>2, <2>4
  <2>6. Held(job[d], x, order[x].status)
    BY <1>2, <2>1, <2>2 DEF FateInv, RequestHolds
  <2> QED
    BY <1>2, <2>2, <2>3, <2>4, <2>5, <2>6
<1>3. \A x \in Orders \ contended' :
        order'[x] # NoOrder /\ Unfinished(order'[x].status) =>
          ~Exists(x) \/ Unfinished(order[x].status)
  <2> SUFFICES ASSUME NEW x \in Orders \ contended', Unfinished(order'[x].status)
               PROVE  Unfinished(order[x].status)
    OBVIOUS
  <2>1. CASE x \in job[c].on
    BY <2>1
  <2>2. CASE x \notin job[c].on
    BY <2>2
  <2> QED
    BY <2>1, <2>2
<1>4. contended' = contended
  OBVIOUS
<1> QED
  BY <1>2, <1>3, <1>4, FateKeeps
-----------------------------------------------------------------------------
(* The steps of a request on its own order *)

\* No write touches the order a part was split from.
LEMMA OriginStays ==
  ASSUME NEW row \in Order
  PROVE  /\ \A s : WithStatus(row, s).splitOf = row.splitOf
         /\ \A n : [row EXCEPT !.completed = n].splitOf = row.splitOf
BY DEF WithStatus, Order

\* The one request of an order finds it as it left it.
LEMMA HeldByOne ==
  ASSUME IInv, FateInv, NEW c \in Clients, NEW w \in Orders, job[c].on = {w}
  PROVE  /\ TypeOK /\ Exists(w) /\ order[w] \in Order
         /\ w \notin contended => Held(job[c], w, order[w].status)
<1>1. TypeOK /\ Exists(w)
  BY DEF IInv, OnExisting
<1>2. order[w] \in Order
  BY <1>1, RowOfExisting
<1>3. w \notin contended => Held(job[c], w, order[w].status)
  BY DEF FateInv, RequestHolds
<1> QED
  BY <1>1, <1>2, <1>3

LEMMA InitFate == Init => FateInv
<1> SUFFICES ASSUME Init PROVE FateInv
  OBVIOUS
<1>1. /\ \A w \in Orders : ~Exists(w) /\ announced[w] = <<>>
      /\ merges = {} /\ \A c \in Clients : job[c].on = {}
  BY DEF Init, Exists, NoJob
<1>2. \A w : PartsIn(w) = {} /\ MergesOf(w) = {}
  BY <1>1 DEF PartsIn, MergesOf
<1>3. \A w \in Orders : Open(w)
  BY <1>1, <1>2 DEF Open
<1> QED
  BY <1>1, <1>2, <1>3 DEF FateInv, PartsAddUp, OriginsExist, SourcesExist,
     OneRequest, RequestHolds, UnfinishedIsOpen, FateIsOne

LEMMA StatusWriteFate ==
  ASSUME IInv, FateInv, NEW c \in Clients, NEW w \in Orders, StatusWrite(c, w)
  PROVE  FateInv'
<1> DEFINE row == WithStatus(order[w], job[c].to)
<1>1. /\ job[c].op = "status" /\ job[c].on = {w}
      /\ order' = [order EXCEPT ![w] = row] /\ job' = [job EXCEPT ![c] = NoJob]
      /\ UNCHANGED <<announced, merges, contended>>
  BY DEF StatusWrite, Done
<1>2. order[w] \in Order /\ (w \notin contended => Held(job[c], w, order[w].status))
  BY <1>1, HeldByOne
<1>3. job[c].to \in Status
  <2>1. job[c] \in Job \cup {NoJob}
    BY DEF IInv, TypeOK
  <2> QED
    BY <1>1, <2>1 DEF Job, NoJob
<1>4. /\ row # NoOrder /\ row.planned = order[w].planned
      /\ row.splitOf = order[w].splitOf /\ row.status = job[c].to
  BY <1>2, <1>3, StatusRow, OriginStays
<1>5. w \notin contended /\ Unfinished(row.status) => Unfinished(order[w].status)
  <2>1. \A s : job[c].to \in Transitions(s) => Unfinished(s) \/ job[c].to = "CLOSED"
    BY DEF Transitions, Unfinished
  <2> QED
    BY <1>1, <1>2, <1>4, <2>1 DEF Held, Unfinished
<1>6. NoJob.on \subseteq {w} /\ w \notin NoJob.on
  BY DEF NoJob
<1> HIDE DEF row
<1> QED
  BY <1>1, <1>4, <1>5, <1>6, RowFate

\* A request saves a row of its own, and ends or has fewer rows to save.
LEMMA SaveRowFate ==
  ASSUME IInv, FateInv, NEW c \in Clients, Saves(c),
         NEW r \in job[c].rows, SaveRow(r),
         NEW j, job' = [job EXCEPT ![c] = j],
         \/ j = NoJob
         \/ /\ j.op = "tree" /\ j.rows \subseteq job[c].rows
            /\ j.on = {x.wo : x \in j.rows},
         UNCHANGED <<announced, merges, contended>>
  PROVE  FateInv'
<1>0. TypeOK /\ RowsHold(job[c])
  BY DEF IInv, RowsAreOfOrders
<1> DEFINE w == r.wo
           row == Saved(r, order[w])
<1>1. order' = [order EXCEPT ![w] = row]
  BY DEF SaveRow
<1>2. /\ w \in Orders /\ w \in job[c].on /\ Exists(w)
      /\ row # NoOrder /\ row.status = r.row.status
      /\ row.planned = order[w].planned /\ row.splitOf = order[w].splitOf
  BY SavedRow
<1>3. w \notin contended => row.status = order[w].status
  BY <1>2 DEF FateInv, RequestHolds, Held, Saves
<1> HIDE DEF row, w
<1>4. /\ order'[w] = row /\ \A x \in Orders \ {w} : order'[x] = order[x]
      /\ job'[c] = j /\ \A d \in Clients \ {c} : job'[d] = job[d]
  BY <1>0, <1>1, <1>2 DEF TypeOK
<1>5. \A x \in Orders : RowStays(x)
  BY <1>2, <1>4 DEF RowStays, Exists
<1>6. \A x \in Orders \ contended : order'[x] # NoOrder =>
        order'[x].status = order[x].status
  BY <1>3, <1>4
<1>7. j.on \subseteq job[c].on
  BY <1>0 DEF RowsHold, NoJob
<1>8. ASSUME NEW x \in Orders \ contended', NEW d \in Clients, x \in job'[d].on
      PROVE  /\ Held(job'[d], x, order'[x].status)
             /\ \A e \in Clients : x \in job'[e].on => d = e
             /\ job'[d].op = "complete" /\ job'[d].stage = "announce" =>
                  \/ Has(x, "IN_PROGRESS")
                  \/ /\ x \in job[d].on
                     /\ job[d].op = "complete" /\ job[d].stage = "announce"
  <2>1. \A e \in Clients : x \in job'[e].on => x \in job[e].on
    BY <1>4, <1>7
  <2>2. x \in Orders \ contended /\ x \in job[d].on
    BY <1>8, <2>1
  <2>3. \A e \in Clients : x \in job'[e].on => d = e
    BY <2>1, <2>2 DEF FateInv, OneRequest
  <2>4. Held(job[d], x, order[x].status)
    BY <2>2 DEF FateInv, RequestHolds
  <2>5. order'[x].status = order[x].status
    <3>1. Exists(x)
      BY <2>2 DEF IInv, OnExisting
    <3> QED
      BY <1>5, <1>6, <2>2, <3>1 DEF RowStays
  <2>6. CASE d = c
    <3>1. j # NoJob
      BY <1>4, <1>8, <2>6 DEF NoJob
    <3>2. Held(j, x, order[x].status)
      BY <2>4, <2>6, <3>1 DEF Held, Saves
    <3> QED
      BY <1>4, <2>3, <2>5, <2>6, <3>1, <3>2
  <2>7. CASE d # c
    BY <1>4, <2>2, <2>3, <2>4, <2>5, <2>7
  <2> QED
    BY <2>6, <2>7
<1>9. \A x \in Orders \ contended' :
        order'[x] # NoOrder /\ Unfinished(order'[x].status) =>
          ~Exists(x) \/ Unfinished(order[x].status)
  BY <1>6
<1>10. contended' = contended /\ announced' = announced /\ merges' = merges
  OBVIOUS
<1> QED
  BY <1>5, <1>8, <1>9, <1>10, FateKeeps

LEMMA RootWriteFate ==
  ASSUME IInv, FateInv, NEW c \in Clients, RootWrite(c)
  PROVE  FateInv'
<1>1. PICK r \in job[c].rows : SaveRow(r)
  BY DEF RootWrite
<1>2. Saves(c)
  BY DEF RootWrite, Saves
<1> QED
  BY <1>1, <1>2, SaveRowFate DEF RootWrite, Done

LEMMA TreeSaveFate ==
  ASSUME IInv, FateInv, NEW c \in Clients, TreeSave(c)
  PROVE  FateInv'
<1>1. PICK r \in job[c].rows :
        /\ SaveRow(r)
        /\ job' = [job EXCEPT ![c] =
             Saving("tree", job[c].rows \ {r}, r.wo, r.level)]
  BY DEF TreeSave
<1> DEFINE j == Saving("tree", job[c].rows \ {r}, r.wo, r.level)
<1>2. /\ j.op = "tree" /\ j.rows \subseteq job[c].rows
      /\ j.on = {x.wo : x \in j.rows}
  BY DEF Saving
<1>3. Saves(c) /\ job' = [job EXCEPT ![c] = j]
  BY <1>1 DEF TreeSave, Saves
<1> HIDE DEF j
<1> QED
  BY <1>1, <1>2, <1>3, SaveRowFate DEF TreeSave

LEMMA TreeFindFate ==
  ASSUME IInv, FateInv, NEW c \in Clients, TreeFind(c)
  PROVE  FateInv'
<1>0. TypeOK
  BY DEF IInv
<1>1. PICK j : /\ job' = [job EXCEPT ![c] = j]
               /\ \/ j = NoJob
                  \/ /\ j \in Job /\ j.op = "tree"
                     /\ j.rows = job[c].rows \cup ChildRows(c)
                     /\ j.on = {r.wo : r \in j.rows}
  BY <1>0, TreeFindFinds
<1>2. /\ contended' = contended \cup (Children(c) \cap TakenBy(c))
      /\ order' = order /\ announced' = announced /\ merges' = merges
  BY DEF TreeFind, Children
<1>3. /\ job'[c] = j
      /\ \A d \in Clients \ {c} : job'[d] = job[d]
  BY <1>0, <1>1 DEF TypeOK
<1>4. Saves(c) /\ RowsHold(job[c])
  BY DEF IInv, TreeFind, Saves, RowsAreOfOrders
<1>5. ASSUME NEW r \in ChildRows(c)
      PROVE  r.wo \in Children(c) /\ r.row = order[r.wo]
  BY DEF ChildRows, AsRead
<1>6. ASSUME NEW x \in Orders \ contended', NEW d \in Clients, x \in job'[d].on
      PROVE  /\ Held(job'[d], x, order'[x].status)
             /\ \A e \in Clients : x \in job'[e].on => d = e
             /\ job'[d].op = "complete" /\ job'[d].stage = "announce" =>
                  \/ Has(x, "IN_PROGRESS")
                  \/ /\ x \in job[d].on
                     /\ job[d].op = "complete" /\ job[d].stage = "announce"
  <2>1. x \in Orders \ contended /\ x \notin Children(c) \cap TakenBy(c)
    BY <1>2
  <2>2. x \in j.on => x \in job[c].on \/ x \in Children(c)
    BY <1>1, <1>4, <1>5 DEF RowsHold, NoJob
  <2>3. x \in j.on => \A e \in Clients \ {c} : x \notin job[e].on
    <3>1. CASE x \in Children(c)
      BY <2>1, <3>1 DEF TakenBy
    <3>2. CASE x \in job[c].on
      BY <2>1, <3>2 DEF FateInv, OneRequest
    <3> QED
      BY <2>2, <3>1, <3>2
  <2>4. CASE d = c
    <3>1. j # NoJob /\ x \in j.on
      BY <1>3, <1>6, <2>4 DEF NoJob
    <3>2. ASSUME NEW r \in j.rows, r.wo = x PROVE r.row.status = order[x].status
      <4>1. CASE r \in ChildRows(c)
        BY <1>5, <3>2, <4>1
      <4>2. CASE r \in job[c].rows
        <5>1. x \in job[c].on
          BY <1>4, <3>2, <4>2 DEF RowsHold
        <5> QED
          BY <1>4, <2>1, <3>2, <4>2, <5>1 DEF FateInv, RequestHolds, Held, Saves
      <4> QED
        BY <1>1, <3>1, <3>2, <4>1, <4>2
    <3>3. Held(j, x, order[x].status)
      BY <1>1, <3>1, <3>2 DEF Held
    <3> QED
      BY <1>1, <1>2, <1>3, <2>3, <2>4, <3>1, <3>3
  <2>5. CASE d # c
    <3>1. job'[d] = job[d] /\ x \in job[d].on /\ x \notin j.on
      BY <1>3, <1>6, <2>3, <2>5
    <3>2. \A e \in Clients : x \in job'[e].on => d = e
      BY <1>3, <2>1, <3>1 DEF FateInv, OneRequest
    <3>3. Held(job[d], x, order[x].status)
      BY <2>1, <3>1 DEF FateInv, RequestHolds
    <3> QED
      BY <1>2, <3>1, <3>2, <3>3
  <2> QED
    BY <2>4, <2>5
<1>7. (\A x \in Orders : RowStays(x)) /\ contended \subseteq contended'
  BY <1>2 DEF RowStays, Exists
<1>8. \A x \in Orders \ contended' :
        order'[x] # NoOrder /\ Unfinished(order'[x].status) =>
          ~Exists(x) \/ Unfinished(order[x].status)
  BY <1>2
<1> QED
  BY <1>2, <1>6, <1>7, <1>8, FateKeeps

LEMMA CompleteWriteFate ==
  ASSUME IInv, FateInv, NEW c \in Clients, NEW w \in Orders, CompleteWrite(c, w)
  PROVE  FateInv'
<1> DEFINE row == [order[w] EXCEPT !.completed = NewCompleted(job[c])]
           j == [op |-> "complete", on |-> {w}, stage |-> "check",
                 seen |-> job[c].seen, qty |-> job[c].qty]
<1>1. /\ Reporting(c, w) /\ job[c].on = {w} /\ job[c].stage = "write"
      /\ order' = [order EXCEPT ![w] = row] /\ job' = [job EXCEPT ![c] = j]
      /\ UNCHANGED <<announced, merges, contended>>
  BY DEF CompleteWrite, Completing, Reporting
<1>2. TypeOK /\ order[w] \in Order /\ (w \notin contended => Held(job[c], w, order[w].status))
  BY <1>1, HeldByOne
<1>3. NewCompleted(job[c]) \in Nat
  BY <1>1, <1>2, ReportingJob DEF NewCompleted
<1>4. /\ row # NoOrder /\ row.planned = order[w].planned
      /\ row.splitOf = order[w].splitOf /\ row.status = order[w].status
  BY <1>2, <1>3, CompletedRow, OriginStays
<1>5. w \notin contended => Held(j, w, row.status)
  BY <1>1, <1>2, <1>4 DEF Held, Reporting
<1>6. j.on = {w} /\ j.stage # "announce"
  OBVIOUS
<1> HIDE DEF row, j
<1>7. w \notin contended /\ w \in j.on =>
        /\ Held(j, w, row.status)
        /\ j.op = "complete" /\ j.stage = "announce" => Has(w, "IN_PROGRESS")
  BY <1>5, <1>6
<1>8. Unfinished(row.status) => Unfinished(order[w].status)
  BY <1>4
<1>9. j.on \subseteq {w}
  BY <1>6
<1> QED
  BY <1>1, <1>4, <1>7, <1>8, <1>9, RowFate

LEMMA CompleteCheckFate ==
  ASSUME IInv, FateInv, NEW c \in Clients, NEW w \in Orders, CompleteCheck(c, w)
  PROVE  FateInv'
<1> DEFINE next == [op |-> "complete", on |-> {w}, stage |-> "close",
                    seen |-> order[w].completed, qty |-> job[c].qty]
           j == IF Reached(order[w]) THEN next ELSE NoJob
<1>1. /\ Reporting(c, w) /\ job[c].on = {w} /\ job[c].stage = "check"
      /\ job' = [job EXCEPT ![c] = j]
      /\ order' = order /\ UNCHANGED <<announced, merges, contended>>
  BY DEF CompleteCheck, Completing, Reporting
<1>2. /\ TypeOK /\ Exists(w) /\ order[w] \in Order
      /\ w \notin contended => Held(job[c], w, order[w].status)
  BY <1>1, HeldByOne
<1>3. order' = [order EXCEPT ![w] = order[w]]
  BY <1>1, <1>2 DEF TypeOK
<1>4. next.on = {w} /\ next.stage # "announce" /\ NoJob.on = {}
  BY DEF NoJob
<1>5. w \notin contended => Held(next, w, order[w].status)
  BY <1>1, <1>2 DEF Held, Reporting
<1>6. /\ j.on \subseteq {w}
      /\ w \in j.on => j.stage # "announce" /\ (w \notin contended => Held(j, w, order[w].status))
  BY <1>4, <1>5
<1> DEFINE row == order[w]
<1>7. w \notin contended /\ w \in j.on =>
        /\ Held(j, w, row.status)
        /\ j.op = "complete" /\ j.stage = "announce" => Has(w, "IN_PROGRESS")
  BY <1>6
<1>8. /\ row # NoOrder /\ row.planned = order[w].planned
      /\ row.splitOf = order[w].splitOf
      /\ Unfinished(row.status) => Unfinished(order[w].status)
  BY <1>2 DEF Exists
<1>9. order' = [order EXCEPT ![w] = row] /\ j.on \subseteq {w}
  BY <1>3, <1>6
<1> HIDE DEF next, j, row
<1> QED
  BY ZenonT(60), <1>1, <1>7, <1>8, <1>9, RowFate

LEMMA CompleteCloseFate ==
  ASSUME IInv, FateInv, NEW c \in Clients, NEW w \in Orders, CompleteClose(c, w)
  PROVE  FateInv'
<1> DEFINE row == WithStatus(order[w], "COMPLETED")
           j == [op |-> "complete", on |-> {w}, stage |-> "announce",
                 seen |-> job[c].seen, qty |-> job[c].qty]
<1>1. /\ Reporting(c, w) /\ job[c].on = {w} /\ job[c].stage = "close"
      /\ order' = [order EXCEPT ![w] = row] /\ job' = [job EXCEPT ![c] = j]
      /\ UNCHANGED <<announced, merges, contended>>
  BY DEF CompleteClose, Completing, Reporting
<1>2. /\ Exists(w) /\ order[w] \in Order
      /\ w \notin contended => Held(job[c], w, order[w].status)
  BY <1>1, HeldByOne
<1>3. "COMPLETED" \in Status
  BY DEF Status
<1>4. /\ row # NoOrder /\ row.planned = order[w].planned
      /\ row.splitOf = order[w].splitOf /\ row.status = "COMPLETED"
  BY <1>2, <1>3, StatusRow, OriginStays
<1>5. w \notin contended => Has(w, "IN_PROGRESS")
  BY <1>1, <1>2 DEF Held, Reporting, Has
<1>6. Held(j, w, row.status)
  BY <1>4 DEF Held
<1>7. j.on = {w} /\ ~Unfinished(row.status)
  BY <1>4 DEF Unfinished
<1> HIDE DEF row, j
<1>8. w \notin contended /\ w \in j.on =>
        /\ Held(j, w, row.status)
        /\ j.op = "complete" /\ j.stage = "announce" => Has(w, "IN_PROGRESS")
  BY <1>5, <1>6
<1>9. j.on \subseteq {w} /\ (Unfinished(row.status) => Unfinished(order[w].status))
  BY <1>7
<1> QED
  BY <1>1, <1>4, <1>8, <1>9, RowFate
LEMMA CancelCommitFate ==
  ASSUME IInv, FateInv, NEW c \in Clients, CancelCommit(c)
  PROVE  FateInv'
<1>0. TypeOK
  BY DEF IInv
<1>1. /\ Done(c) /\ UNCHANGED <<announced, merges, contended>>
      /\ \A x \in job[c].on : Exists(x)
      /\ \A x \in Orders : order'[x] =
           IF x \in job[c].on THEN WithStatus(order[x], "CANCELLED") ELSE order[x]
  BY DEF CancelCommit, Cancellable, Has
<1>2. "CANCELLED" \in Status /\ ~Unfinished("CANCELLED") /\ job[c].on \subseteq Orders
  BY <1>0, OnOrders DEF Status, Unfinished
<1>3. \A x \in job[c].on : /\ order'[x] # NoOrder /\ order'[x].status = "CANCELLED"
                           /\ order'[x].planned = order[x].planned
                           /\ order'[x].splitOf = order[x].splitOf
  BY <1>0, <1>1, <1>2, RowOfExisting, StatusRow, OriginStays
<1>4. \A x \in Orders : RowStays(x)
  BY <1>1, <1>3 DEF RowStays, Exists
<1> QED
  BY <1>1, <1>2, <1>3, <1>4, EndFate

LEMMA AbortFate ==
  ASSUME IInv, FateInv, NEW c \in Clients, Abort(c)
  PROVE  FateInv'
<1>1. (\A x \in Orders : RowStays(x)) /\ job[c].on \subseteq Orders
  BY OnOrders DEF Abort, RowStays, Exists, IInv
<1> QED
  BY <1>1, EndFate DEF Abort

(***************************************************************************)
(* A request that ends by giving its orders their fate leaves them         *)
(* finished, and the fates of all others as they were.                     *)
(***************************************************************************)
LEMMA FateGiven ==
  ASSUME IInv, FateInv, NEW c \in Clients, Done(c), contended' = contended,
         PartsAddUp', OriginsExist', SourcesExist',
         \A x \in Orders \ job[c].on :
           /\ announced'[x] = announced[x]
           /\ MergesOf(x)' = MergesOf(x) /\ PartsIn(x)' = PartsIn(x)
           /\ Exists(x) => order'[x] = order[x],
         \A x \in job[c].on \ contended :
           FateIsOne(x)' /\ ~Unfinished(order'[x].status)
  PROVE  FateInv'
<1>0. TypeOK /\ OnExisting
  BY DEF IInv
<1>1. job'[c] = NoJob /\ \A d \in Clients \ {c} : job'[d] = job[d]
  BY <1>0 DEF Done, TypeOK
<1>2. \A d \in Clients : \A x \in job'[d].on : d # c /\ job'[d] = job[d]
  BY <1>1 DEF NoJob
<1>3. \A x \in Orders \ job[c].on : (Open(x)' <=> Open(x)) /\ (FateIsOne(x)' <=> FateIsOne(x))
  BY DEF Open, FateIsOne
<1>4. OneRequest'
  BY <1>2 DEF FateInv, OneRequest
<1>5. RequestHolds'
  <2> SUFFICES ASSUME NEW x \in Orders \ contended, NEW d \in Clients, x \in job'[d].on
               PROVE  /\ Held(job'[d], x, order'[x].status)
                      /\ job'[d].op = "complete" /\ job'[d].stage = "announce" => Open(x)'
    BY DEF RequestHolds, Held
  <2>1. d # c /\ job'[d] = job[d] /\ x \in job[d].on
    BY <1>2
  <2>2. x \notin job[c].on
    BY <2>1 DEF FateInv, OneRequest
  <2>3. order'[x] = order[x]
    BY <1>0, <2>1, <2>2 DEF OnExisting
  <2>4. /\ Held(job[d], x, order[x].status)
        /\ job[d].op = "complete" /\ job[d].stage = "announce" => Open(x)
    BY <2>1 DEF FateInv, RequestHolds
  <2> QED
    BY <1>3, <2>1, <2>2, <2>3, <2>4
<1>6. UnfinishedIsOpen'
  <2> SUFFICES ASSUME NEW x \in Orders \ contended, Exists(x)', Unfinished(order'[x].status)
               PROVE  Open(x)'
    BY DEF UnfinishedIsOpen, Unfinished
  <2>1. x \notin job[c].on
    OBVIOUS
  <2>2. Open(x)
    <3>1. CASE Exists(x)
      BY <2>1, <3>1 DEF FateInv, UnfinishedIsOpen
    <3>2. CASE ~Exists(x)
      BY <3>2, NewIsOpen
    <3> QED
      BY <3>1, <3>2
  <2> QED
    BY <1>3, <2>1, <2>2
<1>7. \A x \in Orders \ contended : FateIsOne(x)'
  BY <1>3 DEF FateInv
<1> QED
  BY <1>4, <1>5, <1>6, <1>7 DEF FateInv

LEMMA CompleteAnnounceFate ==
  ASSUME IInv, FateInv, NEW c \in Clients, NEW w \in Orders, CompleteAnnounce(c, w)
  PROVE  FateInv'
<1>1. /\ Reporting(c, w) /\ job[c].on = {w} /\ job[c].stage = "announce"
      /\ announced' = [announced EXCEPT ![w] = Append(announced[w], job[c].seen)]
      /\ Done(c) /\ UNCHANGED <<order, merges, contended>>
  BY DEF CompleteAnnounce, Completing, Reporting
<1>2. TypeOK /\ (w \notin contended => Held(job[c], w, order[w].status))
  BY <1>1, HeldByOne
<1>3. job[c].seen \in Nat
  BY <1>1, <1>2, ReportingJob
<1>4. /\ announced'[w] = Append(announced[w], job[c].seen)
      /\ \A x \in Orders \ {w} : announced'[x] = announced[x]
  BY <1>1, <1>2 DEF TypeOK
<1>5. \A x \in Orders : PartsIn(x)' = PartsIn(x) /\ MergesOf(x)' = MergesOf(x)
  BY <1>1 DEF PartsIn, MergesOf, Exists
<1>6. PartsAddUp' /\ OriginsExist' /\ SourcesExist'
  <2>1. \A x \in Orders : RowStays(x)
    BY <1>1 DEF RowStays, Exists
  <2>2. SourcesExist'
    BY <1>1 DEF FateInv, SourcesExist, Exists
  <2> QED
    BY <2>1, <2>2, PartsStay DEF FateInv
<1>7. ASSUME w \notin contended
      PROVE  FateIsOne(w)' /\ ~Unfinished(order'[w].status)
  <2>1. Open(w) /\ order[w].status = "COMPLETED"
    BY <1>1, <1>2, <1>7 DEF FateInv, RequestHolds, Held, Reporting
  <2>2. Len(announced'[w]) = 1
    BY <1>3, <1>4, <2>1 DEF Open
  <2> QED
    BY <1>1, <1>5, <2>1, <2>2 DEF Open, FateIsOne, Unfinished
<1> QED
  BY <1>1, <1>4, <1>5, <1>6, <1>7, FateGiven

LEMMA MergeCommitFate ==
  ASSUME IInv, FateInv, NEW c \in Clients, MergeCommit(c)
  PROVE  FateInv'
<1>0. TypeOK /\ OnExisting
  BY DEF IInv
<1> DEFINE sources == job[c].on
<1>1. PICK t \in Unused, planned \in Nat :
        /\ order' = [x \in Orders |->
             IF x = t THEN NewOrder(planned, NoOrder, NoOrder)
                      ELSE SourceClosed(x, sources)]
        /\ merges' = merges \cup {[target |-> t, sources |-> sources]}
  BY DEF MergeCommit
<1>2. /\ job[c].op = "merge" /\ Done(c)
      /\ UNCHANGED <<announced, contended>>
  BY DEF MergeCommit
<1>3. t \in Orders /\ ~Exists(t) /\ sources \subseteq Orders /\ \A x \in sources : Exists(x)
  BY <1>0, OnOrders DEF Unused, OnExisting
<1> DEFINE m == [target |-> t, sources |-> sources]
<1>4. m.sources = sources /\ merges' = merges \cup {m}
  BY <1>1
<1> HIDE DEF m
<1>5. \A x \in sources : order'[x] = WithStatus(order[x], "CLOSED")
  BY <1>1, <1>3 DEF SourceClosed
<1>6. /\ order'[t] = NewOrder(planned, NoOrder, NoOrder)
      /\ \A x \in Orders \ sources : x # t => order'[x] = order[x]
  BY <1>1, <1>3 DEF SourceClosed
<1>7. "CLOSED" \in Status /\ ~Unfinished("CLOSED")
  BY DEF Status, Unfinished
<1>8. \A x \in sources : /\ order'[x] # NoOrder /\ order'[x].status = "CLOSED"
                         /\ order'[x].planned = order[x].planned
                         /\ order'[x].splitOf = order[x].splitOf
  BY <1>0, <1>3, <1>5, <1>7, RowOfExisting, StatusRow, OriginStays
<1>9. order'[t] # NoOrder /\ order'[t].splitOf = NoOrder
  BY <1>6, NewRow DEF NewOrder
<1>10. \A x \in Orders : RowStays(x)
  BY <1>3, <1>6, <1>8, <1>9 DEF RowStays, Exists
<1>11. PartsAddUp' /\ OriginsExist' /\ \A x \in Orders : PartsIn(x)' = PartsIn(x)
  BY <1>10, PartsStay, NoOrderAssumption DEF FateInv
<1>12. \A x \in Orders \ sources : MergesOf(x)' = MergesOf(x)
  BY <1>4 DEF MergesOf
<1>13. SourcesExist'
  <2> SUFFICES ASSUME NEW k \in merges', NEW x \in k.sources PROVE Exists(x)'
    BY DEF SourcesExist
  <2>1. x \in Orders /\ Exists(x)
    BY <1>0, <1>3, <1>4 DEF FateInv, SourcesExist, TypeOK
  <2> QED
    BY <1>10, <2>1 DEF RowStays, Exists
<1>14. ASSUME NEW x \in sources \ contended PROVE FateIsOne(x)'
  <2>1. Held(job[c], x, order[x].status)
    BY <1>3 DEF FateInv, RequestHolds
  <2>2. Open(x)
    BY <1>2, <1>3, <2>1 DEF FateInv, UnfinishedIsOpen, Unfinished, Held
  <2>3. MergesOf(x)' = {m}
    BY <1>4, <2>2 DEF MergesOf, Open
  <2> QED
    BY <1>2, <1>3, <1>11, <2>2, <2>3 DEF Open, FateIsOne
<1>15. \A x \in Orders \ sources : Exists(x) => order'[x] = order[x]
  BY <1>3, <1>6
<1>16. \A x \in sources : ~Unfinished(order'[x].status)
  BY <1>7, <1>8
<1> QED
  BY <1>2, <1>11, <1>12, <1>13, <1>14, <1>15, <1>16, FateGiven
LEMMA SplitCommitFate ==
  ASSUME IInv, FateInv, NEW c \in Clients, NEW w \in Orders, SplitCommit(c, w)
  PROVE  FateInv'
<1>0. job[c].op = "split" /\ job[c].on = {w} /\ ~NumberTaken(w)
  BY DEF SplitCommit
<1>1. /\ TypeOK /\ Exists(w) /\ order[w] \in Order
      /\ w \notin contended => Held(job[c], w, order[w].status)
  BY <1>0, HeldByOne
<1>2. Done(c) /\ UNCHANGED <<merges, announced, contended>>
  BY DEF SplitCommit
<1> PICK S \in SUBSET Unused : \E part \in [S -> 1..order[w].planned] :
      /\ SumFunction(part) = order[w].planned
      /\ order' = [x \in Orders |->
           CASE x \in S -> NewOrder(part[x], w, w)
             [] x = w   -> WithStatus(order[w], "CLOSED")
             [] OTHER   -> order[x]]
  BY DEF SplitCommit
<1>3. PICK part \in [S -> 1..order[w].planned] :
        /\ SumFunction(part) = order[w].planned
        /\ order' = [x \in Orders |->
             CASE x \in S -> NewOrder(part[x], w, w)
               [] x = w   -> WithStatus(order[w], "CLOSED")
               [] OTHER   -> order[x]]
  OBVIOUS
<1>4. \A x \in S : x \in Orders /\ ~Exists(x) /\ part[x] \in Nat
  BY <1>1, <1>3 DEF Unused, Order
<1>5. w \notin S
  BY <1>1, <1>4
<1>6. /\ \A x \in S : order'[x] = NewOrder(part[x], w, w)
      /\ order'[w] = WithStatus(order[w], "CLOSED")
      /\ \A x \in Orders \ S : x # w => order'[x] = order[x]
  BY <1>3, <1>4, <1>5
<1>7. \A x \in S : /\ order'[x] # NoOrder
                   /\ order'[x].planned = part[x] /\ order'[x].splitOf = w
  <2> TAKE x \in S
  <2>1. order'[x] = NewOrder(part[x], w, w) /\ part[x] \in Nat
    BY <1>4, <1>6
  <2>2. NewOrder(part[x], w, w) # NoOrder
    BY <2>1, NewRow
  <2>3. /\ NewOrder(part[x], w, w).planned = part[x]
        /\ NewOrder(part[x], w, w).splitOf = w
    BY DEF NewOrder
  <2> QED
    BY <2>1, <2>2, <2>3
<1>8. "CLOSED" \in Status /\ ~Unfinished("CLOSED")
  BY DEF Status, Unfinished
<1>9. /\ order'[w] # NoOrder /\ order'[w].status = "CLOSED"
      /\ order'[w].planned = order[w].planned /\ order'[w].splitOf = order[w].splitOf
  BY <1>1, <1>6, <1>8, StatusRow, OriginStays
<1>10. PartsIn(w) = {}
  BY <1>0 DEF NumberTaken, PartsIn
<1>11. PartsIn(w)' = S
  <2>1. \A x \in Orders \ S : ~(order'[x] # NoOrder /\ order'[x].splitOf = w)
    BY <1>1, <1>6, <1>9, <1>10 DEF PartsIn, Exists
  <2> QED
    BY <1>4, <1>7, <2>1 DEF PartsIn, Exists
<1>12. ASSUME NEW y \in Orders, y # w PROVE PartsIn(y)' = PartsIn(y)
  <2>1. ASSUME NEW x \in Orders
        PROVE  order'[x] # NoOrder /\ order'[x].splitOf = y <=>
               order[x] # NoOrder /\ order[x].splitOf = y
    BY <1>1, <1>4, <1>6, <1>7, <1>9, <1>12 DEF Exists
  <2> QED
    BY <2>1 DEF PartsIn, Exists
<1>13. PartsAddUp'
  <2> SUFFICES ASSUME NEW y \in Orders, PartsIn(y)' # {}
               PROVE  SumFunction([x \in PartsIn(y)' |-> order'[x].planned])
                        = order'[y].planned
    BY DEF PartsAddUp
  <2>1. CASE y = w
    <3>1. [x \in S |-> order'[x].planned] = part
      BY <1>3, <1>7
    <3> QED
      BY <1>3, <1>9, <1>11, <2>1, <3>1
  <2>2. CASE y # w
    <3>1. PartsIn(y)' = PartsIn(y)
      BY <1>12, <2>2
    <3>2. \A x \in PartsIn(y) : order'[x].planned = order[x].planned
      BY <1>4, <1>6, <1>9 DEF PartsIn
    <3>3. [x \in PartsIn(y)' |-> order'[x].planned] = [x \in PartsIn(y) |-> order[x].planned]
      BY <3>1, <3>2
    <3>4. Exists(y)
      BY <3>1 DEF FateInv, OriginsExist, PartsIn
    <3>5. order'[y].planned = order[y].planned
      BY <1>4, <1>6, <2>2, <3>4
    <3> QED
      BY <3>1, <3>3, <3>5 DEF FateInv, PartsAddUp
  <2> QED
    BY <2>1, <2>2
<1>14. \A x \in Orders : Exists(x) => order'[x] # NoOrder
  BY <1>4, <1>6, <1>9 DEF Exists
<1>15. OriginsExist'
  <2> SUFFICES ASSUME NEW x \in Orders, order'[x] # NoOrder, order'[x].splitOf \in Orders
               PROVE  order'[order'[x].splitOf] # NoOrder
    BY DEF OriginsExist, Exists
  <2>1. CASE x \in S
    BY <1>7, <1>9, <2>1
  <2>2. CASE x \notin S
    <3>1. Exists(x) /\ order'[x].splitOf = order[x].splitOf
      BY <1>1, <1>6, <1>9, <2>2 DEF Exists
    <3> QED
      BY <1>14, <3>1 DEF FateInv, OriginsExist
  <2> QED
    BY <2>1, <2>2
<1>16. SourcesExist'
  BY <1>1, <1>2, <1>14 DEF FateInv, SourcesExist, Exists, TypeOK
<1>17. \A x \in Orders : MergesOf(x)' = MergesOf(x)
  BY <1>2 DEF MergesOf
<1>18. ASSUME w \notin contended PROVE FateIsOne(w)'
  <2>1. Open(w)
    BY <1>0, <1>1, <1>18 DEF FateInv, UnfinishedIsOpen, Unfinished, Held
  <2> QED
    BY <1>2, <1>17, <2>1 DEF Open, FateIsOne
<1>19. \A x \in Orders \ {w} : Exists(x) => order'[x] = order[x]
  BY <1>4, <1>6
<1> QED
  BY <1>0, <1>2, <1>8, <1>9, <1>12, <1>13, <1>15, <1>16, <1>17, <1>18, <1>19, FateGiven

-----------------------------------------------------------------------------
LEMMA NextFate == IInv /\ FateInv /\ [Next]_vars => FateInv'
<1> SUFFICES ASSUME IInv, FateInv, [Next]_vars PROVE FateInv'
  OBVIOUS
<1>1. ASSUME NEW w \in Orders, NEW n \in Quantities,
             NEW p \in Orders \cup {NoOrder}, Release(w, n, p)
      PROVE  FateInv'
  BY <1>1, ReleaseFate DEF Release
<1>2. ASSUME NEW c \in Clients, NEW w \in Orders, NEW n \in Quantities,
             NEW p \in Orders \cup {NoOrder}, ReleaseRoot(c, w, n, p)
      PROVE  FateInv'
  BY <1>2, ReleaseFate DEF ReleaseRoot
<1>3. ASSUME NEW c \in Clients, NEW w \in Orders,
             \/ StartRead(c, w)
             \/ \E to \in Status : TransitionRead(c, w, to)
             \/ \E n \in Reports : CompleteRead(c, w, n)
             \/ SplitRead(c, w) \/ CancelRead(c, w)
             \/ \E p \in Orders \cup {NoOrder} : MoveRead(c, w, p)
      PROVE  FateInv'
  BY <1>3, ReadsFate
<1>4. ASSUME NEW c \in Clients, NEW S \in SUBSET Orders, MergeRead(c, S)
      PROVE  FateInv'
  BY <1>4, ReadsFate
<1>5. ASSUME NEW c \in Clients, NEW w \in Orders,
             \/ StatusWrite(c, w) \/ CompleteWrite(c, w)
             \/ CompleteCheck(c, w) \/ CompleteClose(c, w)
             \/ CompleteAnnounce(c, w) \/ SplitCommit(c, w)
      PROVE  FateInv'
  BY <1>5, StatusWriteFate, CompleteWriteFate,
     CompleteCheckFate, CompleteCloseFate, CompleteAnnounceFate, SplitCommitFate
<1>6. ASSUME NEW c \in Clients,
             \/ MergeCommit(c) \/ CancelCommit(c) \/ Abort(c)
             \/ RootWrite(c) \/ TreeSave(c) \/ TreeFind(c)
      PROVE  FateInv'
  BY <1>6, MergeCommitFate, CancelCommitFate, AbortFate, RootWriteFate,
     TreeSaveFate, TreeFindFate
<1>7. CASE UNCHANGED vars
  <2>1. /\ order' = order /\ job' = job /\ merges' = merges
        /\ announced' = announced /\ contended' = contended
    BY <1>7 DEF vars
  <2>2. \A x \in Orders : RowStays(x)
    BY <2>1 DEF RowStays, Exists
  <2>3. ASSUME NEW w \in Orders \ contended', NEW c \in Clients, w \in job'[c].on
        PROVE  /\ Held(job'[c], w, order'[w].status)
               /\ \A d \in Clients : w \in job'[d].on => c = d
    BY <2>1, <2>3 DEF FateInv, RequestHolds, OneRequest
  <2>4. \A w \in Orders \ contended' :
          order'[w] # NoOrder /\ Unfinished(order'[w].status) =>
            ~Exists(w) \/ Unfinished(order[w].status)
    BY <2>1
  <2> QED
    BY <2>1, <2>2, <2>3, <2>4, FateKeeps
<1> QED
  BY <1>1, <1>2, <1>3, <1>4, <1>5, <1>6, <1>7 DEF Next

LEMMA FateIsOneFate == TypeOK /\ FateInv => OneFate
<1> SUFFICES ASSUME TypeOK, FateInv PROVE OneFate
  OBVIOUS
<1>1. ASSUME NEW w \in Orders \ contended
      PROVE  Len(announced[w]) + Cardinality(MergesOf(w))
               + (IF PartsIn(w) # {} THEN 1 ELSE 0) <= 1
  <2>1. announced[w] = <<>> => Len(announced[w]) = 0
    OBVIOUS
  <2>2. MergesOf(w) = {} => Cardinality(MergesOf(w)) = 0
    BY FS_EmptySet
  <2>3. ASSUME NEW m, MergesOf(w) = {m} PROVE Cardinality(MergesOf(w)) = 1
    BY <2>3, FS_Singleton
  <2>4. FateIsOne(w)
    BY DEF FateInv
  <2>5. CASE announced[w] = <<>> /\ PartsIn(w) = {} /\ \E m : MergesOf(w) = {m}
    <3>1. Cardinality(MergesOf(w)) = 1
      BY Zenon, <2>3, <2>5
    <3> QED
      BY <2>1, <2>5, <3>1
  <2>6. CASE announced[w] = <<>> /\ MergesOf(w) = {}
    BY <2>1, <2>2, <2>6
  <2>7. CASE Len(announced[w]) = 1 /\ MergesOf(w) = {} /\ PartsIn(w) = {}
    BY <2>2, <2>7
  <2> QED
    BY <2>4, <2>5, <2>6, <2>7 DEF FateIsOne, Open
<1> QED
  BY <1>1 DEF OneFate, FateInv, PartsAddUp, MergesOf, PartsIn

\* The parts of an order make up its quantity, for any number of splits at
\* the same time; and an order that no two requests worked on at the same
\* time is announced, or split, or merged, and that once.
THEOREM QuantityHasOneFate == Spec => []OneFate
<1>1. IInv /\ FateInv => OneFate
  BY FateIsOneFate DEF IInv
<1>2. Spec => []FateInv
  BY InitFate, NextFate, InvariantHolds, PTL DEF Spec
<1> QED
  BY <1>1, <1>2, InvariantHolds, PTL
=============================================================================
