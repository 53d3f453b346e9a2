----------------------------- MODULE SpareParts -----------------------------
(***************************************************************************)
(* The stock of one spare part and its transactions (SparePartService).    *)
(*                                                                         *)
(* A request reads the part, checks the stock, saves the part as it has    *)
(* read it, and books a transaction in a statement of its own.  An         *)
(* application is a transaction that waits for approval: the approval      *)
(* looks at it, takes the stock and marks it.  An edit of other columns    *)
(* saves the stock along with them.  The reorder message, which changes    *)
(* nothing here, is left out.                                              *)
(*                                                                         *)
(* partLate, partTorn and approvedTwice are history: whether the part was  *)
(* saved while another request had read it, whether a request died between *)
(* its two saves, and the applications that two requests approved at once. *)
(***************************************************************************)
EXTENDS Requests

CONSTANTS Applications,  \* applications for the part
          MaxQty         \* bound: quantity of a request

ASSUME ApplicationsAssumption == IsFiniteSet(Applications)
ASSUME MaxQtyAssumption == MaxQty \in Nat

VARIABLES stock, booked, application, partLate, partTorn, approvedTwice

partDocs == <<stock, booked, application>>
partData == <<partDocs, partLate, partTorn, approvedTwice>>
partVars == <<partData, reqVars>>

-----------------------------------------------------------------------------
Application == [status : {"none", "pending", "approved"}, qty : Nat]

PartInit ==
  /\ stock = 0
  /\ booked = 0
  /\ application = [a \in Applications |-> [status |-> "none", qty |-> 0]]
  /\ partLate = FALSE /\ partTorn = FALSE /\ approvedTwice = {}

\* Client c has read the part and saves it with this stock; qty is what the
\* transaction will book, and of the application it is for, if any.
Saving(op, on, qty, after) ==
  [op |-> op, stage |-> "save", on |-> on, qty |-> qty, stock |-> after]
HasRead(c) == job[c].op # "none" /\ job[c].stage = "save"

\* Variant: the stock is not looked at
InStockAlways(q) == TRUE

InStock(q) == stock >= q

-----------------------------------------------------------------------------
(* issue, receive, update *)

IssuePart(c, q) ==
  /\ InStock(q)
  /\ Accept(c, Saving("part", "none", 0 - q, stock - q))
  /\ UNCHANGED partData

ReceivePart(c, q) ==
  /\ Accept(c, Saving("part", "none", q, stock + q))
  /\ UNCHANGED partData

\* update: a transaction of nothing, which is not booked
EditPart(c) ==
  /\ Accept(c, Saving("edit", "none", 0, stock))
  /\ UNCHANGED partData

-----------------------------------------------------------------------------
(* applyIssue, approveIssue *)

ApplyPart(a, q) ==
  /\ application[a].status = "none"
  /\ Once
  /\ application' = [application EXCEPT ![a] = [status |-> "pending", qty |-> q]]
  /\ UNCHANGED <<stock, booked, partLate, partTorn, approvedTwice>>

Approving(c, a) == job[c].op = "approve" /\ job[c].on = a

ApprovePart(c, a) ==
  /\ application[a].status = "pending"
  /\ Accept(c, [op |-> "approve", stage |-> "read", on |-> a])
  /\ approvedTwice' = IF \E d \in Clients : Approving(d, a)
                      THEN approvedTwice \cup {a} ELSE approvedTwice
  /\ UNCHANGED <<partDocs, partLate, partTorn>>

ApprovePartRead(c) ==
  /\ At(c, "approve", "read")
  /\ LET a == job[c].on  q == application[a].qty
     IN IF InStock(q) THEN Continue(c, Saving("approve", a, 0 - q, stock - q))
                      ELSE Reply(c)
  /\ UNCHANGED partData

-----------------------------------------------------------------------------
(* The two saves *)

SavePart(c) ==
  /\ HasRead(c)
  /\ stock' = job[c].stock
  /\ partLate' = (partLate \/ \E d \in Clients \ {c} : HasRead(d))
  /\ IF job[c].op = "edit" THEN Reply(c)
     ELSE Continue(c, [job[c] EXCEPT !.stage = "book"])
  /\ UNCHANGED <<booked, application, partTorn, approvedTwice>>

BookPart(c) ==
  /\ At(c, "part", "book")
  /\ booked' = booked + job[c].qty
  /\ Reply(c)
  /\ UNCHANGED <<stock, application, partLate, partTorn, approvedTwice>>

\* Variant: the mark of a waiting application stays on it
MarkedStill(app) == app

Marked(app) == [app EXCEPT !.status = "approved"]

BookApproved(c) ==
  /\ At(c, "approve", "book")
  /\ application' = [application EXCEPT ![job[c].on] = Marked(application[job[c].on])]
  /\ Reply(c)
  /\ UNCHANGED <<stock, booked, partLate, partTorn, approvedTwice>>

PartDie(c) ==
  /\ job[c] # NoJob
  /\ partTorn' = (partTorn \/ job[c].stage = "book")
  /\ Reply(c)
  /\ UNCHANGED <<partDocs, partLate, approvedTwice>>

PartNext ==
  \/ \E c \in Clients :
       \/ \E q \in 1..MaxQty : IssuePart(c, q) \/ ReceivePart(c, q)
       \/ EditPart(c)
       \/ \E a \in Applications : ApprovePart(c, a)
       \/ ApprovePartRead(c) \/ SavePart(c) \/ BookPart(c) \/ BookApproved(c)
       \/ PartDie(c)
  \/ \E a \in Applications, q \in 1..MaxQty : ApplyPart(a, q)

PartSpec == ReqInit /\ PartInit /\ [][PartNext]_partVars

-----------------------------------------------------------------------------
PartTypeOK ==
  /\ stock \in Nat
  /\ booked \in Int
  /\ application \in [Applications -> Application]
  /\ partLate \in BOOLEAN /\ partTorn \in BOOLEAN /\ approvedTwice \subseteq Applications

\* Quantities taken by approved applications, and those of transactions whose
\* part is saved and that are not booked yet.
TakenBy(app) == IF app.status = "approved" THEN app.qty ELSE 0
Taken == SumFunction([a \in Applications |-> TakenBy(application[a])])

ToBook(j) == IF j.op # "none" /\ j.stage = "book" THEN j.qty ELSE 0
Unbooked == SumFunction([c \in Clients |-> ToBook(job[c])])

(***************************************************************************)
(* The stock is the sum of the transactions, but for those about to be     *)
(* booked; unless a request saved the part over what another one had       *)
(* changed, died between its two saves, or two approved one application.   *)
(***************************************************************************)
StockIsBooked ==
  ~partLate /\ ~partTorn /\ approvedTwice = {} => stock = booked - Taken + Unbooked
=============================================================================
