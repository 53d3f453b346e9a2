----------------------------- MODULE Purchasing -----------------------------
(***************************************************************************)
(* A purchase order, the receipts of its goods, the credit of received     *)
(* quantities through the bus, and the incoming inspections                *)
(* (PurchaseOrderService, ReceiptService, ScmEventService,                 *)
(* QmsEventService, InspectionService).                                    *)
(*                                                                         *)
(* A receipt is confirmed in one statement; then the subscribers of its    *)
(* two events run in the same request.  The first credits the items one by *)
(* one, in a transaction each, and is delivered again as a whole when it   *)
(* fails.  The second creates an inspection for each item; its retry never *)
(* succeeds, since it needs the tenant of the request (see EventBus).      *)
(*                                                                         *)
(* credits, poTorn, decidedTwice, lateItems and latePo are history: how    *)
(* often an item was credited, receipts whose credit failed or died midway *)
(* or that two requests decided on, and the lines and the order written    *)
(* while another request had read them.                                    *)
(***************************************************************************)
EXTENDS Requests

CONSTANTS PoLines,     \* the lines of the order
          Receipts,    \* receipts for the order
          Confirmed,   \* [Receipts -> Seq([line : PoLines, qty : Nat])]
          PoOrdered    \* quantities a line may be ordered in, or changed to

ASSUME ReceiptsAssumption == IsFiniteSet(Receipts)
ASSUME ConfirmedAssumption ==
  Confirmed \in [Receipts -> Seq([line : PoLines, qty : Nat \ {0}])]
ASSUME PoOrderedAssumption == PoOrdered \subseteq Nat \ {0}

VARIABLES po, poLine, receipt, redeliver, inspected,
          credits, poTorn, decidedTwice, lateItems, latePo

poDocs == <<po, poLine, receipt, redeliver, inspected>>
poHistory == <<credits, poTorn, decidedTwice, lateItems, latePo>>
poData == <<poDocs, poHistory>>
poVars == <<poData, reqVars>>

-----------------------------------------------------------------------------
PoStatus == {"DRAFT", "CONFIRMED", "PARTIAL", "RECEIVED"}
PoLineStatus == {"OPEN", "PARTIAL", "CLOSED"}
ReceiptStatus == {"none", "PENDING", "INSPECTING", "ACCEPTED", "REJECTED"}
PoLine == [quantity : Nat, received : Nat, status : PoLineStatus]

PoInit ==
  /\ po = "DRAFT"
  /\ poLine \in [PoLines -> {[quantity |-> q, received |-> 0,
                              status |-> "OPEN"] : q \in PoOrdered}]
  /\ receipt = [r \in Receipts |-> "none"]
  /\ redeliver = {}
  /\ inspected = [r \in Receipts |-> 0]
  /\ credits = [r \in Receipts |-> [i \in DOMAIN Confirmed[r] |-> 0]]
  /\ poTorn = {} /\ decidedTwice = {} /\ lateItems = {} /\ latePo = FALSE

\* The requests that have read the order and are going to write it.
PoReaders == {c \in Clients : At(c, "confirmPo", "write")
                              \/ At(c, "receive", "credit")}

-----------------------------------------------------------------------------
(* The order *)

ConfirmPo(c) ==
  /\ po = "DRAFT"
  /\ Accept(c, [op |-> "confirmPo", stage |-> "write"])
  /\ UNCHANGED poData

ConfirmPoWrite(c) ==
  /\ At(c, "confirmPo", "write")
  /\ po' = "CONFIRMED"
  /\ latePo' = (latePo \/ po # "DRAFT" \/ PoReaders # {c})
  /\ Reply(c)
  /\ UNCHANGED <<poLine, receipt, redeliver, inspected, credits, poTorn,
                 decidedTwice, lateItems>>

ChangePo(c, l, q) ==
  /\ po \in {"CONFIRMED", "PARTIAL"}
  /\ Accept(c, [op |-> "changePo", stage |-> "write", line |-> l, qty |-> q])
  /\ UNCHANGED poData

\* The status of the line stays as it is.
ChangePoWrite(c) ==
  /\ At(c, "changePo", "write")
  /\ poLine' = [poLine EXCEPT ![job[c].line].quantity = job[c].qty]
  /\ Reply(c)
  /\ UNCHANGED <<po, receipt, redeliver, inspected, poHistory>>

-----------------------------------------------------------------------------
(* Receipts.  Another request may be about to decide on the same one. *)

CreateReceipt(r) ==
  /\ receipt[r] = "none"
  /\ Once
  /\ receipt' = [receipt EXCEPT ![r] = "PENDING"]
  /\ UNCHANGED <<po, poLine, redeliver, inspected, poHistory>>

\* Variant: a receipt that was decided on can be decided on again
DecidableAgain(r) == receipt[r] # "none"

Decidable(r) == receipt[r] = "INSPECTING"

\* startInspection, confirm and reject read the status first.
ReadReceipt(c, r, to) ==
  /\ IF to = "INSPECTING" THEN receipt[r] = "PENDING" ELSE Decidable(r)
  /\ Accept(c, [op |-> "receipt", stage |-> "write", receipt |-> r, to |-> to])
  /\ decidedTwice' =
       IF \E d \in Clients \ {c} :
            At(d, "receipt", "write") /\ job[d].receipt = r
       THEN decidedTwice \cup {r} ELSE decidedTwice
  /\ UNCHANGED <<poDocs, credits, poTorn, lateItems, latePo>>

Crediting(r, i) == [op |-> "receive", stage |-> "item", receipt |-> r, item |-> i]

WriteReceipt(c) ==
  /\ At(c, "receipt", "write")
  /\ LET r == job[c].receipt
     IN /\ receipt' = [receipt EXCEPT ![r] = job[c].to]
        /\ IF job[c].to = "ACCEPTED" THEN Continue(c, Crediting(r, 1))
                                     ELSE Reply(c)
  /\ UNCHANGED <<po, poLine, redeliver, inspected, poHistory>>

-----------------------------------------------------------------------------
(* RECEIPT_PO_UPDATE_REQUEST *)

\* The poller delivers a failed event again, from the first item on.
Redeliver(c, r) ==
  /\ r \in redeliver
  /\ Accept(c, Crediting(r, 1))
  /\ redeliver' = redeliver \ {r}
  /\ UNCHANGED <<po, poLine, receipt, inspected, poHistory>>

\* updateReceivedQty: a transaction reads the order and its lines ...
ReceiveRead(c) ==
  /\ At(c, "receive", "item")
  /\ job[c].item <= Len(Confirmed[job[c].receipt])
  /\ Continue(c, [op |-> "receive", stage |-> "credit",
                  receipt |-> job[c].receipt, item |-> job[c].item,
                  lines |-> poLine, po |-> po])
  /\ UNCHANGED poData

Received(row, q) ==
  [row EXCEPT !.received = row.received + q,
              !.status = IF row.received + q >= row.quantity
                         THEN "CLOSED" ELSE "PARTIAL"]

\* Variant: the status follows from the lines as they were read
PoStatusBefore(j, lines) ==
  IF \A l \in PoLines : j.lines[l].status = "CLOSED" THEN "RECEIVED" ELSE "PARTIAL"

PoStatusAfter(j, lines) ==
  IF \A l \in PoLines : lines[l].status = "CLOSED" THEN "RECEIVED" ELSE "PARTIAL"

\* ... and commits the columns it has changed.
ReceiveWrite(c) ==
  /\ At(c, "receive", "credit")
  /\ LET r == job[c].receipt  n == job[c].item
         i == Confirmed[r][n]
         row == Received(job[c].lines[i.line], i.qty)
         after == PoStatusAfter(job[c], [job[c].lines EXCEPT ![i.line] = row])
     IN /\ poLine' = [poLine EXCEPT ![i.line].received = row.received,
                                    ![i.line].status = row.status]
        /\ po' = IF after = job[c].po THEN po ELSE after
        /\ credits' = [credits EXCEPT ![r][n] = credits[r][n] + 1]
        /\ latePo' = (latePo \/ PoReaders # {c})
        /\ lateItems' =
             IF \E d \in Clients \ {c} : At(d, "receive", "credit")
                  /\ Confirmed[job[d].receipt][job[d].item].line = i.line
             THEN lateItems \cup {i.line} ELSE lateItems
        /\ Continue(c, Crediting(r, n + 1))
  /\ UNCHANGED <<receipt, redeliver, inspected, poTorn, decidedTwice>>

\* A transaction of the loop fails: the event is stored to be retried.
ReceiveFail(c) ==
  /\ At(c, "receive", "credit")
  /\ redeliver' = redeliver \cup {job[c].receipt}
  /\ poTorn' = poTorn \cup {job[c].receipt}
  /\ Continue(c, [op |-> "inspect", stage |-> "create", receipt |-> job[c].receipt])
  /\ UNCHANGED <<po, poLine, receipt, inspected, credits, decidedTwice,
                 lateItems, latePo>>

ReceiveDone(c) ==
  /\ At(c, "receive", "item")
  /\ job[c].item > Len(Confirmed[job[c].receipt])
  /\ Continue(c, [op |-> "inspect", stage |-> "create", receipt |-> job[c].receipt])
  /\ UNCHANGED poData

-----------------------------------------------------------------------------
(* RECEIPT_CONFIRMED *)

\* An inspection for each item, until one fails.  The poller, which gets here
\* too, creates none.

CreateInspections(c) ==
  /\ At(c, "inspect", "create")
  /\ \E k \in 0..Len(Confirmed[job[c].receipt]) :
       inspected' = [inspected EXCEPT ![job[c].receipt] = inspected[job[c].receipt] + k]
  /\ Reply(c)
  /\ UNCHANGED <<po, poLine, receipt, redeliver, poHistory>>

PoDie(c) ==
  /\ job[c] # NoJob
  /\ Reply(c)
  /\ poTorn' = IF job[c].op = "receive" THEN poTorn \cup {job[c].receipt} ELSE poTorn
  /\ UNCHANGED <<poDocs, credits, decidedTwice, lateItems, latePo>>

-----------------------------------------------------------------------------
PoNext ==
  \/ \E c \in Clients :
       \/ ConfirmPo(c) \/ ConfirmPoWrite(c)
       \/ \E l \in PoLines, q \in PoOrdered : ChangePo(c, l, q)
       \/ ChangePoWrite(c)
       \/ \E r \in Receipts :
            \/ \E to \in {"INSPECTING", "ACCEPTED", "REJECTED"} : ReadReceipt(c, r, to)
            \/ Redeliver(c, r)
       \/ WriteReceipt(c)
       \/ ReceiveRead(c) \/ ReceiveWrite(c) \/ ReceiveFail(c) \/ ReceiveDone(c)
       \/ CreateInspections(c) \/ PoDie(c)
  \/ \E r \in Receipts : CreateReceipt(r)

PoSpec == ReqInit /\ PoInit /\ [][PoNext]_poVars

-----------------------------------------------------------------------------
PoTypeOK ==
  /\ po \in PoStatus
  /\ poLine \in [PoLines -> PoLine]
  /\ receipt \in [Receipts -> ReceiptStatus]
  /\ redeliver \subseteq poTorn /\ poTorn \subseteq Receipts
  /\ inspected \in [Receipts -> Nat]
  /\ \A r \in Receipts : credits[r] \in [DOMAIN Confirmed[r] -> Nat]
  /\ decidedTwice \subseteq Receipts
  /\ lateItems \subseteq PoLines /\ latePo \in BOOLEAN

\* What the credits of receipt r make up on line l.
CreditOn(r, l) ==
  SumFunctionOnSet([i \in DOMAIN Confirmed[r] |-> credits[r][i] * Confirmed[r][i].qty],
                   {i \in DOMAIN Confirmed[r] : Confirmed[r][i].line = l})

(***************************************************************************)
(* The received quantity of a line is what its receipts were credited      *)
(* with, and a receipt is credited once, when it is accepted.  Excepted    *)
(* are lines written by two requests at once, receipts two requests        *)
(* decided on, and those whose credit failed or died midway. The order is  *)
(* RECEIVED exactly when it has lines and all are closed, however often    *)
(* credits fail or are repeated, unless two requests were about to write   *)
(* the order at the same time: each may close its line without seeing the  *)
(* other's.                                                                *)
(***************************************************************************)
ReceiptsAreBooked ==
  /\ \A l \in PoLines \ lateItems :
       poLine[l].received = SumFunction([r \in Receipts |-> CreditOn(r, l)])
  /\ \A r \in Receipts \ (poTorn \cup decidedTwice) : \A i \in DOMAIN Confirmed[r] :
       /\ credits[r][i] <= 1
       /\ credits[r][i] = 1 => receipt[r] = "ACCEPTED"
  /\ ~latePo => (po = "RECEIVED" <=> /\ PoLines # {}
                                     /\ \A l \in PoLines : poLine[l].status = "CLOSED")
=============================================================================
