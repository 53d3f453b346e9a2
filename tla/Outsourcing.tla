---------------------------- MODULE Outsourcing ----------------------------
(***************************************************************************)
(* An outsourcing order, the material issued for it, the goods received    *)
(* and their inspections (OutsourcingOrderService, OutsourcingIssueService,*)
(* OutsourcingReceiptService, OutsourcingEventService, and the subscribers *)
(* of their events in QMS).                                                *)
(*                                                                         *)
(* Nothing runs in a transaction: a check, the row it admits, the quantity *)
(* of the order and its status are statements of their own.  A request     *)
(* that confirms or cancels the order saves the row it has read, with the  *)
(* quantities it then had.                                                 *)
(*                                                                         *)
(* A settlement may not exceed the quantity that passed inspection, which  *)
(* nothing ever raises (see InspectionEvent): settlements, their approval  *)
(* and their payables are left out, and so are the movements of stock.     *)
(*                                                                         *)
(* stale, miscounted and crowded are history: whether a quantity was saved *)
(* over, documents confirmed by two requests or by one that died before it *)
(* had counted, and issues for which two receipts were created at once.    *)
(***************************************************************************)
EXTENDS Requests

CONSTANTS Issues,      \* material issues for the order
          OutReceipts, \* receipts for the order
          Planned      \* planned quantity of the order

ASSUME DocumentsAssumption == IsFiniteSet(Issues) /\ IsFiniteSet(OutReceipts)
ASSUME PlannedAssumption == Planned \in Nat \ {0}

VARIABLES oc, issue, outReceipt, inspection, stale, miscounted, crowded

outDocs == <<oc, issue, outReceipt, inspection>>
outData == <<outDocs, stale, miscounted, crowded>>
outVars == <<outData, reqVars>>

-----------------------------------------------------------------------------
OcStatus == {"DRAFT", "CONFIRMED", "ISSUED", "PARTIAL_RECEIVED", "RECEIVED",
             "INSPECTING", "CANCELLED"}
Oc == [status : OcStatus, issued : Nat, received : Nat, inspected : Nat]
Issue == [status : {"none", "PENDING", "CONFIRMED"}, qty : Nat]
OutReceipt == [status : {"none", "PENDING", "INSPECTING", "PASSED"}, qty : Nat,
               issue : Issues]
NoDocument == [status |-> "none", qty |-> 0]

OutInit ==
  /\ oc = [status |-> "DRAFT", issued |-> 0, received |-> 0, inspected |-> 0]
  /\ issue = [i \in Issues |-> NoDocument]
  /\ \E i \in Issues :
       outReceipt = [r \in OutReceipts |-> [status |-> "none", qty |-> 0, issue |-> i]]
  /\ inspection = [r \in OutReceipts |-> "none"]
  /\ stale = FALSE /\ miscounted = {} /\ crowded = {}

QtyOf(docs, S) == SumFunctionOnSet([x \in DOMAIN docs |-> docs[x].qty], S)
ReceiptsOf(i) ==
  {r \in OutReceipts : outReceipt[r].status # "none" /\ outReceipt[r].issue = i}

-----------------------------------------------------------------------------
(* The order *)

ConfirmOc(c) ==
  /\ oc.status = "DRAFT"
  /\ Accept(c, [op |-> "oc", stage |-> "save", row |-> oc, to |-> "CONFIRMED"])
  /\ UNCHANGED outData

CancelOc(c) ==
  /\ oc.status \in {"DRAFT", "CONFIRMED"}
  /\ Accept(c, [op |-> "oc", stage |-> "look", row |-> oc, to |-> "CANCELLED"])
  /\ UNCHANGED outData

CancelOcLook(c) ==
  /\ At(c, "oc", "look")
  /\ IF \E i \in Issues : issue[i].status = "PENDING"
     THEN Reply(c)
     ELSE Continue(c, [job[c] EXCEPT !.stage = "save"])
  /\ UNCHANGED outData

SaveOc(c) ==
  /\ At(c, "oc", "save")
  /\ LET row == job[c].row
     IN /\ oc' = [row EXCEPT !.status = job[c].to]
        /\ stale' = (stale \/ row.issued # oc.issued \/ row.received # oc.received)
  /\ Reply(c)
  /\ UNCHANGED <<issue, outReceipt, inspection, miscounted, crowded>>

-----------------------------------------------------------------------------
(* Issues of material *)

CreateIssue(c, i, q) ==
  /\ issue[i].status = "none"
  /\ oc.status \in {"CONFIRMED", "ISSUED"}
  /\ QtyOf(issue, Issues) + q <= Planned
  /\ Accept(c, [op |-> "createIssue", stage |-> "insert", on |-> i, qty |-> q])
  /\ UNCHANGED outData

\* Requests create issues of their own.
InsertIssue(c) ==
  /\ At(c, "createIssue", "insert")
  /\ issue[job[c].on].status = "none"
  /\ issue' = [issue EXCEPT ![job[c].on] =
                 [status |-> "PENDING", qty |-> job[c].qty]]
  /\ Reply(c)
  /\ UNCHANGED <<oc, outReceipt, inspection, stale, miscounted, crowded>>

\* There is enough in stock.
ConfirmIssue(c, i) ==
  /\ issue[i].status = "PENDING"
  /\ Accept(c, [op |-> "confirmIssue", stage |-> "save", on |-> i])
  /\ UNCHANGED outData

SaveIssue(c) ==
  /\ At(c, "confirmIssue", "save")
  /\ LET i == job[c].on
     IN /\ issue' = [issue EXCEPT ![i].status = "CONFIRMED"]
        /\ miscounted' = IF issue[i].status = "CONFIRMED"
                         THEN miscounted \cup {i} ELSE miscounted
        /\ Continue(c, [job[c] EXCEPT !.stage = "count"])
  /\ UNCHANGED <<oc, outReceipt, inspection, stale, crowded>>

\* incrementIssuedQty
CountIssue(c) ==
  /\ At(c, "confirmIssue", "count")
  /\ oc' = [oc EXCEPT !.issued = oc.issued + issue[job[c].on].qty]
  /\ Continue(c, [job[c] EXCEPT !.stage = "look"])
  /\ UNCHANGED <<issue, outReceipt, inspection, stale, miscounted, crowded>>

LookAfterIssue(c) ==
  /\ At(c, "confirmIssue", "look")
  /\ IF oc.status = "CONFIRMED"
     THEN Continue(c, [job[c] EXCEPT !.stage = "issued"])
     ELSE Reply(c)
  /\ UNCHANGED outData

MarkIssued(c) ==
  /\ At(c, "confirmIssue", "issued")
  /\ oc' = [oc EXCEPT !.status = "ISSUED"]
  /\ Reply(c)
  /\ UNCHANGED <<issue, outReceipt, inspection, stale, miscounted, crowded>>

-----------------------------------------------------------------------------
(* Receipts of goods: a tenth more than was issued is let in *)

\* Variant: receipts that are not confirmed yet do not count
ReceivedForConfirmed(i) ==
  QtyOf(outReceipt, {r \in ReceiptsOf(i) : outReceipt[r].status # "PENDING"})

ReceivedFor(i) == QtyOf(outReceipt, ReceiptsOf(i))

CreateOutReceipt(c, r, i, q) ==
  /\ outReceipt[r].status = "none"
  /\ oc.status \in {"ISSUED", "PARTIAL_RECEIVED"}
  /\ issue[i].status = "CONFIRMED"
  /\ 10 * (ReceivedFor(i) + q) <= 11 * issue[i].qty
  /\ Accept(c, [op |-> "createOutReceipt", stage |-> "insert", on |-> r,
                issue |-> i, qty |-> q])
  /\ UNCHANGED outData

InsertOutReceipt(c) ==
  /\ At(c, "createOutReceipt", "insert")
  /\ outReceipt[job[c].on].status = "none"
  /\ outReceipt' = [outReceipt EXCEPT ![job[c].on] =
                      [status |-> "PENDING", qty |-> job[c].qty,
                       issue |-> job[c].issue]]
  /\ crowded' =
       IF \E d \in Clients \ {c} : job[d].op = "createOutReceipt"
                                   /\ job[d].issue = job[c].issue
       THEN crowded \cup {job[c].issue} ELSE crowded
  /\ Reply(c)
  /\ UNCHANGED <<oc, issue, inspection, stale, miscounted>>

ConfirmOutReceipt(c, r) ==
  /\ outReceipt[r].status = "PENDING"
  /\ Accept(c, [op |-> "confirmOutReceipt", stage |-> "save", on |-> r])
  /\ UNCHANGED outData

SaveOutReceipt(c) ==
  /\ At(c, "confirmOutReceipt", "save")
  /\ LET r == job[c].on
     IN /\ outReceipt' = [outReceipt EXCEPT ![r].status = "INSPECTING"]
        /\ miscounted' = IF outReceipt[r].status # "PENDING"
                         THEN miscounted \cup {r} ELSE miscounted
        /\ Continue(c, [job[c] EXCEPT !.stage = "count"])
  /\ UNCHANGED <<oc, issue, inspection, stale, crowded>>

\* Variant: the increment is left out, the status update is relied on
CountedNot(row, q) == row

Counted(row, q) == [row EXCEPT !.received = row.received + q]

\* incrementReceivedQty
CountOutReceipt(c) ==
  /\ At(c, "confirmOutReceipt", "count")
  /\ oc' = Counted(oc, outReceipt[job[c].on].qty)
  /\ Continue(c, [job[c] EXCEPT !.stage = "look"])
  /\ UNCHANGED <<issue, outReceipt, inspection, stale, miscounted, crowded>>

\* The order is read with the quantity counted, which is added once more.
LookAfterReceipt(c) ==
  /\ At(c, "confirmOutReceipt", "look")
  /\ LET r == job[c].on
         total == oc.received + outReceipt[r].qty
     IN Continue(c, [op |-> "confirmOutReceipt", stage |-> "status", on |-> r,
                     to |-> IF total >= Planned THEN "RECEIVED"
                                                ELSE "PARTIAL_RECEIVED"])
  /\ UNCHANGED outData

MarkReceived(c) ==
  /\ At(c, "confirmOutReceipt", "status")
  /\ oc' = [oc EXCEPT !.status = job[c].to]
  /\ Continue(c, [op |-> "confirmOutReceipt", stage |-> "inspecting",
                  on |-> job[c].on])
  /\ UNCHANGED <<issue, outReceipt, inspection, stale, miscounted, crowded>>

\* The status is set, and the event makes QMS create an inspection, or not:
\* its errors are swallowed.
MarkInspecting(c) ==
  /\ At(c, "confirmOutReceipt", "inspecting")
  /\ oc' = [oc EXCEPT !.status = "INSPECTING"]
  /\ \/ inspection' = [inspection EXCEPT ![job[c].on] = "PENDING"]
     \/ UNCHANGED inspection
  /\ Reply(c)
  /\ UNCHANGED <<issue, outReceipt, stale, miscounted, crowded>>

-----------------------------------------------------------------------------
(* The inspection is made without a source, and so is its event *)

InspectionEvent(r) == [inspectionType |-> "IQC", result |-> "PASSED"]

FromOutsourcing(e) ==
  "sourceType" \in DOMAIN e /\ e["sourceType"] = "OUTSOURCING"

\* submit; the event of an inspection that passed goes to WMS, which answers
\* with OUTSOURCING_RECEIPT_STOCKED if it concerns a receipt.
PassInspection(r) ==
  /\ inspection[r] = "PENDING"
  /\ Once
  /\ inspection' = [inspection EXCEPT ![r] = "PASSED"]
  /\ IF FromOutsourcing(InspectionEvent(r))
     THEN /\ outReceipt' = [outReceipt EXCEPT ![r].status = "PASSED"]
          /\ oc' = [oc EXCEPT !.inspected = oc.inspected + outReceipt[r].qty]
     ELSE UNCHANGED <<oc, outReceipt>>
  /\ UNCHANGED <<issue, stale, miscounted, crowded>>

OutDie(c) ==
  /\ job[c] # NoJob
  /\ miscounted' = IF At(c, "confirmIssue", "count")
                      \/ At(c, "confirmOutReceipt", "count")
                   THEN miscounted \cup {job[c].on} ELSE miscounted
  /\ Reply(c)
  /\ UNCHANGED <<outDocs, stale, crowded>>

-----------------------------------------------------------------------------
OutNext ==
  \/ \E c \in Clients :
       \/ ConfirmOc(c) \/ CancelOc(c) \/ CancelOcLook(c) \/ SaveOc(c)
       \/ \E i \in Issues, q \in 1..Planned :
            \/ CreateIssue(c, i, q)
            \/ \E r \in OutReceipts : CreateOutReceipt(c, r, i, q)
       \/ \E i \in Issues : ConfirmIssue(c, i)
       \/ InsertIssue(c) \/ SaveIssue(c) \/ CountIssue(c)
       \/ LookAfterIssue(c) \/ MarkIssued(c)
       \/ \E r \in OutReceipts : ConfirmOutReceipt(c, r)
       \/ InsertOutReceipt(c) \/ SaveOutReceipt(c) \/ CountOutReceipt(c)
       \/ LookAfterReceipt(c) \/ MarkReceived(c) \/ MarkInspecting(c)
       \/ OutDie(c)
  \/ \E r \in OutReceipts : PassInspection(r)

OutSpec == ReqInit /\ OutInit /\ [][OutNext]_outVars

-----------------------------------------------------------------------------
OutTypeOK ==
  /\ oc \in Oc
  /\ issue \in [Issues -> Issue]
  /\ outReceipt \in [OutReceipts -> OutReceipt]
  /\ inspection \in [OutReceipts -> {"none", "PENDING", "PASSED"}]
  /\ stale \in BOOLEAN
  /\ miscounted \subseteq Issues \cup OutReceipts /\ crowded \subseteq Issues

\* Documents that are confirmed and not counted yet.
Uncounted(op) == {job[c].on : c \in {d \in Clients : At(d, op, "count")}}

(***************************************************************************)
(* The issued and received quantities of the order are those of its        *)
(* confirmed documents, whatever requests interleave between the save of a *)
(* document and its count; unless a request that saves the whole order     *)
(* puts back quantities it had read, or a document was confirmed twice or  *)
(* by a request that died. No more is received for an issue than was       *)
(* issued and a tenth, and no receipt exists for an issue that is not      *)
(* confirmed, unless two receipts for the issue are created at the same    *)
(* time.                                                                   *)
(***************************************************************************)
OrderAddsUp ==
  /\ ~stale /\ miscounted = {} =>
       /\ oc.issued = QtyOf(issue, {i \in Issues : issue[i].status = "CONFIRMED"}
                                     \ Uncounted("confirmIssue"))
       /\ oc.received =
            QtyOf(outReceipt, {r \in OutReceipts :
                                 outReceipt[r].status \notin {"none", "PENDING"}}
                                \ Uncounted("confirmOutReceipt"))
  /\ \A i \in Issues \ crowded :
       /\ 10 * QtyOf(outReceipt, ReceiptsOf(i)) <= 11 * issue[i].qty
       /\ ReceiptsOf(i) # {} => issue[i].status = "CONFIRMED"
=============================================================================
