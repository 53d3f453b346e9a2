------------------------------ MODULE Payables ------------------------------
(***************************************************************************)
(* From a supplier's reconciliation to the payments (ReconciliationService *)
(* of SCM, PayableService and ReceivableService of ERP).                   *)
(*                                                                         *)
(* A reconciliation without a difference, and any one that is pushed by    *)
(* hand, publishes PAYABLE_CREATED; each delivery of it inserts a payable. *)
(* The bus delivers an event at least once (see EventBus).  A payment is   *)
(* added to the sum read before, and the whole row is saved; so is one     *)
(* when an item of the payment plan is marked.                             *)
(*                                                                         *)
(* received, mixed, pushed, twice and redelivered are history: the         *)
(* payments of an account; the accounts two requests worked on at once;    *)
(* whether the reconciliation was pushed, was worked on by two requests at *)
(* once, and an event was delivered again.                                 *)
(***************************************************************************)
EXTENDS Requests

CONSTANTS Amount,      \* of the invoice, and of the receivable
          Payments,    \* bound: amounts paid at once
          Differences  \* between the invoice and the receipts

ASSUME AmountAssumption == Amount \in Nat \ {0}
ASSUME PaymentsAssumption == Payments \subseteq Nat \ {0}
ASSUME DifferencesAssumption == Differences \subseteq Int

VARIABLES recon,      \* the reconciliation: [status, diff, created]
          published,  \* the number of events published
          payable,    \* the payables, by their number
          receivable,
          received, mixed, pushed, twice, redelivered

payDocs == <<recon, published, payable, receivable>>
payPast == <<received, mixed, pushed, twice, redelivered>>
payData == <<payDocs, payPast>>
payVars == <<payData, reqVars>>

-----------------------------------------------------------------------------
Unpaid == [paid |-> 0, status |-> "PENDING"]

\* The payables there are, by their number, and the receivable.
OpenAccounts == DOMAIN payable \cup {0}
Account(a) == IF a = 0 THEN receivable ELSE payable[a].account

PayInit ==
  /\ \E diff \in Differences :
       recon = [status |-> "DRAFT", diff |-> diff, created |-> FALSE]
  /\ published = 0 /\ payable = << >> /\ receivable = Unpaid
  /\ received = <<0>> /\ mixed = {}
  /\ pushed = FALSE /\ twice = FALSE /\ redelivered = FALSE

-----------------------------------------------------------------------------
(* Requests on the reconciliation: each saves the row as it has read it. *)

OnRecon(c) == job[c].op \in {"confirmRecon", "push"}

ConfirmedAs(diff) == IF diff = 0 THEN "CONFIRMED" ELSE "DISCREPANCY"

ConfirmRecon(c) ==
  /\ recon.status = "DRAFT"
  /\ Accept(c, [op |-> "confirmRecon", stage |-> "save",
                row |-> [recon EXCEPT !.status = ConfirmedAs(recon.diff)]])
  /\ twice' = (twice \/ \E d \in Clients : OnRecon(d))
  /\ UNCHANGED <<payDocs, received, mixed, pushed, redelivered>>

SaveConfirmed(c) ==
  /\ At(c, "confirmRecon", "save")
  /\ recon' = job[c].row
  /\ IF job[c].row.status = "CONFIRMED"
     THEN Continue(c, [op |-> "confirmRecon", stage |-> "publish"]) ELSE Reply(c)
  /\ UNCHANGED <<published, payable, receivable, payPast>>

PublishConfirmed(c) ==
  /\ At(c, "confirmRecon", "publish")
  /\ published' = published + 1
  /\ Reply(c)
  /\ UNCHANGED <<recon, payable, receivable, payPast>>

\* pushPayable publishes whatever the status is, then markPayableCreated
\* reads the row once more and saves it.
Push(c) ==
  /\ Accept(c, [op |-> "push", stage |-> "publish"])
  /\ twice' = (twice \/ \E d \in Clients : OnRecon(d))
  /\ pushed' = TRUE
  /\ UNCHANGED <<payDocs, received, mixed, redelivered>>

PublishPushed(c) ==
  /\ At(c, "push", "publish")
  /\ published' = published + 1
  /\ Continue(c, [op |-> "push", stage |-> "read"])
  /\ UNCHANGED <<recon, payable, receivable, payPast>>

ReadPushed(c) ==
  /\ At(c, "push", "read")
  /\ Continue(c, [op |-> "push", stage |-> "save",
                  row |-> [recon EXCEPT !.created = TRUE]])
  /\ UNCHANGED payData

SavePushed(c) ==
  /\ At(c, "push", "save")
  /\ recon' = job[c].row
  /\ Reply(c)
  /\ UNCHANGED <<published, payable, receivable, payPast>>

-----------------------------------------------------------------------------
(* createFromEvent: the number is one more than the last one's, and unique *)

Delivered(e) ==
  \/ \E a \in DOMAIN payable : payable[a].event = e
  \/ \E d \in Clients : job[d].op = "payable" /\ job[d].event = e

Deliver(c, e) ==
  /\ Accept(c, [op |-> "payable", stage |-> "insert", event |-> e,
                no |-> Len(payable) + 1])
  /\ redelivered' = (redelivered \/ Delivered(e))
  /\ UNCHANGED <<payDocs, received, mixed, pushed, twice>>

NumberIsFree(no) == no \notin DOMAIN payable

\* A second payable of that number is refused, and the delivery fails.
InsertPayable(c) ==
  /\ At(c, "payable", "insert")
  /\ IF NumberIsFree(job[c].no)
     THEN /\ payable' = Append(payable, [event |-> job[c].event, account |-> Unpaid])
          /\ received' = Append(received, 0)
     ELSE UNCHANGED <<payable, received>>
  /\ Reply(c)
  /\ UNCHANGED <<recon, published, receivable, mixed, pushed, twice, redelivered>>

-----------------------------------------------------------------------------
(* Requests on an account *)

\* Variant: the payment of more than the rest does not settle the account
AfterExactly(account, sum) ==
  [paid |-> account.paid + sum,
   status |-> IF account.paid + sum = Amount THEN "PAID" ELSE "PARTIAL"]

\* recordPayment, of either service.
After(account, sum) ==
  [paid |-> account.paid + sum,
   status |-> IF account.paid + sum >= Amount THEN "PAID" ELSE "PARTIAL"]

Mix(a) ==
  mixed' = IF \E d \in Clients : job[d].op = "pay" /\ job[d].on = a
           THEN mixed \cup {a} ELSE mixed

RecordPayment(c, a, sum) ==
  /\ Accept(c, [op |-> "pay", stage |-> "save", on |-> a, sum |-> sum,
                account |-> After(Account(a), sum)])
  /\ Mix(a)
  /\ UNCHANGED <<payDocs, received, pushed, twice, redelivered>>

\* updatePaymentPlanItem: the plan is no part of the model, the row is saved.
MarkPlanItem(c, a) ==
  /\ a # 0
  /\ Accept(c, [op |-> "pay", stage |-> "save", on |-> a, sum |-> 0,
                account |-> Account(a)])
  /\ Mix(a)
  /\ UNCHANGED <<payDocs, received, pushed, twice, redelivered>>

SaveAccount(c) ==
  /\ At(c, "pay", "save")
  /\ IF job[c].on = 0
     THEN receivable' = job[c].account /\ UNCHANGED payable
     ELSE payable' = [payable EXCEPT ![job[c].on].account = job[c].account]
          /\ UNCHANGED receivable
  /\ received' = [received EXCEPT ![job[c].on + 1] = @ + job[c].sum]
  /\ Reply(c)
  /\ UNCHANGED <<recon, published, mixed, pushed, twice, redelivered>>

\* One statement marks the receivables that are late.
MarkOverdue ==
  /\ receivable.status \in {"PENDING", "PARTIAL"}
  /\ receivable' = [receivable EXCEPT !.status = "OVERDUE"]
  /\ Once
  /\ UNCHANGED <<recon, published, payable, payPast>>

-----------------------------------------------------------------------------
PayDie(c) ==
  /\ job[c] # NoJob
  /\ Reply(c)
  /\ UNCHANGED payData

PayNext ==
  \/ \E c \in Clients :
       \/ ConfirmRecon(c) \/ SaveConfirmed(c) \/ PublishConfirmed(c)
       \/ Push(c) \/ PublishPushed(c) \/ ReadPushed(c) \/ SavePushed(c)
       \/ \E e \in 1..published : Deliver(c, e)
       \/ InsertPayable(c)
       \/ \E a \in OpenAccounts :
            \/ \E sum \in Payments : RecordPayment(c, a, sum)
            \/ MarkPlanItem(c, a)
       \/ SaveAccount(c) \/ PayDie(c)
  \/ MarkOverdue

PaySpec == ReqInit /\ PayInit /\ [][PayNext]_payVars

-----------------------------------------------------------------------------
PayTypeOK ==
  LET AccountType == [paid : Nat, status : {"PENDING", "PARTIAL", "PAID", "OVERDUE"}]
  IN /\ recon \in [status : {"DRAFT", "CONFIRMED", "DISCREPANCY"},
                   diff : Differences, created : BOOLEAN]
     /\ published \in Nat
     /\ payable \in Seq([event : 1..published, account : AccountType])
     /\ receivable \in AccountType
     /\ received \in Seq(Nat) /\ Len(received) = Len(payable) + 1
     /\ mixed \subseteq Nat

(***************************************************************************)
(* However requests interleave, an account is PAID just when the sum it    *)
(* shows covers the amount.  That sum is what was paid, unless two         *)
(* requests worked on the account at once.  And a reconciliation leads to  *)
(* one payable at most, unless it was pushed by hand, worked on by two     *)
(* requests at once, or its event was delivered again.                     *)
(***************************************************************************)
PaymentsAreKept ==
  /\ \A a \in OpenAccounts :
       /\ Account(a).status = "PAID" <=> Account(a).paid >= Amount
       /\ a \notin mixed => Account(a).paid = received[a + 1]
  /\ ~pushed /\ ~twice /\ ~redelivered => Len(payable) <= 1
=============================================================================
