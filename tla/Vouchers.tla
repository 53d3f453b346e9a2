------------------------------ MODULE Vouchers ------------------------------
(***************************************************************************)
(* Vouchers of one period, the ledger made of them and the closing of the  *)
(* period (VoucherService, LedgerService, PeriodEndService).               *)
(*                                                                         *)
(* Every operation reads the status of a voucher in one statement and      *)
(* writes it in another that does not look at it.  The ledger counts the   *)
(* vouchers that are POSTED: a reversed one drops out, while its reversal, *)
(* with debit and credit swapped, stays in.  A voucher is taken as what it *)
(* adds to the balance of each account, debit minus credit; numbers, dates *)
(* and the vouchers that subscribers create are left out, and so is void,  *)
(* which nothing calls.                                                    *)
(*                                                                         *)
(* closings and moved are history: the closings so far, and whether the    *)
(* ledger has changed since the last of them read it, other than by its    *)
(* own voucher.                                                            *)
(***************************************************************************)
EXTENDS Requests

CONSTANT MaxOpening  \* bound: vouchers there are to begin with

ASSUME OpeningAssumption == MaxOpening \in Nat

VARIABLES vouchers, closings, moved

voucherData == <<vouchers, closings, moved>>
voucherVars == <<voucherData, reqVars>>

-----------------------------------------------------------------------------
Accounts == {"cash", "revenue", "expense", "profit"}
VoucherStatus == {"DRAFT", "APPROVED", "POSTED", "REVERSED"}
VoucherKinds == {"sale", "cost", "closing", "reversal"}
Voucher == [kind : VoucherKinds, status : VoucherStatus, adds : [Accounts -> Int]]

Adds(cash, revenue, expense, profit) ==
  [a \in Accounts |-> CASE a = "cash" -> cash [] a = "revenue" -> revenue
                        [] a = "expense" -> expense [] a = "profit" -> profit]

\* Balanced entries: a sale for 2, a cost of 1.
Entry(kind) == IF kind = "sale" THEN Adds(2, -2, 0, 0) ELSE Adds(-1, 0, 1, 0)

NewVoucher(kind, status, adds) == [kind |-> kind, status |-> status, adds |-> adds]

\* The period is under way: vouchers as create, approve and post leave them.
VoucherInit ==
  /\ \E n \in 0..MaxOpening :
       vouchers \in [1..n -> {NewVoucher(k, s, Entry(k)) :
                                k \in {"sale", "cost"},
                                s \in {"DRAFT", "APPROVED", "POSTED"}}]
  /\ closings = 0 /\ moved = FALSE

\* What the ledger adds up for an account.
InLedger == {v \in DOMAIN vouchers : vouchers[v].status = "POSTED"}
Balance(a) == SumFunctionOnSet([v \in DOMAIN vouchers |-> vouchers[v].adds[a]], InLedger)

\* A voucher enters or leaves the ledger.
Moves(v, status) ==
  (vouchers[v].status = "POSTED") # (status = "POSTED") /\ vouchers[v].kind # "closing"

SetVoucher(v, status) ==
  /\ vouchers' = [vouchers EXCEPT ![v].status = status]
  /\ moved' = (moved \/ Moves(v, status))

-----------------------------------------------------------------------------
CreateVoucher(kind) ==
  /\ Once
  /\ vouchers' = Append(vouchers, NewVoucher(kind, "DRAFT", Entry(kind)))
  /\ UNCHANGED <<closings, moved>>

\* approve and post read the voucher ...
ReadVoucher(c, v, from, to) ==
  /\ vouchers[v].status = from
  /\ Accept(c, [op |-> "voucher", stage |-> "save", on |-> v, to |-> to])
  /\ UNCHANGED voucherData

ApproveVoucher(c, v) == ReadVoucher(c, v, "DRAFT", "APPROVED")
PostVoucher(c, v) == ReadVoucher(c, v, "APPROVED", "POSTED")

\* ... and save it.
SaveVoucher(c) ==
  /\ At(c, "voucher", "save")
  /\ SetVoucher(job[c].on, job[c].to)
  /\ Reply(c)
  /\ UNCHANGED closings

ReverseVoucher(c, v) ==
  /\ vouchers[v].status = "POSTED"
  /\ Accept(c, [op |-> "reverse", stage |-> "commit", on |-> v])
  /\ UNCHANGED voucherData

\* The voucher is marked and its reversal inserted, posted at once.
ReverseVoucherCommit(c) ==
  /\ At(c, "reverse", "commit")
  /\ LET v == job[c].on
     IN vouchers' = Append([vouchers EXCEPT ![v].status = "REVERSED"],
                           NewVoucher("reversal", "POSTED",
                                      [a \in Accounts |-> -vouchers[v].adds[a]]))
  /\ moved' = TRUE
  /\ Reply(c)
  /\ UNCHANGED closings

-----------------------------------------------------------------------------
(* The end of the period *)

\* Variant: the sign of the expenses is mistaken
TransferSigned(revenue, expense) ==
  LET r == IF -revenue > 0 THEN -revenue ELSE 0
      e == IF expense > 0 THEN expense ELSE 0
  IN Adds(0, r, e, -e - r)

\* Revenue is transferred where it is in credit, expenses where in debit.
Transfer(revenue, expense) ==
  LET r == IF -revenue > 0 THEN -revenue ELSE 0
      e == IF expense > 0 THEN expense ELSE 0
  IN Adds(0, r, -e, e - r)

ClosingRead(c) ==
  /\ Accept(c, [op |-> "closing", stage |-> "create",
                revenue |-> Balance("revenue"), expense |-> Balance("expense")])
  /\ closings' = closings + 1
  /\ moved' = FALSE
  /\ UNCHANGED vouchers

ClosingCreate(c) ==
  /\ At(c, "closing", "create")
  /\ vouchers' = Append(vouchers, NewVoucher("closing", "DRAFT",
                                   Transfer(job[c].revenue, job[c].expense)))
  /\ Reply(c)
  /\ UNCHANGED <<closings, moved>>

\* lockPeriod reads the approved vouchers and posts them one after the other.
LockPeriod(c) ==
  /\ Accept(c, [op |-> "lock", stage |-> "post",
                todo |-> {v \in DOMAIN vouchers : vouchers[v].status = "APPROVED"}])
  /\ UNCHANGED voucherData

LockPost(c, v) ==
  /\ At(c, "lock", "post")
  /\ v \in job[c].todo
  /\ SetVoucher(v, "POSTED")
  /\ Continue(c, [job[c] EXCEPT !.todo = job[c].todo \ {v}])
  /\ UNCHANGED closings

LockDone(c) ==
  /\ At(c, "lock", "post")
  /\ job[c].todo = {}
  /\ Reply(c)
  /\ UNCHANGED voucherData

VoucherDie(c) ==
  /\ job[c] # NoJob
  /\ Reply(c)
  /\ UNCHANGED voucherData

-----------------------------------------------------------------------------
VoucherNext ==
  \/ \E kind \in {"sale", "cost"} : CreateVoucher(kind)
  \/ \E c \in Clients :
       \/ \E v \in DOMAIN vouchers :
            \/ ApproveVoucher(c, v) \/ PostVoucher(c, v) \/ ReverseVoucher(c, v)
            \/ LockPost(c, v)
       \/ SaveVoucher(c) \/ ReverseVoucherCommit(c)
       \/ ClosingRead(c) \/ ClosingCreate(c)
       \/ LockPeriod(c) \/ LockDone(c) \/ VoucherDie(c)

VoucherSpec == ReqInit /\ VoucherInit /\ [][VoucherNext]_voucherVars

-----------------------------------------------------------------------------
VoucherTypeOK ==
  /\ vouchers \in Seq(Voucher)
  /\ closings \in Nat /\ moved \in BOOLEAN

(***************************************************************************)
(* Once the voucher of a closing is posted, no revenue is left in credit   *)
(* and no expense in debit: all of it has gone to the profit of the year,  *)
(* whatever requests came between the reading of the ledger and the        *)
(* posting; unless they moved the ledger themselves, or the period was     *)
(* closed twice, which transfers it all again.                             *)
(***************************************************************************)
ClosingLeavesNothing ==
  closings = 1 /\ ~moved
    /\ (\E v \in InLedger : vouchers[v].kind = "closing")
    => Balance("revenue") >= 0 /\ Balance("expense") <= 0
=============================================================================
