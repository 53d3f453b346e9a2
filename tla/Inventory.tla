----------------------------- MODULE Inventory -----------------------------
(***************************************************************************)
(* InventoryService: the rows of wms_inventory and the database            *)
(* transactions that change them.                                          *)
(*                                                                         *)
(* A row is the stock of one material, batch and location (a key).  Every  *)
(* operation of the service runs in one transaction: it reads the row with *)
(* findOne, computes the new column values in the program, and writes them *)
(* back as absolute values with UPDATE ... WHERE id.  The database is      *)
(* MySQL at its default level, repeatable read: the reads of a transaction *)
(* come from a snapshot taken at its first read and lock nothing, while an *)
(* UPDATE locks the row until the transaction ends and changes the latest  *)
(* committed version of it, in the columns it names and no others.         *)
(*                                                                         *)
(* ledger is the sum of the quantities in wms_stock_transaction, which     *)
(* every operation but the approval of a stock take writes beside the row. *)
(* lost, counted and clamped are history: the keys on which a transaction  *)
(* wrote over a change it had not read, those that a stock take corrected, *)
(* and those whose available quantity an adjustment cut off at zero.       *)
(***************************************************************************)
EXTENDS Integers, Sequences

CONSTANTS Keys,      \* the (material, batch, location) triples
          Clients,   \* the requests served at the same time
          NoRow,     \* no such row
          Amounts,   \* the quantities requests ask for
          Opening    \* what is in stock at the start, by earlier receipts

ASSUME AmountsAssumption == Amounts \subseteq Nat \ {0}
ASSUME OpeningAssumption == Opening \in [Keys -> Nat]

VARIABLES stock, txn, ledger, lost, counted, clamped

stockVars == <<stock, ledger, lost, counted, clamped>>
invVars == <<stock, txn, ledger, lost, counted, clamped>>

-----------------------------------------------------------------------------
\* The columns of a row that hold quantities.
Row == [quantity : Nat, availableQty : Nat, lockedQty : Nat]

ASSUME NoRowAssumption == NoRow \notin Row

Quantity(row) == IF row = NoRow THEN 0 ELSE row.quantity

\* A new row: all of it is available.
Received(n) == [quantity |-> n, availableQty |-> n, lockedQty |-> 0]

(***************************************************************************)
(* One read-compute-write on a row.  "add" inserts a missing row, "sub"    *)
(* and "hold" (lock and unlock) must find it, and so must "adjust", which  *)
(* cuts the available quantity off at zero.  "count" is the correction by  *)
(* a stock take: it passes over a row that is missing or would become      *)
(* negative, and leaves no trace in the ledger.                            *)
(***************************************************************************)
Kinds == {"add", "sub", "hold", "adjust", "count"}
Write == {w \in [kind : Kinds, key : Keys, qty : Int] :
            w.kind = "add" => w.qty > 0}

\* Math.max(0, available + adjustment)
CutOff(w, available) ==
  IF w.kind \in {"adjust", "count"} /\ available < 0 THEN 0 ELSE available

\* Variant: a lock that leaves the available quantity
HoldUncounted(w, read, found) ==
  IF w.kind = "hold"
  THEN [quantity     |-> found.quantity,
        availableQty |-> read.availableQty,
        lockedQty    |-> read.lockedQty + w.qty]
  ELSE [quantity     |-> read.quantity + w.qty,
        availableQty |-> CutOff(w, read.availableQty + w.qty),
        lockedQty    |-> found.lockedQty]

\* Variant: a lock that takes from the available quantity only
HoldUnrecorded(w, read, found) ==
  IF w.kind = "hold"
  THEN [quantity     |-> found.quantity,
        availableQty |-> read.availableQty - w.qty,
        lockedQty    |-> read.lockedQty]
  ELSE [quantity     |-> read.quantity + w.qty,
        availableQty |-> CutOff(w, read.availableQty + w.qty),
        lockedQty    |-> found.lockedQty]

\* The row after the UPDATE: the columns the operation names, computed from
\* the row it has read, over those of the row the UPDATE finds.
Written(w, read, found) ==
  IF w.kind = "hold"
  THEN [quantity     |-> found.quantity,
        availableQty |-> read.availableQty - w.qty,
        lockedQty    |-> read.lockedQty + w.qty]
  ELSE [quantity     |-> read.quantity + w.qty,
        availableQty |-> CutOff(w, read.availableQty + w.qty),
        lockedQty    |-> found.lockedQty]

\* Variant: the second check forgotten
AvailableUnchecked(w, read) ==
  IF w.kind = "hold"
  THEN read.availableQty - w.qty >= 0
  ELSE read.quantity + w.qty >= 0

\* The checks before the UPDATE: nothing the operation computes is negative.
Permitted(w, read) ==
  IF w.kind = "hold"
  THEN read.availableQty - w.qty >= 0 /\ read.lockedQty + w.qty >= 0
  ELSE /\ read.quantity + w.qty >= 0
       /\ CutOff(w, read.availableQty + w.qty) >= 0

\* Variant: an issue without its ledger row
EntryOfIssueMissing(w) == IF w.kind = "add" THEN w.qty ELSE 0

\* What writeTx adds to the sum of the ledger.
Entry(w) == IF w.kind \in {"hold", "count"} THEN 0 ELSE w.qty

-----------------------------------------------------------------------------
(***************************************************************************)
(* A transaction: what it still has to do, its snapshot, its own versions  *)
(* of the rows it has updated (whose locks it holds), the ledger entries   *)
(* and the history it will leave when it commits.                          *)
(***************************************************************************)
Txn == [stage   : {"open"},
        todo    : Seq(Write),
        snap    : [Keys -> Row \cup {NoRow}],
        own     : [Keys -> Row \cup {NoRow}],
        entry   : [Keys -> Int],
        counted : SUBSET Keys,
        clamped : SUBSET Keys]

NoTxn == [stage |-> "idle"]

IsOpen(c) == txn[c].stage = "open"

Holds(c, k) == IsOpen(c) /\ txn[c].own[k] # NoRow

\* No other transaction has updated or inserted the row.
RowFree(c, k) == \A d \in Clients \ {c} : ~Holds(d, k)

\* findOne inside the transaction
ReadRow(c, k) == IF Holds(c, k) THEN txn[c].own[k] ELSE txn[c].snap[k]

\* the version the UPDATE applies to
FoundRow(c, k) == IF Holds(c, k) THEN txn[c].own[k] ELSE stock[k]

InvInit ==
  /\ stock = [k \in Keys |-> IF Opening[k] = 0 THEN NoRow
                            ELSE Received(Opening[k])]
  /\ txn = [c \in Clients |-> NoTxn]
  /\ ledger = Opening
  /\ lost = {} /\ counted = {} /\ clamped = {}

\* A transaction starts and takes its snapshot with its first findOne.
Begin(c, plan) ==
  /\ txn[c] = NoTxn
  /\ txn' = [txn EXCEPT ![c] =
       [stage |-> "open", todo |-> plan, snap |-> stock,
        own |-> [k \in Keys |-> NoRow], entry |-> [k \in Keys |-> 0],
        counted |-> {}, clamped |-> {}]]
  /\ UNCHANGED stockVars

\* The operations of the service, by the writes they make.
Receipt(c, k, n)  == Begin(c, <<[kind |-> "add", key |-> k, qty |-> n]>>)
Issue(c, k, n)    == Begin(c, <<[kind |-> "sub", key |-> k, qty |-> -n]>>)
Lock(c, k, n)     == Begin(c, <<[kind |-> "hold", key |-> k, qty |-> n]>>)
Unlock(c, k, n)   == Begin(c, <<[kind |-> "hold", key |-> k, qty |-> -n]>>)
Adjust(c, k, d)   == Begin(c, <<[kind |-> "adjust", key |-> k, qty |-> d]>>)
Transfer(c, k, l, n) ==
  Begin(c, <<[kind |-> "sub", key |-> k, qty |-> -n],
             [kind |-> "add", key |-> l, qty |-> n]>>)

\* The version w leaves of its row, and what it will leave on commit.
Proceed(c, w, row) ==
  txn' = [txn EXCEPT ![c] =
    [stage   |-> "open",
     todo    |-> Tail(txn[c].todo),
     snap    |-> txn[c].snap,
     own     |-> [txn[c].own EXCEPT ![w.key] = row],
     entry   |-> [txn[c].entry EXCEPT
                    ![w.key] = txn[c].entry[w.key] + Entry(w)],
     counted |-> IF w.kind = "count" THEN txn[c].counted \cup {w.key}
                                     ELSE txn[c].counted,
     clamped |-> IF /\ ReadRow(c, w.key) # NoRow
                    /\ w.kind # "hold"
                    /\ ReadRow(c, w.key).availableQty + w.qty < 0
                 THEN txn[c].clamped \cup {w.key}
                 ELSE txn[c].clamped]]

\* End or rollback: the locks go, and the versions not committed with them.
Release(c) == txn' = [txn EXCEPT ![c] = NoTxn]

\* UPDATE wms_inventory SET ... WHERE id, after the checks
Update(c) ==
  /\ IsOpen(c) /\ txn[c].todo # <<>>
  /\ LET w == Head(txn[c].todo)
         read == ReadRow(c, w.key)
     IN /\ read # NoRow
        /\ Permitted(w, read)
        /\ RowFree(c, w.key)
        /\ Proceed(c, w, Written(w, read, FoundRow(c, w.key)))
  /\ UNCHANGED stockVars

\* mgr.save of a new row, which the unique key uk_wms_inv admits
Insert(c) ==
  /\ IsOpen(c) /\ txn[c].todo # <<>>
  /\ LET w == Head(txn[c].todo)
     IN /\ w.kind = "add"
        /\ ReadRow(c, w.key) = NoRow
        /\ stock[w.key] = NoRow
        /\ RowFree(c, w.key)
        /\ Proceed(c, w, Received(w.qty))
  /\ UNCHANGED stockVars

\* The approval of a stock take passes over a row it cannot correct.
PassOver(c) ==
  /\ IsOpen(c) /\ txn[c].todo # <<>>
  /\ LET w == Head(txn[c].todo)
         read == ReadRow(c, w.key)
     IN /\ w.kind = "count"
        /\ read = NoRow \/ ~Permitted(w, read)
        /\ txn' = [txn EXCEPT ![c].todo = Tail(txn[c].todo)]
  /\ UNCHANGED stockVars

\* A check fails, or the unique key refuses the insert: roll back.
Reject(c) ==
  /\ IsOpen(c) /\ txn[c].todo # <<>>
  /\ LET w == Head(txn[c].todo)
         read == ReadRow(c, w.key)
     IN \/ /\ read # NoRow /\ w.kind # "count" /\ ~Permitted(w, read)
        \/ /\ read = NoRow /\ w.kind \notin {"add", "count"}
        \/ /\ read = NoRow /\ w.kind = "add"
           /\ stock[w.key] # NoRow
           /\ RowFree(c, w.key)
  /\ Release(c)
  /\ UNCHANGED stockVars

\* The next write of c is held up by the lock of another transaction.
Waiting(c) ==
  /\ IsOpen(c) /\ txn[c].todo # <<>>
  /\ ~RowFree(c, Head(txn[c].todo).key)

\* The database ends a wait: deadlock victim, or innodb_lock_wait_timeout.
GiveUp(c) ==
  /\ Waiting(c)
  /\ Release(c)
  /\ UNCHANGED stockVars

Commit(c) ==
  /\ IsOpen(c) /\ txn[c].todo = <<>>
  /\ stock' = [k \in Keys |-> IF Holds(c, k) THEN txn[c].own[k] ELSE stock[k]]
  /\ ledger' = [k \in Keys |-> ledger[k] + txn[c].entry[k]]
  /\ lost' = lost \cup
       {k \in Keys : Holds(c, k) /\ stock[k] # txn[c].snap[k]}
  /\ counted' = counted \cup txn[c].counted
  /\ clamped' = clamped \cup txn[c].clamped
  /\ Release(c)

Request(c) ==
  \E k \in Keys, n \in Amounts :
     \/ Receipt(c, k, n) \/ Issue(c, k, n)
     \/ Lock(c, k, n) \/ Unlock(c, k, n)
     \/ Adjust(c, k, n) \/ Adjust(c, k, -n)
     \/ \E l \in Keys : Transfer(c, k, l, n)

Step(c) == Update(c) \/ Insert(c) \/ PassOver(c) \/ Reject(c) \/ Commit(c)

\* Any writes in any order: single operations, transfers, the corrections of
\* a stock take.
InvNext ==
  \E c \in Clients :
     \/ \E plan \in Seq(Write) : Begin(c, plan)
     \/ Step(c) \/ GiveUp(c)

InvSpec == InvInit /\ [][InvNext]_invVars

-----------------------------------------------------------------------------
InvTypeOK ==
  /\ stock \in [Keys -> Row \cup {NoRow}]
  /\ txn \in [Clients -> Txn \cup {NoTxn}]
  /\ ledger \in [Keys -> Int]
  /\ lost \subseteq Keys /\ counted \subseteq Keys /\ clamped \subseteq Keys

(***************************************************************************)
(* The ledger explains the stock: what the rows of wms_stock_transaction   *)
(* sum up to is the quantity of the row, unless a transaction wrote over a *)
(* change it had not read, or a stock take corrected the row.              *)
(***************************************************************************)
LedgerExplains ==
  \A k \in Keys \ (lost \cup counted) : Quantity(stock[k]) = ledger[k]

(***************************************************************************)
(* What is in stock is either available or locked, through receipts,       *)
(* issues, transfers, locks and unlocks in any order.  Only a lost update  *)
(* or an adjustment below what is locked (where the available quantity is  *)
(* cut off at zero) breaks it.                                             *)
(***************************************************************************)
Balanced ==
  \A k \in Keys \ (lost \cup clamped) :
     stock[k] # NoRow =>
        stock[k].availableQty + stock[k].lockedQty = stock[k].quantity

(***************************************************************************)
(* However often adjustments are cut off, the cut only goes one way: the   *)
(* row never has less available and locked than there is.                  *)
(***************************************************************************)
Covered ==
  \A k \in Keys \ lost :
     stock[k] # NoRow =>
        stock[k].availableQty + stock[k].lockedQty >= stock[k].quantity
=============================================================================
