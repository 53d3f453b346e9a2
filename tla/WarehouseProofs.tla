-------------------------- MODULE WarehouseProofs ---------------------------
(***************************************************************************)
(* Theorems about Inventory and about Warehouse, which goes through its    *)
(* rows, for every set of rows and clients, every opening stock and every  *)
(* sequence of operations, in every interleaving.                          *)
(***************************************************************************)
EXTENDS Warehouse, FiniteSetTheorems, TLAPS

-----------------------------------------------------------------------------
(***************************************************************************)
(* Theorems about Inventory for every set of rows and clients, every       *)
(* opening stock and every sequence of operations, transfers and           *)
(* corrections, in every interleaving.                                     *)
(*                                                                         *)
(* What makes the invariants inductive is an account of the transactions   *)
(* under way: a row updated and not committed is held by one of them       *)
(* (OneHolder), and when nothing was committed to the row since that       *)
(* transaction read it, its version already satisfies what the row will    *)
(* have to satisfy once it is committed (Accounts).                        *)
(***************************************************************************)

USE OpeningAssumption, AmountsAssumption, NoRowAssumption

LEMMA WriteType ==
  ASSUME NEW w \in Write
  PROVE  /\ w.kind \in Kinds /\ w.key \in Keys /\ w.qty \in Int
         /\ w.kind = "add" => w.qty \in Nat
         /\ Entry(w) \in Int
  BY DEF Write, Entry

LEMMA TxnType ==
  ASSUME InvTypeOK, NEW c \in Clients
  PROVE  /\ txn[c] # NoTxn <=> IsOpen(c)
         /\ IsOpen(c) => txn[c] \in Txn
  BY DEF InvTypeOK, IsOpen, NoTxn, Txn

\* The row an operation reads, and the version its UPDATE applies to.
LEMMA RowsSeen ==
  ASSUME InvTypeOK, NEW c \in Clients, NEW k \in Keys, IsOpen(c)
  PROVE  /\ ReadRow(c, k) \in Row \cup {NoRow}
         /\ FoundRow(c, k) \in Row \cup {NoRow}
  BY TxnType DEF InvTypeOK, Txn, ReadRow, FoundRow

\* A row once there stays, so the UPDATE finds the row that was read.
NoDelete ==
  \A c \in Clients, k \in Keys :
     IsOpen(c) /\ txn[c].snap[k] # NoRow => stock[k] # NoRow

LEMMA RowFound ==
  ASSUME InvTypeOK, NoDelete, NEW c \in Clients, NEW k \in Keys, IsOpen(c),
         ReadRow(c, k) # NoRow
  PROVE  FoundRow(c, k) \in Row /\ ReadRow(c, k) \in Row
  BY RowsSeen DEF NoDelete, ReadRow, FoundRow, Holds

\* What the checks admit is not negative.
LEMMA WrittenType ==
  ASSUME NEW w \in Write, NEW read \in Row, NEW found \in Row,
         Permitted(w, read)
  PROVE  Written(w, read, found) \in Row
<1>1. /\ read.quantity \in Nat /\ read.availableQty \in Nat
      /\ read.lockedQty \in Nat /\ found.quantity \in Nat
      /\ found.lockedQty \in Nat /\ w.qty \in Int
  BY WriteType DEF Row
<1>2. CASE w.kind = "hold"
  BY <1>1, <1>2 DEF Written, Permitted, Row
<1>3. CASE w.kind # "hold"
  <2>1. CutOff(w, read.availableQty + w.qty) \in Int BY <1>1 DEF CutOff
  <2> QED BY <1>1, <1>3, <2>1 DEF Written, Permitted, Row
<1> QED BY <1>2, <1>3

\* What Proceed does to the transaction of c.
LEMMA ProceedEffect ==
  ASSUME InvTypeOK, NEW c \in Clients, IsOpen(c), txn[c].todo # <<>>,
         NEW row \in Row, Proceed(c, Head(txn[c].todo), row)
  PROVE  LET w == Head(txn[c].todo) IN
         /\ w \in Write
         /\ txn' \in [Clients -> Txn \cup {NoTxn}]
         /\ \A d \in Clients \ {c} : txn'[d] = txn[d]
         /\ txn'[c].stage = "open"
         /\ txn'[c].snap = txn[c].snap
         /\ txn'[c].own = [txn[c].own EXCEPT ![w.key] = row]
         /\ txn'[c].entry = [txn[c].entry EXCEPT
                               ![w.key] = txn[c].entry[w.key] + Entry(w)]
         /\ txn'[c].counted = IF w.kind = "count"
                              THEN txn[c].counted \cup {w.key}
                              ELSE txn[c].counted
         /\ txn'[c].clamped = IF /\ ReadRow(c, w.key) # NoRow
                                 /\ w.kind # "hold"
                                 /\ ReadRow(c, w.key).availableQty + w.qty < 0
                              THEN txn[c].clamped \cup {w.key}
                              ELSE txn[c].clamped
<1> DEFINE w == Head(txn[c].todo)
           t == [stage   |-> "open",
                 todo    |-> Tail(txn[c].todo),
                 snap    |-> txn[c].snap,
                 own     |-> [txn[c].own EXCEPT ![w.key] = row],
                 entry   |-> [txn[c].entry EXCEPT
                                ![w.key] = txn[c].entry[w.key] + Entry(w)],
                 counted |-> IF w.kind = "count"
                             THEN txn[c].counted \cup {w.key}
                             ELSE txn[c].counted,
                 clamped |-> IF /\ ReadRow(c, w.key) # NoRow
                                /\ w.kind # "hold"
                                /\ ReadRow(c, w.key).availableQty + w.qty < 0
                             THEN txn[c].clamped \cup {w.key}
                             ELSE txn[c].clamped]
<1>1. txn[c] \in Txn BY TxnType
<1>2. w \in Write /\ Tail(txn[c].todo) \in Seq(Write) BY <1>1 DEF Txn
<1>3. w.key \in Keys /\ Entry(w) \in Int BY <1>2, WriteType
<1>4. t.own \in [Keys -> Row \cup {NoRow}] BY <1>1 DEF Txn
<1>5. txn[c].entry \in [Keys -> Int] BY <1>1 DEF Txn
<1>6. t.entry \in [Keys -> Int] BY <1>3, <1>5
<1>7. t.counted \in SUBSET Keys /\ t.clamped \in SUBSET Keys
  BY <1>1, <1>3 DEF Txn
<1>8. t \in Txn
  <2> HIDE DEF w
  <2> QED BY <1>1, <1>2, <1>4, <1>6, <1>7 DEF Txn
<1>9. txn' = [txn EXCEPT ![c] = t] BY DEF Proceed
<1> HIDE DEF t
<1>10. txn'[c] = t /\ \A d \in Clients \ {c} : txn'[d] = txn[d]
  BY <1>9 DEF InvTypeOK
<1>11. txn' \in [Clients -> Txn \cup {NoTxn}] BY <1>8, <1>9 DEF InvTypeOK
<1> QED BY <1>2, <1>10, <1>11 DEF t

\* A transaction starts: everything it knows comes from the stock.
LEMMA BeginEffect ==
  ASSUME InvTypeOK, NEW c \in Clients, NEW plan \in Seq(Write),
         Begin(c, plan)
  PROVE  /\ txn' \in [Clients -> Txn \cup {NoTxn}]
         /\ \A d \in Clients \ {c} : txn'[d] = txn[d]
         /\ txn'[c].snap = stock
         /\ txn'[c].own = [k \in Keys |-> NoRow]
         /\ txn'[c].entry = [k \in Keys |-> 0]
         /\ UNCHANGED stockVars
<1> DEFINE t == [stage |-> "open", todo |-> plan, snap |-> stock,
                 own |-> [k \in Keys |-> NoRow],
                 entry |-> [k \in Keys |-> 0],
                 counted |-> {}, clamped |-> {}]
<1>1. t \in Txn BY DEF Txn, InvTypeOK
<1>2. txn' = [txn EXCEPT ![c] = t] BY DEF Begin
<1>3. UNCHANGED stockVars BY DEF Begin
<1> HIDE DEF t
<1>4. txn'[c] = t BY <1>2 DEF InvTypeOK
<1>5. \A d \in Clients \ {c} : txn'[d] = txn[d] BY <1>2 DEF InvTypeOK
<1>6. txn' \in [Clients -> Txn \cup {NoTxn}] BY <1>1, <1>2 DEF InvTypeOK
<1> QED BY <1>3, <1>4, <1>5, <1>6 DEF t

\* Every request starts a transaction.
LEMMA RequestBegins ==
  ASSUME NEW c \in Clients, Request(c)
  PROVE  \E plan \in Seq(Write) : Begin(c, plan)
<1>1. PICK k \in Keys, n \in Amounts :
        \/ Receipt(c, k, n) \/ Issue(c, k, n)
        \/ Lock(c, k, n) \/ Unlock(c, k, n)
        \/ Adjust(c, k, n) \/ Adjust(c, k, -n)
        \/ \E l \in Keys : Transfer(c, k, l, n)
  BY DEF Request
<1>2. n \in Nat /\ n > 0 OBVIOUS
<1>3. \A l \in Keys :
        /\ [kind |-> "add", key |-> l, qty |-> n] \in Write
        /\ [kind |-> "sub", key |-> l, qty |-> -n] \in Write
        /\ [kind |-> "hold", key |-> l, qty |-> n] \in Write
        /\ [kind |-> "hold", key |-> l, qty |-> -n] \in Write
        /\ [kind |-> "adjust", key |-> l, qty |-> n] \in Write
        /\ [kind |-> "adjust", key |-> l, qty |-> -n] \in Write
  BY <1>2 DEF Write, Kinds
<1>4. \A v, w \in Write : <<v>> \in Seq(Write) /\ <<v, w>> \in Seq(Write)
  OBVIOUS
<1>5. CASE \E l \in Keys : Transfer(c, k, l, n)
  BY <1>3, <1>4, <1>5 DEF Transfer
<1>6. CASE Receipt(c, k, n) BY <1>3, <1>4, <1>6 DEF Receipt
<1>7. CASE Issue(c, k, n) BY <1>3, <1>4, <1>7 DEF Issue
<1>8. CASE Lock(c, k, n) BY <1>3, <1>4, <1>8 DEF Lock
<1>9. CASE Unlock(c, k, n) BY <1>3, <1>4, <1>9 DEF Unlock
<1>10. CASE Adjust(c, k, n) BY <1>3, <1>4, <1>10 DEF Adjust
<1>11. CASE Adjust(c, k, -n) BY <1>3, <1>4, <1>11 DEF Adjust
<1> QED BY <1>1, <1>5, <1>6, <1>7, <1>8, <1>9, <1>10, <1>11

\* The kinds of step there are.
LEMMA StepCases ==
  ASSUME InvTypeOK, [InvNext]_invVars
  PROVE  \/ \E c \in Clients, plan \in Seq(Write) : Begin(c, plan)
         \/ \E c \in Clients : Update(c)
         \/ \E c \in Clients : Insert(c)
         \/ \E c \in Clients : PassOver(c)
         \/ \E c \in Clients : Release(c) /\ UNCHANGED stockVars
         \/ \E c \in Clients : Commit(c)
         \/ UNCHANGED invVars
<1>1. CASE UNCHANGED invVars BY <1>1
<1>4. ASSUME NEW c \in Clients, Reject(c) \/ GiveUp(c)
      PROVE  Release(c) /\ UNCHANGED stockVars
  BY <1>4 DEF Reject, GiveUp
<1> QED BY <1>1, <1>4 DEF InvNext, Step

LEMMA ReleaseEffect ==
  ASSUME InvTypeOK, NEW c \in Clients, Release(c)
  PROVE  /\ txn' \in [Clients -> Txn \cup {NoTxn}]
         /\ \A d \in Clients \ {c} : txn'[d] = txn[d]
         /\ txn'[c] = NoTxn
  BY DEF Release, InvTypeOK

LEMMA PassOverEffect ==
  ASSUME InvTypeOK, NEW c \in Clients, PassOver(c)
  PROVE  /\ txn' \in [Clients -> Txn \cup {NoTxn}]
         /\ \A d \in Clients \ {c} : txn'[d] = txn[d]
         /\ IsOpen(c)
         /\ txn'[c].stage = "open"
         /\ txn'[c].snap = txn[c].snap
         /\ txn'[c].own = txn[c].own
         /\ txn'[c].entry = txn[c].entry
         /\ txn'[c].counted = txn[c].counted
         /\ txn'[c].clamped = txn[c].clamped
         /\ UNCHANGED stockVars
<1>1. IsOpen(c) /\ txn[c] \in Txn /\ txn[c].todo # <<>>
  BY TxnType DEF PassOver
<1>2. txn' = [txn EXCEPT ![c].todo = Tail(txn[c].todo)] BY DEF PassOver
<1>3. Tail(txn[c].todo) \in Seq(Write) BY <1>1 DEF Txn
<1>4. txn'[c] = [txn[c] EXCEPT !.todo = Tail(txn[c].todo)]
  BY <1>2 DEF InvTypeOK
<1>5. txn'[c] \in Txn BY <1>1, <1>3, <1>4 DEF Txn
<1>6. \A d \in Clients \ {c} : txn'[d] = txn[d] BY <1>2 DEF InvTypeOK
<1>7. txn' \in [Clients -> Txn \cup {NoTxn}]
  BY <1>2, <1>5, <1>4, <1>6 DEF InvTypeOK
<1> QED BY <1>1, <1>4, <1>6, <1>7 DEF PassOver, Txn

\* An UPDATE or INSERT leaves a row of the right type with the transaction.
LEMMA WriteEffect ==
  ASSUME InvTypeOK, NoDelete, NEW c \in Clients, Update(c) \/ Insert(c)
  PROVE  LET w == Head(txn[c].todo)
             read == ReadRow(c, w.key)
             row == IF read = NoRow THEN Received(w.qty)
                    ELSE Written(w, read, FoundRow(c, w.key))
         IN /\ IsOpen(c) /\ txn[c].todo # <<>> /\ w \in Write
            /\ RowFree(c, w.key)
            /\ row \in Row
            /\ Proceed(c, w, row)
            /\ UNCHANGED stockVars
            /\ read = NoRow => w.kind = "add" /\ stock[w.key] = NoRow
            /\ read # NoRow => /\ read \in Row
                               /\ FoundRow(c, w.key) \in Row
                               /\ Permitted(w, read)
<1> DEFINE w == Head(txn[c].todo)
           read == ReadRow(c, w.key)
<1>1. IsOpen(c) /\ txn[c].todo # <<>> BY DEF Update, Insert
<1>2. txn[c] \in Txn BY <1>1, TxnType
<1>3. w \in Write BY <1>1, <1>2 DEF Txn
<1>4. w.key \in Keys BY <1>3, WriteType
<1>5. CASE Update(c)
  <2>1. /\ read # NoRow /\ Permitted(w, read) /\ RowFree(c, w.key)
        /\ Proceed(c, w, Written(w, read, FoundRow(c, w.key)))
        /\ UNCHANGED stockVars
    BY <1>5 DEF Update
  <2>2. FoundRow(c, w.key) \in Row /\ read \in Row
    BY <1>1, <1>4, <2>1, RowFound
  <2>3. Written(w, read, FoundRow(c, w.key)) \in Row
    BY <1>3, <2>1, <2>2, WrittenType
  <2> QED BY <1>1, <1>3, <2>1, <2>2, <2>3
<1>6. CASE Insert(c)
  <2>1. /\ read = NoRow /\ w.kind = "add" /\ stock[w.key] = NoRow
        /\ RowFree(c, w.key) /\ Proceed(c, w, Received(w.qty))
        /\ UNCHANGED stockVars
    BY <1>6 DEF Insert
  <2>2. Received(w.qty) \in Row
    BY <1>3, <2>1, WriteType DEF Received, Row
  <2> QED BY <1>1, <1>3, <2>1, <2>2
<1> QED BY <1>5, <1>6

-----------------------------------------------------------------------------
(* Types *)

LEMMA TypeInit == InvInit => InvTypeOK /\ NoDelete
<1> SUFFICES ASSUME InvInit PROVE InvTypeOK /\ NoDelete OBVIOUS
<1>1. \A k \in Keys : Received(Opening[k]) \in Row BY DEF Received, Row
<1>2. \A k \in Keys : stock[k] \in Row \cup {NoRow}
  BY <1>1 DEF InvInit
<1>3. stock \in [Keys -> Row \cup {NoRow}] BY <1>2 DEF InvInit
<1>4. NoDelete BY DEF InvInit, NoDelete, IsOpen, NoTxn
<1>5. ledger \in [Keys -> Int] BY DEF InvInit
<1> QED BY <1>3, <1>4, <1>5 DEF InvInit, InvTypeOK

\* A commit puts the versions of the transaction in the place of the rows.
LEMMA CommitEffect ==
  ASSUME InvTypeOK, NEW c \in Clients, Commit(c)
  PROVE  /\ IsOpen(c) /\ txn[c] \in Txn
         /\ txn'[c] = NoTxn
         /\ \A d \in Clients \ {c} : txn'[d] = txn[d]
         /\ \A k \in Keys : /\ Holds(c, k) => stock'[k] = txn[c].own[k]
                            /\ ~Holds(c, k) => stock'[k] = stock[k]
                            /\ ledger'[k] = ledger[k] + txn[c].entry[k]
         /\ \A k \in Keys :
              /\ k \in lost => k \in lost'
              /\ Holds(c, k) /\ stock[k] # txn[c].snap[k] => k \in lost'
         /\ counted' = counted \cup txn[c].counted
         /\ clamped' = clamped \cup txn[c].clamped
         /\ InvTypeOK'
<1>1. IsOpen(c) /\ Release(c) BY DEF Commit
<1>2. txn[c] \in Txn BY <1>1, TxnType
<1>3. /\ txn' \in [Clients -> Txn \cup {NoTxn}]
      /\ \A d \in Clients \ {c} : txn'[d] = txn[d]
      /\ txn'[c] = NoTxn
  BY <1>1, ReleaseEffect
<1>4. stock' = [k \in Keys |-> IF Holds(c, k) THEN txn[c].own[k] ELSE stock[k]]
  BY DEF Commit
<1>5. stock' \in [Keys -> Row \cup {NoRow}]
  <2>1. \A k \in Keys : txn[c].own[k] \in Row \cup {NoRow} BY <1>2 DEF Txn
  <2> QED BY <1>4, <2>1 DEF InvTypeOK
<1>6. ledger' = [k \in Keys |-> ledger[k] + txn[c].entry[k]] BY DEF Commit
<1>7. ledger' \in [Keys -> Int]
  <2>1. \A k \in Keys : txn[c].entry[k] \in Int BY <1>2 DEF Txn
  <2> QED BY <1>6, <2>1 DEF InvTypeOK
<1>8. txn[c].counted \subseteq Keys /\ txn[c].clamped \subseteq Keys
  BY <1>2 DEF Txn
<1>9. /\ counted' = counted \cup txn[c].counted
      /\ clamped' = clamped \cup txn[c].clamped
      /\ lost' = lost \cup
           {k \in Keys : Holds(c, k) /\ stock[k] # txn[c].snap[k]}
  BY DEF Commit
<1>10. InvTypeOK' BY <1>3, <1>5, <1>7, <1>8, <1>9 DEF InvTypeOK
<1> QED BY <1>1, <1>2, <1>3, <1>4, <1>6, <1>9, <1>10

LEMMA TypeNext ==
  ASSUME InvTypeOK, NoDelete, [InvNext]_invVars
  PROVE  InvTypeOK' /\ NoDelete'
<1>1. ASSUME NEW c \in Clients, NEW plan \in Seq(Write), Begin(c, plan)
      PROVE  InvTypeOK' /\ NoDelete'
  <2>1. /\ txn' \in [Clients -> Txn \cup {NoTxn}]
        /\ \A d \in Clients \ {c} : txn'[d] = txn[d]
        /\ txn'[c].snap = stock
        /\ UNCHANGED stockVars
    BY <1>1, BeginEffect
  <2>2. InvTypeOK' BY <2>1 DEF InvTypeOK, stockVars
  <2>3. NoDelete' BY <2>1 DEF NoDelete, stockVars, IsOpen
  <2> QED BY <2>2, <2>3
<1>2. ASSUME NEW c \in Clients, Update(c) \/ Insert(c)
      PROVE  InvTypeOK' /\ NoDelete'
  <2>1. PICK row \in Row : /\ Proceed(c, Head(txn[c].todo), row)
                           /\ IsOpen(c) /\ txn[c].todo # <<>>
                           /\ UNCHANGED stockVars
    BY <1>2, WriteEffect
  <2>2. /\ txn' \in [Clients -> Txn \cup {NoTxn}]
        /\ \A d \in Clients \ {c} : txn'[d] = txn[d]
        /\ txn'[c].snap = txn[c].snap
    BY <2>1, ProceedEffect
  <2> QED BY ZenonT(60), <2>1, <2>2 DEF InvTypeOK, NoDelete, stockVars, IsOpen
<1>3. ASSUME NEW c \in Clients, PassOver(c)
      PROVE  InvTypeOK' /\ NoDelete'
  BY <1>3, PassOverEffect DEF InvTypeOK, NoDelete, stockVars, IsOpen
<1>4. ASSUME NEW c \in Clients, Release(c), UNCHANGED stockVars
      PROVE  InvTypeOK' /\ NoDelete'
  BY <1>4, ReleaseEffect DEF InvTypeOK, NoDelete, stockVars, IsOpen, NoTxn
<1>5. ASSUME NEW c \in Clients, Commit(c)
      PROVE  InvTypeOK' /\ NoDelete'
  <2>1. InvTypeOK' BY <1>5, CommitEffect
  <2>2. ASSUME NEW d \in Clients, NEW k \in Keys,
               IsOpen(d)', txn'[d].snap[k] # NoRow
        PROVE  stock'[k] # NoRow
    <3>1. d # c BY <1>5, <2>2, CommitEffect DEF IsOpen, NoTxn
    <3>2. IsOpen(d) /\ txn[d].snap[k] # NoRow
      BY <1>5, <2>2, <3>1, CommitEffect DEF IsOpen
    <3>3. stock[k] # NoRow BY <3>2 DEF NoDelete
    <3> QED BY <1>5, <3>3, CommitEffect DEF Holds
  <2> QED BY <2>1, <2>2 DEF NoDelete
<1>6. CASE UNCHANGED invVars
  BY <1>6 DEF invVars, InvTypeOK, NoDelete, IsOpen
<1> QED BY <1>1, <1>2, <1>3, <1>4, <1>5, <1>6, StepCases

(***************************************************************************)
(* The rows, transactions and ledger keep their types: in particular no    *)
(* quantity, available quantity or locked quantity is ever negative, even  *)
(* when transactions write over each other.                                *)
(***************************************************************************)
THEOREM InvTypeCorrect == InvSpec => []InvTypeOK
<1>1. InvInit => InvTypeOK /\ NoDelete BY TypeInit
<1>2. (InvTypeOK /\ NoDelete) /\ [InvNext]_invVars
        => (InvTypeOK /\ NoDelete)'
  BY TypeNext
<1> QED BY <1>1, <1>2, PTL DEF InvSpec

-----------------------------------------------------------------------------
(* Rows, holds and ledger *)

\* A row updated and not yet committed is in the hands of one transaction.
OneHolder ==
  \A c, d \in Clients, k \in Keys : Holds(c, k) /\ Holds(d, k) => c = d

\* What the version of a row will satisfy if it is committed.
Account(c, k) ==
  /\ ~Holds(c, k) => txn[c].entry[k] = 0
  /\ Holds(c, k) /\ stock[k] = txn[c].snap[k] =>
       LET own == txn[c].own[k]
       IN /\ k \notin lost \cup counted \cup txn[c].counted =>
               own.quantity = ledger[k] + txn[c].entry[k]
          /\ k \notin lost \cup clamped \cup txn[c].clamped =>
               own.availableQty + own.lockedQty = own.quantity
          /\ k \notin lost =>
               own.availableQty + own.lockedQty >= own.quantity

Accounts == \A c \in Clients, k \in Keys : IsOpen(c) => Account(c, k)

Sound == LedgerExplains /\ Balanced /\ Covered

StockInv == InvTypeOK /\ NoDelete /\ OneHolder /\ Accounts /\ Sound

\* One write of one row, from a row in order to a row in order.
LEMMA WriteArithmetic ==
  ASSUME NEW w \in Write, NEW read \in Row, Permitted(w, read)
  PROVE  LET row == Written(w, read, read) IN
         /\ w.kind # "count" => row.quantity = read.quantity + Entry(w)
         /\ (w.kind = "hold" \/ read.availableQty + w.qty >= 0) =>
               row.availableQty + row.lockedQty - row.quantity =
               read.availableQty + read.lockedQty - read.quantity
         /\ read.availableQty + read.lockedQty >= read.quantity =>
               row.availableQty + row.lockedQty >= row.quantity
<1>1. /\ read.quantity \in Nat /\ read.availableQty \in Nat
      /\ read.lockedQty \in Nat /\ w.qty \in Int /\ w.kind \in Kinds
  BY WriteType DEF Row
<1>2. CASE w.kind = "hold" BY <1>1, <1>2 DEF Written, Entry
<1>3. CASE w.kind # "hold"
  <2>1. CutOff(w, read.availableQty + w.qty) \in Int
    BY <1>1 DEF CutOff
  <2>2. CutOff(w, read.availableQty + w.qty) >= read.availableQty + w.qty
    BY <1>1 DEF CutOff
  <2>3. read.availableQty + w.qty >= 0 =>
          CutOff(w, read.availableQty + w.qty) = read.availableQty + w.qty
    BY <1>1 DEF CutOff
  <2>4. w.kind # "count" => Entry(w) = w.qty BY <1>3 DEF Entry
  <2> QED BY <1>1, <1>3, <2>1, <2>2, <2>3, <2>4 DEF Written
<1> QED BY <1>2, <1>3

\* The row that is read, when nothing was committed to it since.
LEMMA ReadInOrder ==
  ASSUME StockInv, NEW c \in Clients, NEW k \in Keys, IsOpen(c),
         stock[k] = txn[c].snap[k], ReadRow(c, k) # NoRow
  PROVE  LET read == ReadRow(c, k) IN
         /\ FoundRow(c, k) = read
         /\ k \notin lost \cup counted \cup txn[c].counted =>
               read.quantity = ledger[k] + txn[c].entry[k]
         /\ k \notin lost \cup clamped \cup txn[c].clamped =>
               read.availableQty + read.lockedQty = read.quantity
         /\ k \notin lost =>
               read.availableQty + read.lockedQty >= read.quantity
<1>1. Account(c, k) BY DEF StockInv, Accounts
<1>2. CASE Holds(c, k)
  BY <1>1, <1>2 DEF Account, ReadRow, FoundRow
<1>3. CASE ~Holds(c, k)
  <2>1. ReadRow(c, k) = stock[k] /\ FoundRow(c, k) = stock[k]
    BY <1>3 DEF ReadRow, FoundRow
  <2>2. stock[k] # NoRow BY <2>1
  <2>3. stock[k] \in Row BY <2>2 DEF StockInv, InvTypeOK
  <2>4. stock[k].quantity \in Nat BY <2>3 DEF Row
  <2>5. txn[c].entry[k] = 0 BY <1>1, <1>3 DEF Account
  <2>6. k \notin lost \cup counted => stock[k].quantity = ledger[k]
    BY <2>2 DEF StockInv, Sound, LedgerExplains, Quantity
  <2>7. ledger[k] \in Int BY DEF StockInv, InvTypeOK
  <2>8. /\ k \notin lost \cup clamped =>
             stock[k].availableQty + stock[k].lockedQty = stock[k].quantity
        /\ k \notin lost =>
             stock[k].availableQty + stock[k].lockedQty >= stock[k].quantity
    BY <2>2 DEF StockInv, Sound, Balanced, Covered
  <2> QED BY <2>1, <2>4, <2>5, <2>6, <2>7, <2>8
<1> QED BY <1>2, <1>3

\* The account of the row that a transaction has just written.
LEMMA WrittenAccount ==
  ASSUME StockInv, NEW c \in Clients, Update(c) \/ Insert(c),
         NEW k \in Keys, k = Head(txn[c].todo).key
  PROVE  Account(c, k)'
<1> DEFINE w == Head(txn[c].todo)
           read == ReadRow(c, k)
           row == IF read = NoRow THEN Received(w.qty)
                  ELSE Written(w, read, FoundRow(c, k))
<1>1. InvTypeOK /\ NoDelete BY DEF StockInv
<1>2. /\ IsOpen(c) /\ txn[c].todo # <<>> /\ w \in Write
      /\ row \in Row
      /\ Proceed(c, w, row)
      /\ UNCHANGED stockVars
      /\ read = NoRow => w.kind = "add" /\ stock[k] = NoRow
      /\ read # NoRow => read \in Row /\ Permitted(w, read)
  BY <1>1, WriteEffect
<1>3. /\ txn'[c].stage = "open"
      /\ txn'[c].snap = txn[c].snap
      /\ txn'[c].own = [txn[c].own EXCEPT ![k] = row]
      /\ txn'[c].entry = [txn[c].entry EXCEPT ![k] = txn[c].entry[k] + Entry(w)]
      /\ txn'[c].counted = IF w.kind = "count" THEN txn[c].counted \cup {k}
                           ELSE txn[c].counted
      /\ txn'[c].clamped = IF /\ read # NoRow
                              /\ w.kind # "hold"
                              /\ read.availableQty + w.qty < 0
                           THEN txn[c].clamped \cup {k}
                           ELSE txn[c].clamped
  BY <1>1, <1>2, ProceedEffect
<1>4. k \in Keys /\ w.qty \in Int /\ Entry(w) \in Int BY <1>2, WriteType
<1>5. txn[c] \in Txn BY <1>1, <1>2, TxnType
<1>6. txn[c].entry[k] \in Int /\ txn[c].entry \in [Keys -> Int]
  BY <1>4, <1>5 DEF Txn
<1>7. txn'[c].own[k] = row /\ txn'[c].entry[k] = txn[c].entry[k] + Entry(w)
  <2>1. txn[c].own \in [Keys -> Row \cup {NoRow}] BY <1>5 DEF Txn
  <2> HIDE DEF w, row
  <2> QED BY <1>3, <1>4, <1>6, <2>1
<1>8. row # NoRow BY <1>2
<1>9. Holds(c, k)'
  <2> HIDE DEF row
  <2> QED BY <1>3, <1>7, <1>8 DEF Holds, IsOpen
<1>10. ledger[k] \in Int BY <1>1, <1>4 DEF InvTypeOK
<1>11. ASSUME stock[k] = txn[c].snap[k]
       PROVE  /\ k \notin lost \cup counted \cup txn'[c].counted =>
                   row.quantity = ledger[k] + (txn[c].entry[k] + Entry(w))
              /\ k \notin lost \cup clamped \cup txn'[c].clamped =>
                   row.availableQty + row.lockedQty = row.quantity
              /\ k \notin lost =>
                   row.availableQty + row.lockedQty >= row.quantity
  <2>1. CASE read = NoRow
    <3>1. row = Received(w.qty) /\ Entry(w) = w.qty
      BY <1>2, <2>1 DEF Entry
    <3>2. ~Holds(c, k) BY <2>1 DEF ReadRow, Holds
    <3>3. txn[c].entry[k] = 0
      BY <1>2, <1>4, <3>2 DEF StockInv, Accounts, Account
    <3>4. k \notin lost \cup counted => ledger[k] = 0
      BY <1>2, <1>4, <2>1 DEF StockInv, Sound, LedgerExplains, Quantity
    <3> HIDE DEF row, read, w
    <3> QED BY <1>4, <1>10, <3>1, <3>3, <3>4 DEF Received
  <2>2. CASE read # NoRow
    <3>1. /\ FoundRow(c, k) = read
          /\ k \notin lost \cup counted \cup txn[c].counted =>
                read.quantity = ledger[k] + txn[c].entry[k]
          /\ k \notin lost \cup clamped \cup txn[c].clamped =>
                read.availableQty + read.lockedQty = read.quantity
          /\ k \notin lost =>
                read.availableQty + read.lockedQty >= read.quantity
      BY <1>2, <1>4, <1>11, <2>2, ReadInOrder
    <3>2. row = Written(w, read, read) BY <2>2, <3>1
    <3>3. read \in Row /\ row \in Row /\ Permitted(w, read) BY <1>2, <2>2
    <3>5. /\ read.quantity \in Nat /\ read.availableQty \in Nat
          /\ read.lockedQty \in Nat /\ row.quantity \in Nat
          /\ row.availableQty \in Nat /\ row.lockedQty \in Nat
      BY <3>3 DEF Row
    <3>6. k \notin txn'[c].counted => k \notin txn[c].counted /\ w.kind # "count"
      BY <1>3
    <3>7. k \notin txn'[c].clamped =>
            /\ k \notin txn[c].clamped
            /\ w.kind = "hold" \/ ~(read.availableQty + w.qty < 0)
      BY <1>3, <2>2
    <3> HIDE DEF row, read, w
    <3>4. /\ w.kind # "count" => row.quantity = read.quantity + Entry(w)
          /\ (w.kind = "hold" \/ read.availableQty + w.qty >= 0) =>
                row.availableQty + row.lockedQty - row.quantity =
                read.availableQty + read.lockedQty - read.quantity
          /\ read.availableQty + read.lockedQty >= read.quantity =>
                row.availableQty + row.lockedQty >= row.quantity
      BY <1>2, <3>2, <3>3, WriteArithmetic
    <3>8. k \notin lost \cup counted \cup txn'[c].counted =>
            row.quantity = ledger[k] + (txn[c].entry[k] + Entry(w))
      BY <1>4, <1>6, <1>10, <3>1, <3>4, <3>5, <3>6
    <3>9. k \notin lost \cup clamped \cup txn'[c].clamped =>
            row.availableQty + row.lockedQty = row.quantity
      BY <1>4, <3>1, <3>4, <3>5, <3>7
    <3> QED BY <3>1, <3>4, <3>8, <3>9
  <2> QED BY <2>1, <2>2
<1>12. /\ stock' = stock /\ ledger' = ledger /\ lost' = lost
       /\ counted' = counted /\ clamped' = clamped
  BY <1>2 DEF stockVars
<1> HIDE DEF row, read, w
<1> QED BY <1>3, <1>7, <1>9, <1>11, <1>12 DEF Account

LEMMA StockInit == InvInit => StockInv
<1> SUFFICES ASSUME InvInit PROVE StockInv OBVIOUS
<1>1. InvTypeOK /\ NoDelete BY TypeInit
<1>2. OneHolder /\ Accounts
  BY DEF InvInit, OneHolder, Accounts, Holds, IsOpen, NoTxn
<1>3. ASSUME NEW k \in Keys
      PROVE  /\ Quantity(stock[k]) = ledger[k]
             /\ stock[k] # NoRow =>
                  stock[k].availableQty + stock[k].lockedQty = stock[k].quantity
             /\ stock[k] # NoRow =>
                  stock[k].availableQty + stock[k].lockedQty >= stock[k].quantity
  <2>1. Opening[k] \in Nat /\ ledger[k] = Opening[k] BY DEF InvInit
  <2>2. CASE Opening[k] = 0 BY <2>1, <2>2 DEF InvInit, Quantity
  <2>3. CASE Opening[k] # 0
    <3>1. stock[k] = Received(Opening[k]) BY <2>3 DEF InvInit
    <3>2. Received(Opening[k]) \in Row BY <2>1 DEF Received, Row
    <3> QED BY <2>1, <3>1, <3>2 DEF Received, Quantity
  <2> QED BY <2>2, <2>3
<1>4. Sound BY <1>3 DEF Sound, LedgerExplains, Balanced, Covered
<1> QED BY <1>1, <1>2, <1>4 DEF StockInv

\* A step that leaves rows and ledger alone, and the transactions of all
\* others, keeps their accounts.
LEMMA OthersKeep ==
  ASSUME StockInv, NEW c \in Clients, UNCHANGED stockVars,
         \A d \in Clients \ {c} : txn'[d] = txn[d]
  PROVE  /\ \A d \in Clients \ {c}, k \in Keys : IsOpen(d)' => Account(d, k)'
         /\ \A d \in Clients \ {c}, k \in Keys : Holds(d, k)' <=> Holds(d, k)
         /\ Sound'
<1>1. /\ stock' = stock /\ ledger' = ledger /\ lost' = lost
      /\ counted' = counted /\ clamped' = clamped
  BY DEF stockVars
<1>2. Sound'
  BY <1>1 DEF StockInv, Sound, LedgerExplains, Balanced, Covered
<1>3. ASSUME NEW d \in Clients \ {c}, NEW k \in Keys
      PROVE  (IsOpen(d)' => Account(d, k)') /\ (Holds(d, k)' <=> Holds(d, k))
  <2>1. IsOpen(d)' <=> IsOpen(d) BY DEF IsOpen
  <2>2. Holds(d, k)' <=> Holds(d, k) BY <2>1 DEF Holds
  <2>3. IsOpen(d) => Account(d, k) BY DEF StockInv, Accounts
  <2> QED BY <1>1, <2>1, <2>2, <2>3 DEF Account
<1> QED BY <1>2, <1>3

\* What is left to show for such a step is the transaction of c.
LEMMA OwnAccount ==
  ASSUME StockInv, [InvNext]_invVars, NEW c \in Clients, UNCHANGED stockVars,
         \A d \in Clients \ {c} : txn'[d] = txn[d],
         \A k \in Keys : IsOpen(c)' => Account(c, k)',
         \A k \in Keys : Holds(c, k)' => Holds(c, k) \/ RowFree(c, k)
  PROVE  StockInv'
<1>1. InvTypeOK' /\ NoDelete' BY TypeNext DEF StockInv
<1>2. Sound' BY OthersKeep
<1>3. Accounts' BY OthersKeep DEF Accounts
<1>4. OneHolder' BY OthersKeep DEF StockInv, OneHolder, RowFree
<1> QED BY <1>1, <1>2, <1>3, <1>4 DEF StockInv

LEMMA WriteKeeps ==
  ASSUME StockInv, [InvNext]_invVars, NEW c \in Clients,
         Update(c) \/ Insert(c)
  PROVE  StockInv'
<1> DEFINE w == Head(txn[c].todo)
<1>1. InvTypeOK /\ NoDelete BY DEF StockInv
<1>2. PICK row \in Row :
        /\ IsOpen(c) /\ txn[c].todo # <<>> /\ w \in Write
        /\ RowFree(c, w.key) /\ Proceed(c, w, row) /\ UNCHANGED stockVars
  BY <1>1, WriteEffect
<1>3. /\ \A d \in Clients \ {c} : txn'[d] = txn[d]
      /\ txn'[c].stage = "open"
      /\ txn'[c].snap = txn[c].snap
      /\ txn'[c].own = [txn[c].own EXCEPT ![w.key] = row]
      /\ txn'[c].entry = [txn[c].entry EXCEPT
                            ![w.key] = txn[c].entry[w.key] + Entry(w)]
      /\ txn'[c].counted = IF w.kind = "count" THEN txn[c].counted \cup {w.key}
                           ELSE txn[c].counted
      /\ txn'[c].clamped = IF /\ ReadRow(c, w.key) # NoRow
                              /\ w.kind # "hold"
                              /\ ReadRow(c, w.key).availableQty + w.qty < 0
                           THEN txn[c].clamped \cup {w.key}
                           ELSE txn[c].clamped
  BY <1>1, <1>2, ProceedEffect
<1>4. txn[c] \in Txn BY <1>1, <1>2, TxnType
<1>5. ASSUME NEW k \in Keys, k # w.key
      PROVE  Account(c, k)' /\ (Holds(c, k)' => Holds(c, k))
  <2>1. txn'[c].own[k] = txn[c].own[k] /\ txn'[c].entry[k] = txn[c].entry[k]
    <3>1. txn[c].own \in [Keys -> Row \cup {NoRow}] BY <1>4 DEF Txn
    <3>2. txn[c].entry \in [Keys -> Int] BY <1>4 DEF Txn
    <3> HIDE DEF w
    <3> QED BY <1>3, <1>5, <3>1, <3>2
  <2>2. IsOpen(c) /\ IsOpen(c)' BY <1>2, <1>3 DEF IsOpen
  <2>3. Holds(c, k)' <=> Holds(c, k) BY <2>1, <2>2 DEF Holds
  <2>4. Account(c, k) BY <2>2 DEF StockInv, Accounts
  <2>5. /\ k \in txn[c].counted => k \in txn'[c].counted
        /\ k \in txn[c].clamped => k \in txn'[c].clamped
    <3> HIDE DEF w
    <3> QED BY <1>3
  <2>6. /\ stock' = stock /\ ledger' = ledger /\ lost' = lost
        /\ counted' = counted /\ clamped' = clamped
    BY <1>2 DEF stockVars
  <2> HIDE DEF w
  <2> QED BY <1>3, <2>1, <2>3, <2>4, <2>5, <2>6 DEF Account
<1>6. \A k \in Keys : Account(c, k)'
  BY <1>5, WrittenAccount
<1>7. \A k \in Keys : Holds(c, k)' => Holds(c, k) \/ RowFree(c, k)
  BY <1>2, <1>5
<1> QED BY <1>2, <1>3, <1>6, <1>7, OwnAccount

LEMMA CommitKeeps ==
  ASSUME StockInv, [InvNext]_invVars, NEW c \in Clients, Commit(c)
  PROVE  StockInv'
<1>1. InvTypeOK' /\ NoDelete' BY TypeNext DEF StockInv
<1>2. InvTypeOK BY DEF StockInv
<1>3. /\ IsOpen(c) /\ txn[c] \in Txn
      /\ txn'[c] = NoTxn
      /\ \A d \in Clients \ {c} : txn'[d] = txn[d]
      /\ \A k \in Keys : /\ Holds(c, k) => stock'[k] = txn[c].own[k]
                         /\ ~Holds(c, k) => stock'[k] = stock[k]
                         /\ ledger'[k] = ledger[k] + txn[c].entry[k]
      /\ \A k \in Keys :
           /\ k \in lost => k \in lost'
           /\ Holds(c, k) /\ stock[k] # txn[c].snap[k] => k \in lost'
      /\ counted' = counted \cup txn[c].counted
      /\ clamped' = clamped \cup txn[c].clamped
  BY <1>2, CommitEffect
<1>4. ~IsOpen(c)' BY <1>3 DEF IsOpen, NoTxn
<1>5. \A d \in Clients \ {c} : IsOpen(d)' <=> IsOpen(d) BY <1>3 DEF IsOpen
<1>6. \A d \in Clients \ {c}, k \in Keys : Holds(d, k)' <=> Holds(d, k)
  BY <1>3, <1>5 DEF Holds
<1>7. OneHolder' BY <1>4, <1>6 DEF StockInv, OneHolder, Holds
<1>8. ASSUME NEW k \in Keys
      PROVE  /\ ledger[k] \in Int /\ txn[c].entry[k] \in Int
             /\ Account(c, k)
  BY <1>2, <1>3 DEF InvTypeOK, Txn, StockInv, Accounts
<1>9. ASSUME NEW d \in Clients, NEW k \in Keys, IsOpen(d)'
      PROVE  Account(d, k)'
  <2>1. d # c /\ IsOpen(d) /\ txn'[d] = txn[d] BY <1>3, <1>4, <1>5, <1>9
  <2>2. Account(d, k) BY <2>1 DEF StockInv, Accounts
  <2>3. Holds(d, k)' <=> Holds(d, k) BY <1>6, <2>1
  <2>4. CASE ~Holds(d, k) BY <2>1, <2>2, <2>3, <2>4 DEF Account
  <2>5. CASE Holds(d, k)
    <3>1. ~Holds(c, k) BY <2>1, <2>5 DEF StockInv, OneHolder
    <3>2. stock'[k] = stock[k] /\ ledger'[k] = ledger[k]
      BY <1>3, <1>8, <3>1 DEF Account
    <3>3. /\ k \notin lost' => k \notin lost
          /\ k \notin counted' => k \notin counted
          /\ k \notin clamped' => k \notin clamped
      BY <1>3
    <3> QED BY <2>1, <2>2, <2>3, <2>5, <3>2, <3>3 DEF Account
  <2> QED BY <2>4, <2>5
<1>10. Accounts' BY <1>9 DEF Accounts
<1>11. ASSUME NEW k \in Keys
       PROVE  /\ k \notin lost' \cup counted' => Quantity(stock'[k]) = ledger'[k]
              /\ k \notin lost' \cup clamped' /\ stock'[k] # NoRow =>
                   stock'[k].availableQty + stock'[k].lockedQty
                     = stock'[k].quantity
              /\ k \notin lost' /\ stock'[k] # NoRow =>
                   stock'[k].availableQty + stock'[k].lockedQty
                     >= stock'[k].quantity
  <2>1. /\ k \notin lost' => k \notin lost
        /\ k \notin counted' => k \notin counted \cup txn[c].counted
        /\ k \notin clamped' => k \notin clamped \cup txn[c].clamped
    BY <1>3
  <2>2. CASE Holds(c, k)
    <3>1. stock'[k] = txn[c].own[k] /\ stock'[k] # NoRow
      BY <1>3, <2>2 DEF Holds
    <3>2. k \notin lost' => stock[k] = txn[c].snap[k] BY <1>3, <2>2
    <3> QED BY <1>3, <1>8, <2>1, <2>2, <3>1, <3>2 DEF Account, Quantity
  <2>3. CASE ~Holds(c, k)
    <3>1. stock'[k] = stock[k] /\ ledger'[k] = ledger[k]
      BY <1>3, <1>8, <2>3 DEF Account
    <3> QED BY <2>1, <3>1
            DEF StockInv, Sound, LedgerExplains, Balanced, Covered
  <2> QED BY <2>2, <2>3
<1>12. Sound' BY <1>11 DEF Sound, LedgerExplains, Balanced, Covered
<1> QED BY <1>1, <1>7, <1>10, <1>12 DEF StockInv

LEMMA StockNext ==
  ASSUME StockInv, [InvNext]_invVars
  PROVE  StockInv'
<1>1. InvTypeOK BY DEF StockInv
<1>2. ASSUME NEW c \in Clients, NEW plan \in Seq(Write), Begin(c, plan)
      PROVE  StockInv'
  <2>1. /\ \A d \in Clients \ {c} : txn'[d] = txn[d]
        /\ txn'[c].own = [k \in Keys |-> NoRow]
        /\ txn'[c].entry = [k \in Keys |-> 0]
        /\ UNCHANGED stockVars
    BY <1>1, <1>2, BeginEffect
  <2>2. \A k \in Keys : ~Holds(c, k)' /\ Account(c, k)'
    BY <2>1 DEF Holds, Account
  <2> QED BY <2>1, <2>2, OwnAccount
<1>3. ASSUME NEW c \in Clients, PassOver(c)
      PROVE  StockInv'
  <2>1. /\ \A d \in Clients \ {c} : txn'[d] = txn[d]
        /\ IsOpen(c) /\ txn'[c].stage = "open"
        /\ txn'[c].snap = txn[c].snap /\ txn'[c].own = txn[c].own
        /\ txn'[c].entry = txn[c].entry
        /\ txn'[c].counted = txn[c].counted
        /\ txn'[c].clamped = txn[c].clamped
        /\ UNCHANGED stockVars
    BY <1>1, <1>3, PassOverEffect
  <2>2. \A k \in Keys : Holds(c, k)' <=> Holds(c, k)
    BY <2>1 DEF Holds, IsOpen
  <2>3. \A k \in Keys : Account(c, k) BY <2>1 DEF StockInv, Accounts
  <2>4. \A k \in Keys : Account(c, k)'
    BY <2>1, <2>2, <2>3 DEF Account, stockVars
  <2> QED BY <2>1, <2>2, <2>4, OwnAccount
<1>4. ASSUME NEW c \in Clients, Release(c), UNCHANGED stockVars
      PROVE  StockInv'
  <2>1. (\A d \in Clients \ {c} : txn'[d] = txn[d]) /\ txn'[c] = NoTxn
    BY <1>1, <1>4, ReleaseEffect
  <2>2. ~IsOpen(c)' BY <2>1 DEF IsOpen, NoTxn
  <2> QED BY <1>4, <2>1, <2>2, OwnAccount DEF Holds
<1>5. CASE UNCHANGED invVars
  BY <1>5 DEF invVars, StockInv, InvTypeOK, NoDelete, OneHolder, Accounts,
              Account, Holds, IsOpen, Sound, LedgerExplains, Balanced, Covered
<1> QED BY <1>1, <1>2, <1>3, <1>4, <1>5, StepCases, WriteKeeps, CommitKeeps

(***************************************************************************)
(* However many transactions run at the same time, the ledger explains the *)
(* quantity of every row and its parts add up, unless a transaction wrote  *)
(* over a change it had not read, a stock take corrected the row, or an    *)
(* adjustment went below what is locked.                                   *)
(***************************************************************************)
THEOREM StockIsExplained ==
  InvSpec => [](LedgerExplains /\ Balanced /\ Covered)
<1>1. InvInit => StockInv BY StockInit
<1>2. StockInv /\ [InvNext]_invVars => StockInv' BY StockNext
<1>3. StockInv => LedgerExplains /\ Balanced /\ Covered
  BY DEF StockInv, Sound
<1> QED BY <1>1, <1>2, <1>3, PTL DEF InvSpec

-----------------------------------------------------------------------------
(***************************************************************************)
(* Theorems about Warehouse: its issues and stock takes go through the     *)
(* rows as Inventory lets them, so what is proved of Inventory holds here, *)
(* and what an issue announces is what it took.                            *)
(***************************************************************************)

USE WantsAssumption, BoundsAssumption, KeysAssumption, NoLineAssumption

JobTypeOK ==
  /\ job \in [Clients -> {NoJob} \cup IssueJob \cup ApproveJob]
  /\ line \in [Keys -> Line \cup {NoLine}]

\* The lines an approval has read are there when it writes them.
PlanHasLines ==
  \A c \in Clients : job[c].kind = "approve" =>
     /\ takeStatus # "NONE"
     /\ \A i \in DOMAIN job[c].plan : line[job[c].plan[i].key] # NoLine

LEMMA JobType ==
  ASSUME JobTypeOK, NEW c \in Clients
  PROVE  /\ job[c].kind = "issue" => job[c] \in IssueJob
         /\ job[c].kind = "approve" => job[c] \in ApproveJob
  BY DEF JobTypeOK, NoJob, IssueJob, ApproveJob

LEMMA AvailableType ==
  ASSUME InvTypeOK, NEW k \in Keys
  PROVE  Available(k) \in Nat
  BY DEF InvTypeOK, Row, Available

\* The corrections an approval reads, in any order, are writes of rows.
LEMMA PlanType ==
  ASSUME JobTypeOK, NEW o \in Orders(ToCorrect)
  PROVE  [i \in DOMAIN o |-> Correction(o[i])] \in Seq(Write)
<1>1. ToCorrect \subseteq Keys BY DEF ToCorrect
<1>2. Cardinality(ToCorrect) \in Nat
  BY <1>1, FS_Subset, FS_CardinalityType
<1>3. o \in [1..Cardinality(ToCorrect) -> ToCorrect] BY DEF Orders
<1>4. ASSUME NEW k \in ToCorrect PROVE Correction(k) \in Write
  <2>1. k \in Keys /\ line[k] \in Line BY <1>1 DEF ToCorrect, JobTypeOK
  <2> QED BY <2>1 DEF Correction, Write, Kinds, Line
<1>5. [i \in 1..Cardinality(ToCorrect) |-> Correction(o[i])] \in Seq(Write)
  BY <1>2, <1>3, <1>4
<1> QED BY <1>3, <1>5

\* The transaction an issue begins for its next candidate.
LEMMA IssueBegins ==
  ASSUME NEW c \in Clients, NEW k \in Keys, NEW n \in Int, Issue(c, k, n)
  PROVE  \E plan \in Seq(Write) : Begin(c, plan)
<1>1. [kind |-> "sub", key |-> k, qty |-> -n] \in Write BY DEF Write, Kinds
<1>2. <<[kind |-> "sub", key |-> k, qty |-> -n]>> \in Seq(Write) BY <1>1
<1> QED BY <1>2 DEF Issue

\* Every step of the warehouse is one of the inventory, or leaves it alone.
LEMMA StepIsInventoryStep ==
  ASSUME InvTypeOK, JobTypeOK, [WhNext]_whVars
  PROVE  [InvNext]_invVars
<1>1. ASSUME NEW c \in Clients, Single(c) PROVE InvNext
  BY <1>1, RequestBegins DEF Single, InvNext
<1>2. ASSUME NEW c \in Clients, NEW k \in Keys, IssueNext(c, k) PROVE InvNext
  <2>1. job[c] \in IssueJob BY <1>2, JobType DEF IssueNext
  <2>2. job[c].left \in Nat /\ job[c].cands[k] \in Nat BY <2>1 DEF IssueJob
  <2>3. Least(job[c].left, job[c].cands[k]) \in Int BY <2>2 DEF Least
  <2>4. Issue(c, k, Least(job[c].left, job[c].cands[k]))
    BY <1>2 DEF IssueNext
  <2> QED BY <2>3, <2>4, IssueBegins DEF InvNext
<1>3. ASSUME NEW c \in Clients, ApproveBegin(c) PROVE InvNext
  <2>1. job[c] \in ApproveJob BY <1>3, JobType DEF ApproveBegin
  <2>2. job[c].plan \in Seq(Write) BY <2>1 DEF ApproveJob
  <2> QED BY <1>3, <2>2 DEF ApproveBegin, InvNext
<1>4. ASSUME NEW c \in Clients, Work(c) \/ Finish(c) \/ Fail(c) PROVE InvNext
  BY <1>4 DEF Work, Finish, Fail, Step, InvNext
<1>5. ASSUME \/ \E c \in Clients :
                  \/ \E n \in Wants : IssueStart(c, n)
                  \/ IssueEnd(c) \/ ApproveRead(c)
             \/ CreateTake \/ StartRead \/ StartTake
             \/ \E k \in Keys, n \in 0..MaxCount : CountLine(k, n)
      PROVE  UNCHANGED invVars
  BY <1>5 DEF IssueStart, IssueEnd, ApproveRead, CreateTake, StartRead, StartTake,
              CountLine
<1>6. CASE UNCHANGED whVars BY <1>6 DEF whVars, invVars
<1>7. CASE WhNext
  BY <1>1, <1>2, <1>3, <1>4, <1>5, <1>7 DEF WhNext
<1> QED BY <1>6, <1>7

LEMMA JobInit == WhInit => InvTypeOK /\ JobTypeOK
<1>1. WhInit => InvTypeOK BY TypeInit DEF WhInit
<1> QED BY <1>1 DEF WhInit, JobTypeOK

\* A job that moves on, or ends.
LEMMA JobMoves ==
  ASSUME JobTypeOK, NEW c \in Clients,
         NEW j \in {NoJob} \cup IssueJob \cup ApproveJob,
         job' = [job EXCEPT ![c] = j]
  PROVE  job' \in [Clients -> {NoJob} \cup IssueJob \cup ApproveJob]
  BY DEF JobTypeOK

LEMMA LineType ==
  ASSUME InvTypeOK, JobTypeOK, PlanHasLines, [WhNext]_whVars
  PROVE  line' \in [Keys -> Line \cup {NoLine}]
<1>1. CASE CreateTake
  <2>1. ASSUME NEW k \in Keys, stock[k] # NoRow
        PROVE  [book |-> stock[k].quantity, diff |-> 0, status |-> "PENDING"]
                 \in Line
    BY <2>1 DEF InvTypeOK, Row, Line
  <2> QED BY <1>1, <2>1 DEF CreateTake
<1>2. ASSUME NEW k \in Keys, NEW n \in 0..MaxCount, CountLine(k, n)
      PROVE  line' \in [Keys -> Line \cup {NoLine}]
  <2>1. line[k] \in Line BY <1>2 DEF CountLine, JobTypeOK
  <2>2. [book |-> line[k].book, diff |-> n - line[k].book,
         status |-> "COUNTED"] \in Line
    BY <2>1 DEF Line
  <2> QED BY <1>2, <2>2 DEF CountLine, JobTypeOK
<1>3. ASSUME NEW c \in Clients, Finish(c)
      PROVE  line' \in [Keys -> Line \cup {NoLine}]
  <2>1. CASE job[c].kind # "approve"
    BY <1>3, <2>1 DEF Finish, takeVars, JobTypeOK
  <2>2. CASE job[c].kind = "approve"
    <3>1. line' = [k \in Keys |->
             IF InPlan(c, k)
             THEN [book |-> line[k].book, diff |-> line[k].diff,
                   status |-> AfterApproval]
             ELSE line[k]]
      BY <1>3, <2>2 DEF Finish, CloseTake
    <3>2. ASSUME NEW k \in Keys, InPlan(c, k)
          PROVE  [book |-> line[k].book, diff |-> line[k].diff,
                  status |-> AfterApproval] \in Line
      <4>1. line[k] \in Line
        BY <2>2, <3>2 DEF InPlan, PlanHasLines, JobTypeOK
      <4> QED BY <4>1 DEF Line, AfterApproval
    <3> QED BY <3>1, <3>2 DEF JobTypeOK
  <2> QED BY <2>1, <2>2
<1>4. ASSUME \/ \E c \in Clients :
                  \/ Single(c) \/ IssueEnd(c) \/ ApproveRead(c)
                  \/ ApproveBegin(c) \/ Work(c) \/ Fail(c)
                  \/ \E n \in Wants : IssueStart(c, n)
                  \/ \E k \in Keys : IssueNext(c, k)
             \/ StartRead \/ StartTake \/ UNCHANGED whVars
      PROVE  line' \in [Keys -> Line \cup {NoLine}]
  BY <1>4 DEF Single, IssueEnd, ApproveRead, ApproveBegin, Work, Fail,
     IssueStart, IssueNext, StartRead, StartTake, whVars, takeVars, JobTypeOK
<1> QED BY <1>1, <1>2, <1>3, <1>4 DEF WhNext

\* Lines come with the take and never go.
LEMMA LinesStay ==
  ASSUME InvTypeOK, JobTypeOK, PlanHasLines, [WhNext]_whVars,
         takeStatus # "NONE"
  PROVE  /\ takeStatus' # "NONE"
         /\ \A k \in Keys : line[k] # NoLine => line'[k] # NoLine
<1>1. CASE StartRead \/ StartTake BY <1>1 DEF StartRead, StartTake
<1>2. ASSUME NEW k \in Keys, NEW n \in 0..MaxCount, CountLine(k, n)
      PROVE  /\ takeStatus' # "NONE"
             /\ \A l \in Keys : line[l] # NoLine => line'[l] # NoLine
  <2>1. line[k] \in Line BY <1>2 DEF CountLine, JobTypeOK
  <2>2. [book |-> line[k].book, diff |-> n - line[k].book,
         status |-> "COUNTED"] \in Line
    BY <2>1 DEF Line
  <2> QED BY <1>2, <2>2 DEF CountLine, JobTypeOK
<1>3. ASSUME NEW c \in Clients, Finish(c)
      PROVE  /\ takeStatus' # "NONE"
             /\ \A k \in Keys : line[k] # NoLine => line'[k] # NoLine
  <2>1. CASE job[c].kind # "approve"
    BY <1>3, <2>1 DEF Finish, takeVars
  <2>2. CASE job[c].kind = "approve"
    <3>1. /\ takeStatus' = "CLOSED"
          /\ line' = [k \in Keys |->
               IF InPlan(c, k)
               THEN [book |-> line[k].book, diff |-> line[k].diff,
                     status |-> AfterApproval]
               ELSE line[k]]
      BY <1>3, <2>2 DEF Finish, CloseTake
    <3>2. ASSUME NEW k \in Keys, line[k] # NoLine
          PROVE  [book |-> line[k].book, diff |-> line[k].diff,
                  status |-> AfterApproval] # NoLine
      <4>1. line[k] \in Line BY <3>2 DEF JobTypeOK
      <4>2. [book |-> line[k].book, diff |-> line[k].diff,
             status |-> AfterApproval] \in Line
        BY <4>1 DEF Line, AfterApproval
      <4> QED BY <4>2
    <3> QED BY <3>1, <3>2
  <2> QED BY <2>1, <2>2
<1>4. ASSUME \/ \E c \in Clients :
                  \/ Single(c) \/ IssueEnd(c) \/ ApproveRead(c)
                  \/ ApproveBegin(c) \/ Work(c) \/ Fail(c)
                  \/ \E n \in Wants : IssueStart(c, n)
                  \/ \E k \in Keys : IssueNext(c, k)
             \/ UNCHANGED whVars
      PROVE  UNCHANGED <<takeStatus, line>>
  BY <1>4 DEF Single, IssueEnd, ApproveRead, ApproveBegin, Work, Fail,
     IssueStart, IssueNext, whVars, takeVars
<1>5. ~CreateTake BY DEF CreateTake
<1> QED BY <1>1, <1>2, <1>3, <1>4, <1>5 DEF WhNext

-----------------------------------------------------------------------------
(* What the transaction of an issue does *)

\* A write is taken from what a transaction has to do.
LEMMA WorkTakesOne ==
  ASSUME InvTypeOK, NEW c \in Clients, Update(c) \/ Insert(c) \/ PassOver(c)
  PROVE  /\ \A d \in Clients \ {c} : txn'[d] = txn[d]
         /\ IsOpen(c) /\ txn[c].todo \in Seq(Write) /\ txn[c].todo # <<>>
         /\ txn'[c].todo = Tail(txn[c].todo)
         /\ txn'[c].counted \subseteq txn[c].counted \cup {Head(txn[c].todo).key}
<1>1. IsOpen(c) /\ txn[c].todo # <<>>
  BY DEF Update, Insert, PassOver
<1>2. txn[c] \in Txn
  BY <1>1, TxnType
<1>3. txn[c].todo \in Seq(Write)
  BY <1>2 DEF Txn
<1>4. CASE PassOver(c)
  <2>1. txn' = [txn EXCEPT ![c].todo = Tail(txn[c].todo)]
    BY <1>4 DEF PassOver
  <2>2. txn'[c] = [txn[c] EXCEPT !.todo = Tail(txn[c].todo)]
        /\ \A d \in Clients \ {c} : txn'[d] = txn[d]
    BY <2>1 DEF InvTypeOK
  <2>3. txn'[c].todo = Tail(txn[c].todo) /\ txn'[c].counted = txn[c].counted
    BY <1>2, <2>2 DEF Txn
  <2> QED
    BY <1>1, <1>3, <2>2, <2>3
<1>5. ASSUME NEW row, Proceed(c, Head(txn[c].todo), row)
      PROVE  /\ \A d \in Clients \ {c} : txn'[d] = txn[d]
             /\ txn'[c].todo = Tail(txn[c].todo)
             /\ txn'[c].counted \subseteq txn[c].counted \cup {Head(txn[c].todo).key}
  <2> DEFINE w == Head(txn[c].todo)
             now == IF w.kind = "count" THEN txn[c].counted \cup {w.key}
                    ELSE txn[c].counted
             t == [stage   |-> "open",
                   todo    |-> Tail(txn[c].todo),
                   snap    |-> txn[c].snap,
                   own     |-> [txn[c].own EXCEPT ![w.key] = row],
                   entry   |-> [txn[c].entry EXCEPT
                                  ![w.key] = txn[c].entry[w.key] + Entry(w)],
                   counted |-> now,
                   clamped |-> IF /\ ReadRow(c, w.key) # NoRow
                                  /\ w.kind # "hold"
                                  /\ ReadRow(c, w.key).availableQty + w.qty < 0
                               THEN txn[c].clamped \cup {w.key}
                               ELSE txn[c].clamped]
  <2>0. txn' = [txn EXCEPT ![c] = t]
    BY <1>5 DEF Proceed
  <2>1. txn' = [txn EXCEPT ![c] = t] /\ t.todo = Tail(txn[c].todo) /\ t.counted = now
    BY <2>0
  <2>2. now \subseteq txn[c].counted \cup {w.key}
    OBVIOUS
  <2> HIDE DEF now, t
  <2>3. txn'[c] = t /\ \A d \in Clients \ {c} : txn'[d] = txn[d]
    BY <2>1 DEF InvTypeOK
  <2> QED
    BY <2>1, <2>2, <2>3
<1>6. CASE Update(c) \/ Insert(c)
  <2>1. \E row : Proceed(c, Head(txn[c].todo), row)
    BY <1>6 DEF Update, Insert
  <2> QED
    BY <1>1, <1>3, <1>5, <2>1
<1> QED
  BY <1>4, <1>6

\* A client's job and transaction change by its own steps only.
LEMMA OtherClients ==
  ASSUME InvTypeOK, JobTypeOK, NEW c \in Clients, NEW d \in Clients \ {c},
         \/ Single(c) \/ IssueEnd(c) \/ ApproveRead(c) \/ ApproveBegin(c)
         \/ Work(c) \/ Finish(c) \/ Fail(c)
         \/ \E n \in Wants : IssueStart(c, n)
         \/ \E k \in Keys : IssueNext(c, k)
  PROVE  job'[d] = job[d] /\ txn'[d] = txn[d]
<1>1. ASSUME NEW j, job' = [job EXCEPT ![c] = j] PROVE job'[d] = job[d]
  BY <1>1 DEF JobTypeOK
<1>2. ASSUME NEW t, txn' = [txn EXCEPT ![c] = t] PROVE txn'[d] = txn[d]
  BY <1>2 DEF InvTypeOK
<1>3. ASSUME NEW plan, Begin(c, plan) PROVE txn'[d] = txn[d]
  BY <1>2, <1>3 DEF Begin
<1>4. CASE Single(c)
  <2>1. \E plan \in Seq(Write) : Begin(c, plan)
    BY <1>4, RequestBegins DEF Single
  <2> QED BY <1>3, <1>4, <2>1 DEF Single
<1>5. CASE IssueEnd(c) \/ ApproveRead(c) \/ \E n \in Wants : IssueStart(c, n)
  <2>1. txn' = txn
    BY <1>5 DEF IssueEnd, ApproveRead, IssueStart, invVars
  <2>2. \E j : job' = [job EXCEPT ![c] = j]
    BY <1>5 DEF IssueEnd, ApproveRead, IssueStart
  <2> QED BY <1>1, <2>1, <2>2
<1>6. CASE Finish(c)
  BY <1>1, <1>2, <1>6 DEF Finish, Commit, Release
<1>7. CASE Fail(c)
  BY <1>1, <1>2, <1>7 DEF Fail, Reject, GiveUp, Release
<1>8. CASE \E k \in Keys : IssueNext(c, k)
  BY <1>1, <1>3, <1>8 DEF IssueNext, Issue
<1>9. CASE ApproveBegin(c)
  BY <1>1, <1>3, <1>9 DEF ApproveBegin
<1>10. CASE Work(c)
  BY <1>10, WorkTakesOne DEF Work
<1> QED BY <1>4, <1>5, <1>6, <1>7, <1>8, <1>9, <1>10

\* The transaction of an issue takes one quantity from one row.
TakesOneRow(c) ==
  \/ /\ \E k \in Keys : txn[c].todo =
           <<[kind |-> "sub", key |-> k, qty |-> -job[c].taking]>>
     /\ \A k \in Keys : txn[c].own[k] = NoRow /\ txn[c].entry[k] = 0
  \/ /\ txn[c].todo = <<>>
     /\ \E k \in Keys :
          /\ txn[c].own[k] # NoRow /\ txn[c].entry[k] = -job[c].taking
          /\ \A l \in Keys \ {k} : txn[c].own[l] = NoRow

IssueTakes ==
  \A c \in Clients : job[c].kind = "issue" /\ IsOpen(c) => TakesOneRow(c)

LEMMA TakenIsTaking ==
  ASSUME InvTypeOK, JobTypeOK, IssueTakes, NEW c \in Clients,
         job[c].kind = "issue", Commit(c)
  PROVE  Taken(c) = job[c].taking
<1>1. IsOpen(c) /\ txn[c].todo = <<>> BY DEF Commit
<1>2. PICK k \in Keys :
        /\ txn[c].own[k] # NoRow /\ txn[c].entry[k] = -job[c].taking
        /\ \A l \in Keys \ {k} : txn[c].own[l] = NoRow
  <2>1. TakesOneRow(c) BY <1>1 DEF IssueTakes
  <2>2. \A w : <<w>> # <<>> OBVIOUS
  <2> QED BY <1>1, <2>1, <2>2 DEF TakesOneRow
<1>3. \A l \in Keys : Holds(c, l) <=> l = k
  BY <1>1, <1>2 DEF Holds
<1>4. (CHOOSE l \in Keys : Holds(c, l)) = k BY <1>3
<1>5. job[c].taking \in Nat BY JobType DEF IssueJob
<1>6. Taken(c) = -txn[c].entry[k] BY <1>4 DEF Taken
<1> QED BY <1>2, <1>5, <1>6

LEMMA IssueTakesNext ==
  ASSUME InvTypeOK, NoDelete, JobTypeOK, IssueTakes, [WhNext]_whVars
  PROVE  IssueTakes'
<1> SUFFICES ASSUME NEW d \in Clients, job'[d].kind = "issue", IsOpen(d)'
             PROVE  TakesOneRow(d)'
  BY DEF IssueTakes
<1>1. CASE job'[d] = job[d] /\ txn'[d] = txn[d]
  BY <1>1 DEF IssueTakes, TakesOneRow, IsOpen
<1>2. ASSUME NEW k \in Keys, IssueNext(d, k) PROVE TakesOneRow(d)'
  <2> DEFINE qty == Least(job[d].left, job[d].cands[k])
             w == [kind |-> "sub", key |-> k, qty |-> -qty]
             t == [stage |-> "open", todo |-> <<w>>, snap |-> stock,
                   own |-> [l \in Keys |-> NoRow],
                   entry |-> [l \in Keys |-> 0],
                   counted |-> {}, clamped |-> {}]
             j == [kind |-> "issue", cands |-> [job[d].cands EXCEPT ![k] = 0],
                   want |-> job[d].want, left |-> job[d].left,
                   taking |-> qty, out |-> job[d].out]
  <2>1. txn' = [txn EXCEPT ![d] = t] /\ job' = [job EXCEPT ![d] = j]
    BY <1>2 DEF IssueNext, Issue, Begin
  <2>2. txn'[d] = t /\ job'[d] = j
    <3> HIDE DEF t, j
    <3> QED BY <2>1 DEF InvTypeOK, JobTypeOK
  <2> HIDE DEF qty
  <2> QED BY <2>2 DEF TakesOneRow
<1>3. ASSUME Work(d) PROVE TakesOneRow(d)'
  <2>1. job'[d] = job[d] /\ IsOpen(d) /\ txn[d].todo # <<>>
    BY <1>3, WorkTakesOne DEF Work
  <2>2. PICK k \in Keys :
          /\ txn[d].todo =
               <<[kind |-> "sub", key |-> k, qty |-> -job[d].taking]>>
          /\ \A l \in Keys : txn[d].own[l] = NoRow /\ txn[d].entry[l] = 0
    BY <2>1 DEF IssueTakes, TakesOneRow
  <2> DEFINE w == Head(txn[d].todo)
  <2>3. w = [kind |-> "sub", key |-> k, qty |-> -job[d].taking]
        /\ Tail(txn[d].todo) = <<>>
    BY <2>2
  <2>4. w.kind = "sub" /\ w.key = k /\ w.qty = -job[d].taking BY <2>3
  <2>5. Update(d)
    <3>1. ~Insert(d) /\ ~PassOver(d) BY <2>4 DEF Insert, PassOver
    <3> QED BY <1>3, <3>1 DEF Work
  <2>6. ReadRow(d, k) # NoRow BY <2>4, <2>5 DEF Update
  <2>7. LET row == Written(w, ReadRow(d, k), FoundRow(d, k)) IN
          row \in Row /\ Proceed(d, w, row)
    <3>1. w \in Write /\ Permitted(w, ReadRow(d, k))
      BY <2>4, <2>5, WriteEffect DEF Update
    <3>2. FoundRow(d, k) \in Row /\ ReadRow(d, k) \in Row
      BY <2>1, <2>6, RowFound
    <3> HIDE DEF w
    <3> QED BY <2>4, <2>5, <3>1, <3>2, WrittenType DEF Update, w
  <2>8. job[d].taking \in Nat BY <2>1, JobType DEF IssueJob
  <2>9. /\ txn'[d].todo = <<>>
        /\ txn'[d].own = [txn[d].own EXCEPT
                            ![k] = Written(w, ReadRow(d, k), FoundRow(d, k))]
        /\ txn'[d].entry = [txn[d].entry EXCEPT ![k] = @ + Entry(w)]
    <3>1. ASSUME NEW row \in Row, Proceed(d, w, row)
          PROVE  /\ txn'[d].own = [txn[d].own EXCEPT ![w.key] = row]
                 /\ txn'[d].entry = [txn[d].entry EXCEPT
                                       ![w.key] = txn[d].entry[w.key] + Entry(w)]
      BY <2>1, <3>1, ProceedEffect
    <3>2. txn'[d].todo = <<>> BY <1>3, <2>3, WorkTakesOne DEF Work
    <3> HIDE DEF w
    <3> QED BY <2>4, <2>7, <3>1, <3>2
  <2>10. txn[d].own \in [Keys -> Row \cup {NoRow}] /\ txn[d].entry \in [Keys -> Int]
    BY <2>1, TxnType DEF Txn
  <2>11. Entry(w) = -job[d].taking BY <2>4 DEF Entry
  <2> HIDE DEF w
  <2> DEFINE row == Written(w, ReadRow(d, k), FoundRow(d, k))
  <2>12. row \in Row BY <2>7
  <2>13. txn'[d].own[k] # NoRow /\ \A l \in Keys \ {k} : txn'[d].own[l] = NoRow
    <3> HIDE DEF row
    <3> QED BY <2>2, <2>9, <2>10, <2>12 DEF row
  <2>14. txn'[d].entry[k] = -job'[d].taking
    BY <2>1, <2>2, <2>8, <2>9, <2>10, <2>11
  <2> QED BY <2>9, <2>13, <2>14 DEF TakesOneRow
<1>4. ASSUME NEW c \in Clients, c = d,
             \/ Single(c) \/ IssueEnd(c) \/ ApproveRead(c) \/ ApproveBegin(c)
             \/ Finish(c) \/ Fail(c)
             \/ \E n \in Wants : IssueStart(c, n)
      PROVE  FALSE
  <2>1. ASSUME NEW j, job' = [job EXCEPT ![c] = j] PROVE job'[c] = j
    BY <2>1 DEF JobTypeOK
  <2>2. ~Single(c)
    BY <1>4 DEF Single, Arrives, Idle, NoJob
  <2>3. ~IssueEnd(c)
    BY <1>4, <2>1 DEF IssueEnd, NoJob
  <2>4. ~ApproveRead(c) /\ ~ \E n \in Wants : IssueStart(c, n)
    BY <1>4 DEF ApproveRead, IssueStart, Arrives, Idle, invVars, IsOpen, NoTxn
  <2>5. ~ApproveBegin(c)
    BY <1>4, <2>1 DEF ApproveBegin
  <2>6. ASSUME Finish(c) \/ Fail(c) PROVE FALSE
    <3>1. txn' = [txn EXCEPT ![c] = NoTxn]
      BY <2>6 DEF Finish, Fail, Reject, GiveUp, Commit, Release
    <3> QED BY <1>4, <3>1 DEF IsOpen, NoTxn, InvTypeOK
  <2> QED BY <1>4, <2>2, <2>3, <2>4, <2>5, <2>6
<1>5. CASE \/ CreateTake \/ StartRead \/ StartTake \/ UNCHANGED whVars
           \/ \E k \in Keys, n \in 0..MaxCount : CountLine(k, n)
  BY <1>1, <1>5 DEF CreateTake, StartRead, StartTake, CountLine, whVars, invVars
<1> QED BY <1>1, <1>2, <1>3, <1>4, <1>5, OtherClients DEF WhNext

\* The jobs a step can leave its client with.
LEMMA JobSteps ==
  ASSUME InvTypeOK, JobTypeOK, IssueTakes, [WhNext]_whVars
  PROVE  \/ UNCHANGED job
         \/ \E c \in Clients, j \in {NoJob} \cup IssueJob \cup ApproveJob :
              /\ job' = [job EXCEPT ![c] = j]
              /\ j.kind = "approve" =>
                   \/ job[c].kind = "approve" /\ j.plan = job[c].plan
                   \/ /\ takeStatus # "NONE" /\ UNCHANGED <<takeStatus, line>>
                      /\ \A i \in DOMAIN j.plan : line[j.plan[i].key] # NoLine
<1> DEFINE Moves ==
      \E c \in Clients, j \in {NoJob} \cup IssueJob \cup ApproveJob :
         /\ job' = [job EXCEPT ![c] = j]
         /\ j.kind = "approve" =>
              \/ job[c].kind = "approve" /\ j.plan = job[c].plan
              \/ /\ takeStatus # "NONE" /\ UNCHANGED <<takeStatus, line>>
                 /\ \A i \in DOMAIN j.plan : line[j.plan[i].key] # NoLine
<1>0. ASSUME NEW c \in Clients, NEW j \in {NoJob} \cup IssueJob,
             job' = [job EXCEPT ![c] = j]
      PROVE  Moves
  <2>1. j.kind # "approve" BY DEF NoJob, IssueJob
  <2> QED BY <1>0, <2>1
<1>1. ASSUME NEW c \in Clients, NEW n \in Wants, IssueStart(c, n)
      PROVE  Moves
  <2>1. [k \in Keys |-> Available(k)] \in [Keys -> Nat] BY AvailableType
  <2>2. n \in Nat OBVIOUS
  <2>3. [kind |-> "issue", cands |-> [k \in Keys |-> Available(k)],
         want |-> n, left |-> n, taking |-> 0, out |-> 0] \in IssueJob
    BY <2>1, <2>2 DEF IssueJob
  <2> QED BY <1>0, <1>1, <2>3 DEF IssueStart
<1>2. ASSUME NEW c \in Clients, NEW k \in Keys, IssueNext(c, k)
      PROVE  Moves
  <2> DEFINE qty == Least(job[c].left, job[c].cands[k])
             j == [kind |-> "issue", cands |-> [job[c].cands EXCEPT ![k] = 0],
                   want |-> job[c].want, left |-> job[c].left,
                   taking |-> qty, out |-> job[c].out]
  <2>1. job[c] \in IssueJob BY <1>2, JobType DEF IssueNext
  <2>2. qty \in Nat /\ qty <= job[c].left BY <2>1 DEF IssueJob, Least
  <2>3. [job[c].cands EXCEPT ![k] = 0] \in [Keys -> Nat]
    BY <2>1 DEF IssueJob
  <2>4. job' = [job EXCEPT ![c] = j] BY <1>2 DEF IssueNext
  <2> HIDE DEF qty
  <2>5. j \in IssueJob BY <2>1, <2>2, <2>3 DEF IssueJob
  <2> HIDE DEF j
  <2> QED BY <1>0, <2>4, <2>5
<1>3. ASSUME NEW c \in Clients, IssueEnd(c) \/ Fail(c) PROVE Moves
  BY <1>0, <1>3 DEF IssueEnd, Fail, AfterFailure
<1>4. ASSUME NEW c \in Clients, Finish(c) PROVE Moves
  <2>1. CASE job[c].kind = "issue"
    <3>1. job[c] \in IssueJob BY <2>1, JobType
    <3>2. AfterCommit(c) \in IssueJob
      <4>1. Taken(c) = job[c].taking
        BY <1>4, <2>1, TakenIsTaking DEF Finish
      <4> QED BY <2>1, <3>1, <4>1 DEF AfterCommit, Remaining, IssueJob
    <3> QED BY <1>0, <1>4, <3>2 DEF Finish
  <2>2. CASE job[c].kind # "issue"
    <3>1. AfterCommit(c) = NoJob BY <2>2 DEF AfterCommit
    <3> QED BY <1>0, <1>4, <3>1 DEF Finish
  <2> QED BY <2>1, <2>2
<1>5. ASSUME NEW c \in Clients, ApproveRead(c) PROVE Moves
  <2>1. PICK o \in Orders(ToCorrect) :
          job' = [job EXCEPT ![c] =
            [kind |-> "approve", stage |-> "read",
             plan |-> [i \in DOMAIN o |-> Correction(o[i])]]]
    BY <1>5 DEF ApproveRead
  <2> DEFINE plan == [i \in DOMAIN o |-> Correction(o[i])]
             j == [kind |-> "approve", stage |-> "read", plan |-> plan]
  <2>2. plan \in Seq(Write) BY PlanType
  <2>3. \A i \in DOMAIN plan : line[plan[i].key] # NoLine
    <3>1. \A i \in DOMAIN o : o[i] \in ToCorrect BY DEF Orders
    <3> QED BY <3>1 DEF Correction, ToCorrect
  <2>4. job' = [job EXCEPT ![c] = j] BY <2>1
  <2> HIDE DEF plan
  <2>5. j \in ApproveJob /\ j.plan = plan BY <2>2 DEF ApproveJob
  <2>6. takeStatus # "NONE" /\ UNCHANGED <<takeStatus, line>>
    BY <1>5 DEF ApproveRead, takeVars
  <2> HIDE DEF j
  <2> QED BY ZenonT(60), <2>3, <2>4, <2>5, <2>6
<1>6. ASSUME NEW c \in Clients, ApproveBegin(c) PROVE Moves
  <2>1. job[c].kind = "approve" /\ job[c] \in ApproveJob
    BY <1>6, JobType DEF ApproveBegin
  <2> DEFINE j == [kind |-> "approve", stage |-> "write",
                   plan |-> job[c].plan]
  <2>2. j \in ApproveJob /\ j.plan = job[c].plan BY <2>1 DEF ApproveJob
  <2>3. job' = [job EXCEPT ![c] = j] BY <1>6 DEF ApproveBegin
  <2> HIDE DEF j
  <2> QED BY <2>1, <2>2, <2>3
<1>7. ASSUME \/ \E c \in Clients : Single(c) \/ Work(c)
             \/ CreateTake \/ StartRead \/ StartTake \/ UNCHANGED whVars
             \/ \E k \in Keys, n \in 0..MaxCount : CountLine(k, n)
      PROVE  UNCHANGED job
  BY <1>7 DEF Single, Work, CreateTake, StartRead, StartTake, CountLine, whVars
<1> HIDE DEF Moves
<1>8. UNCHANGED job \/ Moves
  BY <1>1, <1>2, <1>3, <1>4, <1>5, <1>6, <1>7 DEF WhNext
<1> QED BY <1>8 DEF Moves

LEMMA PlanKeys ==
  ASSUME NEW plan \in Seq(Write), NEW i \in DOMAIN plan
  PROVE  plan[i].key \in Keys
<1>1. plan[i] \in Write OBVIOUS
<1> QED BY <1>1, WriteType

LEMMA JobNext ==
  ASSUME InvTypeOK, JobTypeOK, IssueTakes, PlanHasLines, [WhNext]_whVars
  PROVE  JobTypeOK' /\ PlanHasLines'
<1>1. line' \in [Keys -> Line \cup {NoLine}] BY LineType
<1>2. CASE UNCHANGED job
  <2>1. JobTypeOK' BY <1>1, <1>2 DEF JobTypeOK
  <2>2. ASSUME NEW c \in Clients, job[c].kind = "approve"
        PROVE  \A i \in DOMAIN job[c].plan : job[c].plan[i].key \in Keys
    BY <2>2, JobType, PlanKeys DEF ApproveJob
  <2>3. PlanHasLines' BY <1>2, <2>2, LinesStay DEF PlanHasLines
  <2> QED BY <2>1, <2>3
<1>3. ASSUME NEW c \in Clients,
             NEW j \in {NoJob} \cup IssueJob \cup ApproveJob,
             job' = [job EXCEPT ![c] = j],
             j.kind = "approve" =>
               \/ job[c].kind = "approve" /\ j.plan = job[c].plan
               \/ /\ takeStatus # "NONE" /\ UNCHANGED <<takeStatus, line>>
                  /\ \A i \in DOMAIN j.plan : line[j.plan[i].key] # NoLine
      PROVE  JobTypeOK' /\ PlanHasLines'
  <2>1. JobTypeOK' BY <1>1, <1>3, JobMoves DEF JobTypeOK
  <2>2. ASSUME NEW d \in Clients, job[d].kind = "approve"
        PROVE  \A i \in DOMAIN job[d].plan : job[d].plan[i].key \in Keys
    BY <2>2, JobType, PlanKeys DEF ApproveJob
  <2>3. job'[c] = j /\ \A d \in Clients \ {c} : job'[d] = job[d]
    BY <1>3 DEF JobTypeOK
  <2>4. ASSUME NEW d \in Clients, job'[d].kind = "approve"
        PROVE  /\ takeStatus' # "NONE"
               /\ \A i \in DOMAIN job'[d].plan :
                    line'[job'[d].plan[i].key] # NoLine
    <3>1. CASE job[d].kind = "approve" /\ job'[d].plan = job[d].plan
      BY <2>2, <3>1, LinesStay DEF PlanHasLines
    <3>2. CASE ~(job[d].kind = "approve" /\ job'[d].plan = job[d].plan)
      <4>1. d = c BY <2>3, <2>4, <3>2
      <4> QED BY <1>3, <2>3, <2>4, <3>2, <4>1
    <3> QED BY <3>1, <3>2
  <2>5. PlanHasLines' BY <2>4 DEF PlanHasLines
  <2> QED BY <2>1, <2>5
<1> QED BY <1>2, <1>3, JobSteps

\* What an issue has taken and what is still missing make what was wanted.
JobsAddUp ==
  \A c \in Clients : job[c].kind = "issue" =>
     job[c].out + job[c].left = job[c].want

RestTypeOK ==
  /\ announced \subseteq [want : Nat, out : Nat]
  /\ takeStatus \in {"NONE", "DRAFT", "IN_PROGRESS", "CLOSED"}
  /\ starting \in BOOLEAN
  /\ applied \in [Keys -> Nat]
  /\ requests \in 0..MaxRequests

LEMMA AddUpNext ==
  ASSUME InvTypeOK, JobTypeOK, IssueTakes, JobsAddUp, [WhNext]_whVars
  PROVE  JobsAddUp'
<1>0. ASSUME NEW c \in Clients, NEW j, job' = [job EXCEPT ![c] = j],
             j.kind = "issue" => j.out + j.left = j.want
      PROVE  JobsAddUp'
  BY <1>0 DEF JobTypeOK, JobsAddUp
<1>1. ASSUME NEW c \in Clients, NEW n \in Wants, IssueStart(c, n)
      PROVE  JobsAddUp'
  <2> DEFINE j == [kind |-> "issue", cands |-> [k \in Keys |-> Available(k)],
                   want |-> n, left |-> n, taking |-> 0, out |-> 0]
  <2>1. n \in Nat OBVIOUS
  <2>2. j.out + j.left = j.want BY <2>1
  <2>3. job' = [job EXCEPT ![c] = j] BY <1>1 DEF IssueStart
  <2> HIDE DEF j
  <2> QED BY <1>0, <2>2, <2>3
<1>2. ASSUME NEW c \in Clients, NEW k \in Keys, IssueNext(c, k)
      PROVE  JobsAddUp'
  <2> DEFINE j == [kind |-> "issue", cands |-> [job[c].cands EXCEPT ![k] = 0],
                   want |-> job[c].want, left |-> job[c].left,
                   taking |-> Least(job[c].left, job[c].cands[k]),
                   out |-> job[c].out]
  <2>1. job[c].out + job[c].left = job[c].want
    BY <1>2 DEF IssueNext, JobsAddUp
  <2>2. j.out + j.left = j.want BY <2>1
  <2>3. job' = [job EXCEPT ![c] = j] BY <1>2 DEF IssueNext
  <2> HIDE DEF j
  <2> QED BY <1>0, <2>2, <2>3
<1>3. ASSUME NEW c \in Clients, Finish(c) PROVE JobsAddUp'
  <2>1. job' = [job EXCEPT ![c] = AfterCommit(c)] BY <1>3 DEF Finish
  <2>2. CASE job[c].kind = "issue"
    <3>1. job[c] \in IssueJob BY <2>2, JobType
    <3>2. job[c].out + job[c].left = job[c].want BY <2>2 DEF JobsAddUp
    <3>3. /\ AfterCommit(c).out = job[c].out + job[c].taking
          /\ AfterCommit(c).left = job[c].left - job[c].taking
          /\ AfterCommit(c).want = job[c].want
      <4>1. Taken(c) = job[c].taking
        BY <1>3, <2>2, TakenIsTaking DEF Finish
      <4> QED BY <2>2, <4>1 DEF AfterCommit, Remaining
    <3>4. AfterCommit(c).out + AfterCommit(c).left = AfterCommit(c).want
      BY <3>1, <3>2, <3>3 DEF IssueJob
    <3> QED BY <1>0, <2>1, <3>4
  <2>3. CASE job[c].kind # "issue"
    <3>1. AfterCommit(c) = NoJob BY <2>3 DEF AfterCommit
    <3> QED BY <1>0, <2>1, <3>1 DEF NoJob
  <2> QED BY <2>2, <2>3
<1>4. ASSUME NEW c \in Clients, IssueEnd(c) \/ Fail(c) PROVE JobsAddUp'
  BY <1>0, <1>4 DEF IssueEnd, Fail, AfterFailure, NoJob
<1>5. ASSUME NEW c \in Clients, ApproveRead(c) PROVE JobsAddUp'
  <2>1. PICK o \in Orders(ToCorrect) :
          job' = [job EXCEPT ![c] =
            [kind |-> "approve", stage |-> "read",
             plan |-> [i \in DOMAIN o |-> Correction(o[i])]]]
    BY <1>5 DEF ApproveRead
  <2> DEFINE j == [kind |-> "approve", stage |-> "read",
                   plan |-> [i \in DOMAIN o |-> Correction(o[i])]]
  <2>2. job' = [job EXCEPT ![c] = j] /\ j.kind # "issue" BY <2>1
  <2> HIDE DEF j
  <2> QED BY <1>0, <2>2
<1>6. ASSUME NEW c \in Clients, ApproveBegin(c) PROVE JobsAddUp'
  BY <1>0, <1>6 DEF ApproveBegin
<1>7. ASSUME \/ \E c \in Clients : Single(c) \/ Work(c)
             \/ CreateTake \/ StartRead \/ StartTake \/ UNCHANGED whVars
             \/ \E k \in Keys, n \in 0..MaxCount : CountLine(k, n)
      PROVE  JobsAddUp'
  BY <1>7 DEF Single, Work, CreateTake, StartRead, StartTake, CountLine, whVars, JobsAddUp
<1> QED BY <1>1, <1>2, <1>3, <1>4, <1>5, <1>6, <1>7 DEF WhNext

LEMMA AnnounceNext ==
  ASSUME JobTypeOK, JobsAddUp, AnnouncedIsIssued, [WhNext]_whVars,
         announced \subseteq [want : Nat, out : Nat]
  PROVE  AnnouncedIsIssued' /\ announced' \subseteq [want : Nat, out : Nat]
<1>1. ASSUME NEW c \in Clients, IssueEnd(c), job[c].left = 0
      PROVE  /\ job[c].out = job[c].want
             /\ [want |-> job[c].want, out |-> job[c].out]
                  \in [want : Nat, out : Nat]
  <2>1. job[c].kind = "issue" /\ job[c] \in IssueJob
    BY <1>1, JobType DEF IssueEnd
  <2>2. job[c].out + job[c].left = job[c].want BY <2>1 DEF JobsAddUp
  <2> QED BY <1>1, <2>1, <2>2 DEF IssueJob
<1>2. ASSUME NEW c \in Clients, IssueEnd(c)
      PROVE  \/ UNCHANGED announced
             \/ /\ job[c].left = 0
                /\ announced' = announced \cup
                     {[want |-> job[c].want, out |-> job[c].out]}
  BY <1>2 DEF IssueEnd
<1>3. ASSUME NEW c \in Clients, IssueEnd(c)
      PROVE  AnnouncedIsIssued' /\ announced' \subseteq [want : Nat, out : Nat]
  BY <1>1, <1>2, <1>3 DEF AnnouncedIsIssued
<1>4. ASSUME \/ \E c \in Clients :
                  \/ Single(c) \/ ApproveRead(c) \/ ApproveBegin(c)
                  \/ Work(c) \/ Finish(c) \/ Fail(c)
                  \/ \E n \in Wants : IssueStart(c, n)
                  \/ \E k \in Keys : IssueNext(c, k)
             \/ CreateTake \/ StartRead \/ StartTake \/ UNCHANGED whVars
             \/ \E k \in Keys, n \in 0..MaxCount : CountLine(k, n)
      PROVE  UNCHANGED announced
  BY <1>4 DEF Single, ApproveRead, ApproveBegin, Work, Finish, Fail,
     IssueStart, IssueNext, CreateTake, StartRead, StartTake, CountLine, whVars
<1> QED BY <1>3, <1>4 DEF WhNext, AnnouncedIsIssued

LEMMA RestNext ==
  ASSUME RestTypeOK, [WhNext]_whVars
  PROVE  /\ takeStatus' \in {"NONE", "DRAFT", "IN_PROGRESS", "CLOSED"}
         /\ starting' \in BOOLEAN
         /\ applied' \in [Keys -> Nat]
         /\ requests' \in 0..MaxRequests
<1>1. ASSUME NEW c \in Clients, Arrives(c) PROVE requests' \in 0..MaxRequests
  BY <1>1 DEF Arrives, RestTypeOK
<1>2. ASSUME NEW c \in Clients, Finish(c)
      PROVE  /\ takeStatus' \in {"NONE", "DRAFT", "IN_PROGRESS", "CLOSED"}
             /\ starting' \in BOOLEAN
             /\ applied' \in [Keys -> Nat]
             /\ UNCHANGED requests
  <2>1. UNCHANGED requests BY <1>2 DEF Finish
  <2>2. CASE CloseTake(c) BY <2>1, <2>2 DEF CloseTake, RestTypeOK
  <2>3. CASE UNCHANGED takeVars BY <2>1, <2>3 DEF takeVars, RestTypeOK
  <2> QED BY <1>2, <2>2, <2>3 DEF Finish
<1>3. ASSUME NEW c \in Clients,
             Single(c) \/ ApproveRead(c) \/ \E n \in Wants : IssueStart(c, n)
      PROVE  Arrives(c) /\ UNCHANGED takeVars
  BY <1>3 DEF Single, ApproveRead, IssueStart
<1>4. ASSUME \E c \in Clients :
                  \/ IssueEnd(c) \/ ApproveBegin(c) \/ Work(c) \/ Fail(c)
                  \/ \E k \in Keys : IssueNext(c, k)
      PROVE  UNCHANGED <<takeVars, requests>>
  BY <1>4 DEF IssueEnd, ApproveBegin, Work, Fail, IssueNext
<1>5. ASSUME \/ CreateTake \/ StartRead \/ StartTake \/ UNCHANGED whVars
             \/ \E k \in Keys, n \in 0..MaxCount : CountLine(k, n)
      PROVE  /\ takeStatus' \in {"NONE", "DRAFT", "IN_PROGRESS", "CLOSED"}
             /\ starting' \in BOOLEAN
             /\ applied' \in [Keys -> Nat]
             /\ UNCHANGED requests
  <2>1. UNCHANGED requests
    BY <1>5 DEF CreateTake, StartRead, StartTake, CountLine, whVars
  <2>2. starting' \in BOOLEAN
    BY ZenonT(30), <1>5
    DEF CreateTake, StartRead, StartTake, CountLine, whVars, RestTypeOK
  <2>3. /\ takeStatus' \in {"NONE", "DRAFT", "IN_PROGRESS", "CLOSED"}
        /\ applied' \in [Keys -> Nat]
    BY <1>5
    DEF CreateTake, StartRead, StartTake, CountLine, whVars, RestTypeOK
  <2> QED BY <2>1, <2>2, <2>3
<1> QED BY <1>1, <1>2, <1>3, <1>4, <1>5 DEF WhNext, RestTypeOK, takeVars

WhInv ==
  InvTypeOK /\ NoDelete /\ JobTypeOK /\ PlanHasLines /\ IssueTakes
  /\ JobsAddUp /\ RestTypeOK /\ AnnouncedIsIssued

LEMMA WhInvInit == WhInit => WhInv
<1>1. WhInit => InvTypeOK /\ NoDelete BY TypeInit DEF WhInit
<1>2. WhInit => JobTypeOK BY JobInit
<1>3. WhInit => PlanHasLines /\ IssueTakes /\ JobsAddUp
  <2>1. NoJob.kind # "issue" /\ NoJob.kind # "approve" BY DEF NoJob
  <2> QED BY <2>1 DEF WhInit, PlanHasLines, IssueTakes, JobsAddUp
<1>4. WhInit => RestTypeOK /\ AnnouncedIsIssued
  <2>1. FALSE \in BOOLEAN OBVIOUS
  <2>2. 0 \in 0..MaxRequests OBVIOUS
  <2>3. [k \in Keys |-> 0] \in [Keys -> Nat] OBVIOUS
  <2> QED
    BY ZenonT(30), <2>1, <2>2, <2>3 DEF WhInit, RestTypeOK, AnnouncedIsIssued
<1> QED BY <1>1, <1>2, <1>3, <1>4 DEF WhInv

LEMMA WhInvNext == WhInv /\ [WhNext]_whVars => WhInv'
<1> SUFFICES ASSUME WhInv, [WhNext]_whVars PROVE WhInv' OBVIOUS
<1>1. [InvNext]_invVars BY StepIsInventoryStep DEF WhInv
<1>2. InvTypeOK' /\ NoDelete' BY <1>1, TypeNext DEF WhInv
<1>3. JobTypeOK' /\ PlanHasLines' BY JobNext DEF WhInv
<1>4. JobsAddUp' /\ IssueTakes' BY AddUpNext, IssueTakesNext DEF WhInv
<1>5. AnnouncedIsIssued' /\ announced' \subseteq [want : Nat, out : Nat]
  BY AnnounceNext DEF WhInv, RestTypeOK
<1>6. RestTypeOK' BY <1>5, RestNext DEF WhInv, RestTypeOK
<1> QED BY <1>2, <1>3, <1>4, <1>5, <1>6 DEF WhInv

(***************************************************************************)
(* Stock rows, transactions, jobs and lines keep their types: no quantity  *)
(* goes negative through issues, takes or single operations in any         *)
(* interleaving, and no issue takes more from a row than it still misses.  *)
(***************************************************************************)
THEOREM WhTypeCorrect == WhSpec => []WhTypeOK
<1>1. WhInv => WhTypeOK BY DEF WhInv, WhTypeOK, JobTypeOK, RestTypeOK
<1> QED BY <1>1, WhInvInit, WhInvNext, PTL DEF WhSpec

(***************************************************************************)
(* An issue is announced only with the quantity the ledger has of it, for  *)
(* any demand, any number of rows and clients, and whatever others do to   *)
(* the rows between the listing and the deductions.                        *)
(***************************************************************************)
THEOREM IssuesAnnouncedAreIssued == WhSpec => []AnnouncedIsIssued
<1>1. WhInv => AnnouncedIsIssued BY DEF WhInv
<1> QED BY <1>1, WhInvInit, WhInvNext, PTL DEF WhSpec

(***************************************************************************)
(* The warehouse is a user of the inventory: issues and stock takes reach  *)
(* the rows only through its transactions.                                 *)
(***************************************************************************)
THEOREM WarehouseUsesInventory == WhSpec => InvSpec
<1>1. WhInit => InvInit BY DEF WhInit
<1>2. WhInv /\ [WhNext]_whVars => [InvNext]_invVars
  BY StepIsInventoryStep DEF WhInv
<1> QED BY <1>1, <1>2, WhInvInit, WhInvNext, PTL DEF WhSpec, InvSpec

(***************************************************************************)
(* So the ledger explains the rows of the warehouse, and their parts add   *)
(* up, but for lost updates, stock takes and cut adjustments.              *)
(***************************************************************************)
THEOREM WarehouseIsExplained ==
  WhSpec => [](LedgerExplains /\ Balanced)
BY WarehouseUsesInventory, StockIsExplained, PTL

(***************************************************************************)
(* However many requests overlap, a row of the warehouse that nobody wrote *)
(* over unread never has less available and locked than there is.          *)
(***************************************************************************)
THEOREM RowsAreCovered == WhSpec => []Covered
BY WarehouseUsesInventory, StockIsExplained, PTL

-----------------------------------------------------------------------------
(* Stock takes *)

\* The keys of the corrections an approval has read.
PlanKeysOf(c) == {job[c].plan[i].key : i \in DOMAIN job[c].plan}

\* A difference that was applied has its line closed, and lines come with the
\* take; one that is still to be applied has its line open.
AppliedIsClosed ==
  /\ takeStatus = "NONE" => \A k \in Keys : applied[k] = 0
  /\ \A k \in Keys : applied[k] # 0 =>
       applied[k] = 1 /\ line[k] # NoLine /\ line[k].status = "ADJUSTED"
  /\ \A c \in Clients : job[c].kind = "approve" =>
       \A k \in PlanKeysOf(c) : applied[k] = 0

\* The transaction of an approval corrects what its plan says.
CorrectsPlan ==
  \A c \in Clients : job[c].kind = "approve" /\ IsOpen(c) =>
    /\ txn[c].counted \subseteq PlanKeysOf(c)
    /\ \A i \in DOMAIN txn[c].todo : txn[c].todo[i].key \in PlanKeysOf(c)

\* No two approvals are under way at the same time.
OneApproval ==
  \A c, d \in Clients : job[c].kind = "approve" /\ job[d].kind = "approve" => c = d

\* What the steps of an approval, and the steps around it, leave of it.
LEMMA CorrectsPlanNext ==
  ASSUME InvTypeOK, JobTypeOK, CorrectsPlan, [WhNext]_whVars
  PROVE  CorrectsPlan'
<1> SUFFICES ASSUME NEW d \in Clients, job'[d].kind = "approve", IsOpen(d)'
             PROVE  /\ txn'[d].counted \subseteq PlanKeysOf(d)'
                    /\ \A i \in DOMAIN txn'[d].todo :
                         txn'[d].todo[i].key \in PlanKeysOf(d)'
  BY DEF CorrectsPlan
<1>1. CASE job'[d] = job[d] /\ txn'[d] = txn[d]
  BY <1>1 DEF CorrectsPlan, PlanKeysOf, IsOpen
<1>2. ASSUME NEW c \in Clients, ApproveBegin(c)
      PROVE  /\ c # d => job'[d] = job[d] /\ txn'[d] = txn[d]
             /\ c = d => /\ txn'[d].counted = {}
                         /\ txn'[d].todo = job[d].plan
                         /\ job'[d].plan = job[d].plan
  <2>1. Begin(c, job[c].plan)
    BY <1>2 DEF ApproveBegin
  <2> DEFINE t == [stage |-> "open", todo |-> job[c].plan, snap |-> stock,
                   own |-> [k \in Keys |-> NoRow], entry |-> [k \in Keys |-> 0],
                   counted |-> {}, clamped |-> {}]
  <2>2. txn' = [txn EXCEPT ![c] = t] /\ t.counted = {} /\ t.todo = job[c].plan
    BY <2>1 DEF Begin
  <2> HIDE DEF t
  <2>3. job' = [job EXCEPT ![c] = [kind |-> "approve", stage |-> "write",
                                   plan |-> job[c].plan]]
    BY <1>2 DEF ApproveBegin
  <2> QED
    BY <2>2, <2>3 DEF InvTypeOK, JobTypeOK
<1>3. ASSUME NEW c \in Clients, Work(c)
      PROVE  /\ job'[d] = job[d]
             /\ c # d => txn'[d] = txn[d]
             /\ c = d => /\ txn'[d].counted \subseteq PlanKeysOf(d)
                         /\ \A i \in DOMAIN txn'[d].todo :
                              txn'[d].todo[i].key \in PlanKeysOf(d)
  <2>1. job' = job
    BY <1>3 DEF Work
  <2>2. /\ \A e \in Clients \ {c} : txn'[e] = txn[e]
        /\ IsOpen(c) /\ txn[c].todo \in Seq(Write) /\ txn[c].todo # <<>>
        /\ txn'[c].todo = Tail(txn[c].todo)
        /\ txn'[c].counted \subseteq txn[c].counted \cup {Head(txn[c].todo).key}
    BY <1>3, WorkTakesOne DEF Work
  <2>3. CASE c = d
    <3>1. /\ txn[c].counted \subseteq PlanKeysOf(c)
          /\ \A i \in DOMAIN txn[c].todo : txn[c].todo[i].key \in PlanKeysOf(c)
      BY <2>1, <2>2, <2>3 DEF CorrectsPlan
    <3> DEFINE todo == txn[c].todo
    <3>2. todo \in Seq(Write) /\ todo # <<>>
      BY <2>2
    <3>3. 1 \in DOMAIN todo /\ Head(todo) = todo[1]
          /\ \A i \in DOMAIN Tail(todo) : i + 1 \in DOMAIN todo /\ Tail(todo)[i] = todo[i + 1]
      <4> HIDE DEF todo
      <4> QED
        BY <3>2
    <3>4. txn'[d].counted \subseteq PlanKeysOf(d)
      <4>1. Head(todo).key \in PlanKeysOf(c)
        BY <3>1, <3>3
      <4> QED
        BY <2>2, <2>3, <3>1, <4>1
    <3>5. \A i \in DOMAIN txn'[d].todo : txn'[d].todo[i].key \in PlanKeysOf(d)
      <4>1. txn'[c].todo = Tail(todo) /\ \A i \in DOMAIN todo : todo[i].key \in PlanKeysOf(c)
        BY <2>2, <3>1
      <4> HIDE DEF todo
      <4> QED
        BY <2>3, <3>3, <4>1
    <3> QED
      BY <2>1, <2>3, <3>4, <3>5
  <2> QED
    BY <2>1, <2>2, <2>3
<1>4. ASSUME NEW c \in Clients, c = d,
             \/ Single(c) \/ IssueEnd(c) \/ ApproveRead(c) \/ Finish(c) \/ Fail(c)
             \/ \E n \in Wants : IssueStart(c, n)
             \/ \E k \in Keys : IssueNext(c, k)
      PROVE  FALSE
  <2>1. ASSUME NEW j, job' = [job EXCEPT ![c] = j] PROVE job'[c] = j
    BY <2>1 DEF JobTypeOK
  <2>2. ~Single(c)
    BY <1>4 DEF Single, Arrives, Idle, NoJob
  <2>3. ~IssueEnd(c) /\ ~Fail(c)
    BY <1>4, <2>1 DEF IssueEnd, Fail, AfterFailure, NoJob
  <2>4. ~ApproveRead(c)
    BY <1>4 DEF ApproveRead, Arrives, Idle, invVars, IsOpen, NoTxn
  <2>5. ASSUME Finish(c) PROVE FALSE
    <3>1. txn' = [txn EXCEPT ![c] = NoTxn]
      BY <2>5 DEF Finish, Commit, Release
    <3> QED
      BY <1>4, <3>1 DEF IsOpen, NoTxn, InvTypeOK
  <2>6. ASSUME NEW n \in Wants PROVE ~IssueStart(c, n)
    BY <1>4, <2>1 DEF IssueStart
  <2>7. ASSUME NEW k \in Keys PROVE ~IssueNext(c, k)
    BY <1>4, <2>1 DEF IssueNext
  <2> QED
    BY <1>4, <2>2, <2>3, <2>4, <2>5, <2>6, <2>7
<1>5. ASSUME NEW c \in Clients, c # d,
             \/ Single(c) \/ IssueEnd(c) \/ ApproveRead(c) \/ Finish(c) \/ Fail(c)
             \/ \E n \in Wants : IssueStart(c, n)
             \/ \E k \in Keys : IssueNext(c, k)
      PROVE  job'[d] = job[d] /\ txn'[d] = txn[d]
  BY <1>5, OtherClients
<1>6. CASE \/ CreateTake \/ StartRead \/ StartTake \/ UNCHANGED whVars
           \/ \E k \in Keys, n \in 0..MaxCount : CountLine(k, n)
  BY <1>1, <1>6 DEF CreateTake, StartRead, StartTake, CountLine, whVars, invVars
<1>7. ASSUME NEW c \in Clients, ApproveBegin(c)
      PROVE  /\ txn'[d].counted \subseteq PlanKeysOf(d)'
             /\ \A i \in DOMAIN txn'[d].todo :
                  txn'[d].todo[i].key \in PlanKeysOf(d)'
  BY <1>1, <1>2, <1>7 DEF PlanKeysOf
<1>8. ASSUME NEW c \in Clients, Work(c)
      PROVE  /\ txn'[d].counted \subseteq PlanKeysOf(d)'
             /\ \A i \in DOMAIN txn'[d].todo :
                  txn'[d].todo[i].key \in PlanKeysOf(d)'
  BY <1>1, <1>3, <1>8 DEF PlanKeysOf
<1> QED
  BY <1>1, <1>4, <1>5, <1>6, <1>7, <1>8 DEF WhNext

LEMMA AppliedNext ==
  ASSUME WhInv, CorrectsPlan, AppliedIsClosed, OneApproval, [WhNext]_whVars
  PROVE  AppliedIsClosed'
<1> USE DEF AppliedIsClosed
<1>t. InvTypeOK /\ JobTypeOK /\ PlanHasLines /\ RestTypeOK
  BY DEF WhInv
<1>l. line' \in [Keys -> Line \cup {NoLine}]
  BY <1>t, LineType
<1>1. ASSUME NEW k \in Keys, NEW n \in 0..MaxCount, CountLine(k, n)
      PROVE  AppliedIsClosed'
  <2>1. /\ takeStatus' = takeStatus /\ job' = job
        /\ applied' = [applied EXCEPT ![k] = 0]
        /\ \A l \in Keys \ {k} : line'[l] = line[l]
    BY <1>1, <1>t DEF CountLine, JobTypeOK
  <2>2. applied'[k] = 0 /\ \A l \in Keys \ {k} : applied'[l] = applied[l]
    BY <2>1, <1>t DEF RestTypeOK
  <2>3. \A c \in Clients : job[c].kind = "approve" => PlanKeysOf(c) \subseteq Keys
    BY <1>t, JobType, PlanKeys DEF PlanKeysOf, ApproveJob
  <2> QED
    BY <2>1, <2>2, <2>3 DEF PlanKeysOf
<1>2. CASE CreateTake
  BY <1>2 DEF CreateTake, PlanKeysOf
<1>3. CASE StartRead \/ StartTake
  BY <1>3 DEF StartRead, StartTake, PlanKeysOf
<1>4. ASSUME NEW c \in Clients, ApproveRead(c)
      PROVE  AppliedIsClosed'
  <2>1. PICK o \in Orders(ToCorrect) :
          job' = [job EXCEPT ![c] =
            [kind |-> "approve", stage |-> "read",
             plan |-> [i \in DOMAIN o |-> Correction(o[i])]]]
    BY <1>4 DEF ApproveRead
  <2>2. takeStatus' = takeStatus /\ line' = line /\ applied' = applied
    BY <1>4 DEF ApproveRead, takeVars
  <2>3. job'[c].plan = [i \in DOMAIN o |-> Correction(o[i])]
        /\ \A d \in Clients \ {c} : job'[d] = job[d]
    BY <2>1, <1>t DEF JobTypeOK
  <2>4. \A i \in DOMAIN o : o[i] \in ToCorrect
    BY DEF Orders
  <2>5. \A k \in ToCorrect : k \in Keys /\ applied[k] = 0
    BY DEF ToCorrect
  <2>6. \A k \in PlanKeysOf(c)' : applied[k] = 0
    BY <2>3, <2>4, <2>5 DEF PlanKeysOf, Correction
  <2> QED
    BY <2>2, <2>3, <2>6 DEF PlanKeysOf
<1>5. ASSUME NEW c \in Clients, ApproveBegin(c)
      PROVE  AppliedIsClosed'
  <2>1. takeStatus' = takeStatus /\ line' = line /\ applied' = applied
    BY <1>5 DEF ApproveBegin, takeVars
  <2>2. job[c].kind = "approve" /\ job'[c].plan = job[c].plan
        /\ \A d \in Clients \ {c} : job'[d] = job[d]
    BY <1>5, <1>t DEF ApproveBegin, JobTypeOK
  <2> QED
    BY <2>1, <2>2 DEF PlanKeysOf
<1>6. ASSUME NEW c \in Clients, NEW j, job' = [job EXCEPT ![c] = j],
             j.kind # "approve", UNCHANGED takeVars
      PROVE  AppliedIsClosed'
  <2>1. job'[c] = j /\ \A d \in Clients \ {c} : job'[d] = job[d]
    BY <1>6, <1>t DEF JobTypeOK
  <2> QED
    BY <1>6, <2>1 DEF PlanKeysOf, takeVars
<1>7. ASSUME NEW c \in Clients, Finish(c) PROVE AppliedIsClosed'
  <2>1. job' = [job EXCEPT ![c] = AfterCommit(c)]
    BY <1>7 DEF Finish
  <2>2. AfterCommit(c).kind # "approve"
    BY DEF AfterCommit, NoJob
  <2>3. CASE job[c].kind # "approve"
    BY <1>6, <1>7, <2>1, <2>2, <2>3 DEF Finish
  <2>4. CASE job[c].kind = "approve"
    <3>1. /\ takeStatus' = "CLOSED"
          /\ line' = [k \in Keys |->
               IF InPlan(c, k)
               THEN [book |-> line[k].book, diff |-> line[k].diff,
                     status |-> AfterApproval]
               ELSE line[k]]
          /\ applied' = [k \in Keys |->
               IF k \in txn[c].counted THEN applied[k] + 1 ELSE applied[k]]
      BY <1>7, <2>4 DEF Finish, CloseTake
    <3>2. IsOpen(c)
      BY <1>7 DEF Finish, Commit
    <3>3. txn[c].counted \subseteq PlanKeysOf(c)
      BY <2>4, <3>2 DEF CorrectsPlan
    <3>4. \A k \in Keys : InPlan(c, k) <=> k \in PlanKeysOf(c)
      BY DEF InPlan, PlanKeysOf
    <3>5. \A d \in Clients : job'[d].kind # "approve"
      <4>1. job'[c] = AfterCommit(c) /\ \A d \in Clients \ {c} : job'[d] = job[d]
        BY <2>1, <1>t DEF JobTypeOK
      <4> QED
        BY <2>2, <2>4, <4>1 DEF OneApproval
    <3>6. ASSUME NEW k \in Keys, applied'[k] # 0
          PROVE  applied'[k] = 1 /\ line'[k] # NoLine /\ line'[k].status = "ADJUSTED"
      <4>1. CASE k \in PlanKeysOf(c)
        <5>1. applied[k] = 0
          BY <2>4, <4>1
        <5>2. line[k] # NoLine
          BY <1>t, <2>4, <4>1 DEF PlanHasLines, PlanKeysOf
        <5>3. line'[k] = [book |-> line[k].book, diff |-> line[k].diff,
                          status |-> AfterApproval]
          BY <3>1, <3>4, <4>1
        <5>4. line'[k].status = "ADJUSTED"
          BY <5>3 DEF AfterApproval
        <5>5. line[k] \in Line
          BY <1>t, <5>2 DEF JobTypeOK
        <5>6. line'[k] \in Line
          BY <5>3, <5>5 DEF Line, AfterApproval
        <5>7. applied'[k] = 1
          BY <3>1, <3>6, <5>1
        <5> QED
          BY <5>4, <5>6, <5>7
      <4>2. CASE k \notin PlanKeysOf(c)
        BY <3>1, <3>3, <3>4, <3>6, <4>2
      <4> QED
        BY <4>1, <4>2
    <3> QED
      BY <3>1, <3>5, <3>6
  <2> QED
    BY <2>3, <2>4
<1>8. ASSUME NEW c \in Clients, NEW n \in Wants, IssueStart(c, n)
      PROVE  AppliedIsClosed'
  <2> DEFINE j == [kind |-> "issue", cands |-> [k \in Keys |-> Available(k)],
                   want |-> n, left |-> n, taking |-> 0, out |-> 0]
  <2>1. job' = [job EXCEPT ![c] = j] /\ j.kind # "approve" /\ UNCHANGED takeVars
    BY <1>8 DEF IssueStart
  <2> HIDE DEF j
  <2> QED
    BY <1>6, <2>1
<1>9. ASSUME NEW c \in Clients, NEW k \in Keys, IssueNext(c, k)
      PROVE  AppliedIsClosed'
  <2> DEFINE j == [kind |-> "issue", cands |-> [job[c].cands EXCEPT ![k] = 0],
                   want |-> job[c].want, left |-> job[c].left,
                   taking |-> Least(job[c].left, job[c].cands[k]),
                   out |-> job[c].out]
  <2>1. job' = [job EXCEPT ![c] = j] /\ j.kind # "approve" /\ UNCHANGED takeVars
    BY <1>9 DEF IssueNext
  <2> HIDE DEF j
  <2> QED
    BY <1>6, <2>1
<1>10. ASSUME NEW c \in Clients, IssueEnd(c) \/ Fail(c) PROVE AppliedIsClosed'
  <2>1. job' = [job EXCEPT ![c] = NoJob] /\ UNCHANGED takeVars
    BY <1>10 DEF IssueEnd, Fail, AfterFailure
  <2>2. NoJob.kind # "approve"
    BY DEF NoJob
  <2> QED
    BY <1>6, <2>1, <2>2
<1>11. CASE UNCHANGED whVars \/ \E c \in Clients : Single(c) \/ Work(c)
  <2>1. UNCHANGED <<takeVars, job>>
    BY <1>11 DEF Single, Work, whVars, takeVars
  <2> QED
    BY <2>1 DEF PlanKeysOf, takeVars
<1> HIDE DEF AppliedIsClosed
<1> QED
  BY <1>1, <1>2, <1>3, <1>4, <1>5, <1>7, <1>8, <1>9, <1>10, <1>11 DEF WhNext

(***************************************************************************)
(* A counted difference is applied at most once, however often the take is *)
(* approved and its lines are counted again, and whatever happens to the   *)
(* rows meanwhile, as long as approvals do not overlap.                    *)
(***************************************************************************)
THEOREM DifferencesAreAppliedOnce ==
  WhSpec /\ []OneApproval => []AppliedAtMostOnce
<1>1. WhInit => CorrectsPlan /\ AppliedIsClosed
  BY DEF WhInit, CorrectsPlan, AppliedIsClosed, NoJob
<1>2. WhInv /\ CorrectsPlan /\ AppliedIsClosed /\ OneApproval /\ [WhNext]_whVars
        => CorrectsPlan' /\ AppliedIsClosed'
  BY AppliedNext, CorrectsPlanNext DEF WhInv
<1>3. AppliedIsClosed => AppliedAtMostOnce
  <2> SUFFICES ASSUME AppliedIsClosed, NEW k \in Keys PROVE applied[k] <= 1
    BY DEF AppliedAtMostOnce
  <2>1. applied[k] = 0 \/ applied[k] = 1
    BY DEF AppliedIsClosed
  <2> QED
    BY <2>1
<1> QED
  BY <1>1, <1>2, <1>3, WhInvInit, WhInvNext, PTL DEF WhSpec
=============================================================================
