---------------------------- MODULE MCWarehouse ----------------------------
(* Small instances of Warehouse for TLC. *)
EXTENDS Warehouse, TLC

\* The stock rows are alike: the code tells them apart by their key only.
KeySymmetry == Permutations(Keys)

\* No row yet, or one or two of everything in stock.
EmptyStock == [k \in Keys |-> 0]
OneOfEach == [k \in Keys |-> 1]
TwoOfEach == [k \in Keys |-> 2]
===========================================================================
