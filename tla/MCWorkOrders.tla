---------------------------- MODULE MCWorkOrders ----------------------------
(* Small instances of WorkOrders for TLC. *)
EXTENDS WorkOrders, TLC

\* Ids are handed out in no particular order, and clients are alike.
OrderSymmetry == Permutations(Orders)
Symmetry == Permutations(Orders) \cup Permutations(Clients)
=============================================================================
