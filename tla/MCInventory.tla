----------------------------- MODULE MCInventory -----------------------------
(* Instances of Inventory for TLC. *)
EXTENDS InventoryInvariant, TLC

\* Stores and job slots are interchangeable; rows are in the index's order.
InventorySymmetry == Permutations(Store) \cup Permutations(Job)
=============================================================================
