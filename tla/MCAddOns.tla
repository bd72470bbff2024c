------------------------------ MODULE MCAddOns ------------------------------
(* The instance of AddOnPurchases for TLC.  No symmetry: one of its         *)
(* properties is a liveness property.                                       *)
EXTENDS AddOnPurchases
=============================================================================
