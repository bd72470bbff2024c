---------------------------- MODULE MCAccounts ----------------------------
(* Instances of CustomerAccounts for TLC. *)
EXTENDS AccountsInvariant, TLC

\* The page asks for less than the service, as in the code.
TwoRanks == 1 .. 2
ServiceTable == [k \in TwoRanks |-> k + 1]
PageTable == [k \in TwoRanks |-> k]
=============================================================================
