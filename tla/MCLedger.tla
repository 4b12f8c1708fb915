------------------------------ MODULE MCLedger ------------------------------
(* Ledger on small instances. *)
EXTENDS Ledger, TLC

CONSTANTS a1, a2, k1, k2

Symmetry == Permutations(Assignment) \cup Permutations(Client)
=============================================================================
