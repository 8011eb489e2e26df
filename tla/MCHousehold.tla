----------------------------- MODULE MCHousehold -----------------------------
(* Household with sets that TLC may permute.                               *)
EXTENDS Household, TLC

Symmetry == Permutations(Users)
=============================================================================
