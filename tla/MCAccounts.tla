----------------------------- MODULE MCAccounts -----------------------------
(* Accounts with two provider accounts: one at Apple that shares an email, *)
(* and one at Facebook without one.                                        *)
EXTENDS Accounts, TLC

CONSTANTS e1, e2, pApple, pFacebook

MCProvider == (pApple :> 2) @@ (pFacebook :> 3)
MCSharedEmail == (pApple :> e1) @@ (pFacebook :> "")

Symmetry == Permutations(Users)
=============================================================================
