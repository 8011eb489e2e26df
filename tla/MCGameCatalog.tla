---------------------------- MODULE MCGameCatalog ----------------------------
(* GameCatalog while a release is rolled out: the older instance does not  *)
(* resolve the contents the newer one has introduced.                      *)
EXTENDS GameCatalog, TLC

CONSTANTS older, newer, plain, extended

MCResolves == (older :> {plain}) @@ (newer :> {plain, extended})
=============================================================================
