---------------------------- MODULE MCTankArena ----------------------------
(* TankArena for TLC.                                                        *)
EXTENDS TankArena, TLC

Symmetry == Permutations(Players)
=============================================================================
