----------------------------- MODULE MCAppEvents -----------------------------
(* AppEvents on one instance: users, houses, commands and sockets are      *)
(* interchangeable.                                                        *)
EXTENDS AppEvents, TLC

Symmetry == Permutations(Users) \cup Permutations(Houses)
              \cup Permutations(Commands) \cup Permutations(Connections)
=============================================================================
