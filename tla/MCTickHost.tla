----------------------------- MODULE MCTickHost -----------------------------
(* TickHost for TLC: a roster of three.  All of them play two rounds of      *)
(* tanks; two play on, with a crash on the way; or two start, while much     *)
(* goes wrong at once.                                                       *)
EXTENDS TickHost, TLC

CONSTANTS p1, p2, p3

Scene(played, absent, waiters, until, ballots, often) ==
  [game |-> played, gone |-> absent, waiting |-> waiters, horizon |-> until, votes |-> ballots,
   disturbances |-> often]

MCScenes ==
  { Scene("houseTanks", {}, {p1, p2, p3}, 9, 3, 0),
    Scene("houseTanks", {p3}, {p1, p2}, 5, 2, 1),
    Scene("houseTanks", {p3}, {p1, p2}, 3, 0, 2),
    Scene("houseRockets", {p3}, {p1}, 9, 0, 1),
    Scene("houseRockets", {p3}, {p1, p2}, 3, 0, 2) }

Symmetry == Permutations({p1, p2})
=============================================================================
