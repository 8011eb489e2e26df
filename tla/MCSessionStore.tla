---------------------------- MODULE MCSessionStore ----------------------------
(* SessionStore on a small instance.                                       *)
EXTENDS SessionStore, TLC

Interchangeable ==
  Permutations(Handlers) \cup Permutations(Keys) \cup Permutations(Sessions)
=============================================================================
