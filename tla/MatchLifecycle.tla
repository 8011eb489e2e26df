---------------------------- MODULE MatchLifecycle ----------------------------
(***************************************************************************)
(* What a game session promises its players, without timestamps, versions  *)
(* or player bookkeeping: nobody is in a match who was not in its roster   *)
(* when the roster was locked, a match starts with enough players, and an  *)
(* ended match stays as it ended.                                          *)
(***************************************************************************)
EXTENDS Integers, FiniteSets

CONSTANTS Players, MinPlayers, MaxPlayers

VARIABLES
  phase,   \* "open" while gathering, then "locked", "playing", "ended", "void"
  roster   \* who is in the locked or running match

vars == <<phase, roster>>

Phases == {"open", "locked", "playing", "ended", "void"}

Init == phase = "open" /\ roster = {}

\* The roster is chosen once; with no countdown the match starts in the same step.
Lock ==
  /\ phase = "open"
  /\ phase' \in {"locked", "playing"}
  /\ roster' \in SUBSET Players
  /\ Cardinality(roster') \in MinPlayers .. MaxPlayers

Start ==
  /\ phase = "locked"
  /\ phase' = "playing"
  /\ Cardinality(roster) >= MinPlayers
  /\ UNCHANGED roster

\* Players drop out; before the start, enough of them must remain.
Shrink ==
  /\ phase \in {"locked", "playing"}
  /\ roster' \in SUBSET roster
  /\ phase = "locked" => Cardinality(roster') >= MinPlayers
  /\ UNCHANGED phase

End == phase = "playing" /\ phase' = "ended" /\ UNCHANGED roster

Void == phase \in {"open", "locked", "playing"} /\ phase' = "void" /\ roster' = {}

Next == Lock \/ Start \/ Shrink \/ End \/ Void

Spec == Init /\ [][Next]_vars
=============================================================================
