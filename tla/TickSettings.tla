---------------------------- MODULE TickSettings ----------------------------
(***************************************************************************)
(* What House Tanks and House Rockets share: the frozen roster and the     *)
(* limits of a runtime.  Time is counted in physics ticks; time 0 is Go's  *)
(* zero time and no clock shows it.                                        *)
(***************************************************************************)
EXTENDS Integers, FiniteSets

CONSTANTS
  Players,            \* the frozen roster
  None,
  MinimumPlayers,     \* players a match needs
  MaximumMatchTicks,
  CatchUp,            \* maximumCatchUp: a longer pause of the scheduler ends the match
  InputLifetime,      \* age at which a queued input is dropped
  ControlTimeout,     \* silence after which a player loses control
  ReconnectGrace,     \* what a player then has to come back
  RuntimeQueueSize,   \* capacity of the command and the event channel
  PlayerQueueSize     \* presses one tank may have waiting

ASSUME SettingsAssumption ==
  /\ IsFiniteSet(Players) /\ MinimumPlayers \in Nat /\ MinimumPlayers > 1
  /\ Cardinality(Players) >= MinimumPlayers
  /\ {MaximumMatchTicks, CatchUp, InputLifetime, ControlTimeout, ReconnectGrace,
      RuntimeQueueSize, PlayerQueueSize} \subseteq Nat \ {0}
  /\ None \notin Players \cup Nat

PresenceDeadline == ControlTimeout + ReconnectGrace

LargestOf(a, b) == IF a < b THEN b ELSE a
=============================================================================
