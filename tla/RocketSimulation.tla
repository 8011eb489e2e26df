-------------------------- MODULE RocketSimulation --------------------------
(***************************************************************************)
(* The simulation of one House Rockets match (houseRockets/simulation.go,  *)
(* simulationState.go): who is alive, who was eliminated when and why, and *)
(* the outcome.  Motion, the course and the camera are abstracted to the   *)
(* set of rockets that fall behind the camera in a tick.                   *)
(***************************************************************************)
EXTENDS TickSettings

\* forfeit stands for a lost membership too
SystemReasons == {"forfeit", "connectionExpired"}
OutcomeCancelReasons == {"sessionExpired", "cancelledByUser", "recoveryFailed", "runtimeOverloaded"}

Outcomes ==
  [status : {"completed"}, endReason : {"lastSurvivor"}, winner : Players]
    \cup [status : {"completed"}, endReason : {"simultaneousElimination"}, winner : {None}]
    \cup [status : {"cancelled"}, endReason : OutcomeCancelReasons, winner : {None}]

Simulations ==
  [game : {"houseRockets"}, tick : Nat,
   eliminatedAt : [Players -> Nat \cup {None}],
   reason : [Players -> SystemReasons \cup {"behindCamera", None}],
   outcome : Outcomes \cup {None}]

IsAlive(s, p) == s.eliminatedAt[p] = None
Alive(s) == {p \in Players : IsAlive(s, p)}

NewSimulation ==
  [game |-> "houseRockets", tick |-> 0, eliminatedAt |-> [p \in Players |-> None],
   reason |-> [p \in Players |-> None], outcome |-> None]

Cancelled(reason) == [status |-> "cancelled", endReason |-> reason, winner |-> None]

ResolveOutcome(s) ==
  [s EXCEPT !.outcome =
     IF @ # None \/ Cardinality(Alive(s)) > 1 THEN @
     ELSE IF Alive(s) = {}
       THEN [status |-> "completed", endReason |-> "simultaneousElimination", winner |-> None]
     ELSE [status |-> "completed", endReason |-> "lastSurvivor",
           winner |-> CHOOSE p \in Players : p \in Alive(s)]]

EliminateAll(s, ps, why) ==
  [s EXCEPT !.eliminatedAt = [p \in Players |-> IF p \in ps THEN s.tick ELSE s.eliminatedAt[p]],
            !.reason = [p \in Players |-> IF p \in ps THEN why[p] ELSE s.reason[p]]]

\* All requests count for the same tick; a finished match accepts none. The
\* requests are for players who are alive.
EliminateBatch(s, ps, why) ==
  IF ps = {} \/ s.outcome # None THEN s ELSE ResolveOutcome(EliminateAll(s, ps, why))

\* One tick; behind are the rockets the camera leaves behind.
Step(s, behind) ==
  LET moved == [s EXCEPT !.tick = @ + 1]
      left == EliminateAll(moved, behind \cap Alive(s), [p \in Players |-> "behindCamera"])
      resolved == ResolveOutcome(left)
  IN IF resolved.outcome = None /\ resolved.tick = MaximumMatchTicks
       THEN [resolved EXCEPT !.outcome = Cancelled("sessionExpired")] ELSE resolved

CancelSimulation(s, reason) ==
  IF s.outcome # None \/ (reason = "sessionExpired" /\ s.tick # MaximumMatchTicks) THEN s
  ELSE [s EXCEPT !.outcome = Cancelled(reason)]

-----------------------------------------------------------------------------
\* ProposeResult of a simulation that has an outcome
Ranks(eliminatedAt) ==
  [p \in Players |->
     IF eliminatedAt[p] = None THEN 1
     ELSE 1 + Cardinality({q \in Players :
                IF eliminatedAt[q] = None THEN TRUE ELSE eliminatedAt[q] > eliminatedAt[p]})]

SimulationResult(s) ==
  [status |-> s.outcome.status, endReason |-> s.outcome.endReason, winner |-> s.outcome.winner,
   ticks |-> s.tick, eliminatedAt |-> s.eliminatedAt, reason |-> s.reason,
   rank |-> IF s.outcome.status = "completed" THEN Ranks(s.eliminatedAt)
            ELSE [p \in Players |-> None]]

\* validOutcome: what an outcome says about who is alive and about the tick
ValidOutcome(outcome, alive, tick) ==
  \/ outcome = None /\ Cardinality(alive) >= MinimumPlayers /\ tick < MaximumMatchTicks
  \/ /\ outcome # None
     /\ \/ outcome.status = "completed" /\ outcome.endReason = "lastSurvivor" /\ alive = {outcome.winner}
        \/ /\ outcome.status = "completed" /\ outcome.endReason = "simultaneousElimination"
           /\ alive = {} /\ outcome.winner = None
        \/ /\ outcome.status = "cancelled" /\ outcome.winner = None
           /\ Cardinality(alive) >= MinimumPlayers
           /\ (outcome.endReason = "sessionExpired") = (tick = MaximumMatchTicks)
           /\ tick <= MaximumMatchTicks

\* ValidateResult for a session whose roster is Players
ValidRocketResult(r) ==
  LET alive == {p \in Players : r.eliminatedAt[p] = None}
  IN /\ r.ticks <= MaximumMatchTicks
     /\ \A p \in Players : /\ (r.eliminatedAt[p] = None) = (r.reason[p] = None)
                           /\ r.eliminatedAt[p] # None => r.eliminatedAt[p] <= r.ticks
     /\ ValidOutcome([status |-> r.status, endReason |-> r.endReason, winner |-> r.winner], alive, r.ticks)
     /\ r.rank = IF r.status = "completed" THEN Ranks(r.eliminatedAt) ELSE [p \in Players |-> None]

\* validPlayerState and validOutcome, as RestoreSimulation applies them
RestorableSimulation(s) ==
  /\ s.tick <= MaximumMatchTicks
  /\ \A p \in Players : /\ (s.eliminatedAt[p] = None) = (s.reason[p] = None)
                        /\ s.eliminatedAt[p] # None => s.eliminatedAt[p] <= s.tick
  /\ ValidOutcome(s.outcome, Alive(s), s.tick)

\* RecoveryCancellationResult: an elimination nobody remembers is not invented.
RocketCancellation(reason) ==
  [status |-> "cancelled", endReason |-> reason, winner |-> None, ticks |-> 0,
   eliminatedAt |-> [p \in Players |-> None], reason |-> [p \in Players |-> None],
   rank |-> [p \in Players |-> None]]
=============================================================================
