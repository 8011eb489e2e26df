------------------------------ MODULE TankMatch ------------------------------
(***************************************************************************)
(* The round flow of one House Tanks match (houseTanks/match.go): a pure   *)
(* state machine advanced one physics tick at a time, and the result the   *)
(* runtime proposes from it (houseTanks/result.go).                        *)
(*                                                                         *)
(* What happens in the arena within a tick is abstracted to the set of     *)
(* tanks that are destroyed in it; the arena itself is module TankArena.   *)
(* Event numbers, jokers and the map are left out.                         *)
(***************************************************************************)
EXTENDS TickSettings

CONSTANTS
  RoundWinsNeeded,        \* rounds the champion wins
  RoundCountdownTicks, RoundReadyWindowTicks, RoundReadyIdleTicks

ASSUME TankAssumption ==
  {RoundWinsNeeded, RoundCountdownTicks, RoundReadyWindowTicks, RoundReadyIdleTicks}
    \subseteq Nat \ {0}

\* matchTiming: ticks with too few players present, and ticks everyone counts as
\* present at the start
InsufficientGraceTicks == ReconnectGrace
PresenceGraceTicks == PresenceDeadline

CancelReasons == {"insufficientPlayers", "sessionExpired", "cancelledByUser",
                  "recoveryFailed", "runtimeOverloaded"}

Tanks == [active : BOOLEAN, controllable : BOOLEAN, driving : BOOLEAN]

Matches ==
  [game : {"houseTanks"}, tick : Nat,
   roundPhase : {"roundCountdown", "roundPlaying", "roundReady", "matchEnded"},
   roundNumber : Nat, roundsPlayed : Nat, countdownEndsAt : Nat,
   windowEndsAt : Nat \cup {None}, idleSince : Nat, insufficientSince : Nat \cup {None},
   graceUntil : Nat, champion : Players \cup {None},
   status : {None, "completed", "cancelled"},
   endReason : {None, "championDecided"} \cup CancelReasons,
   won : [Players -> Nat], controlled : [Players -> BOOLEAN],
   hasLeft : [Players -> BOOLEAN], roundReady : [Players -> BOOLEAN],
   tanks : [Players -> Tanks]]

MatchEnded(m) == m.status # None
Playing(m) == ~MatchEnded(m) /\ m.roundPhase = "roundPlaying"

-----------------------------------------------------------------------------
(* The arena, as far as the round flow sees it                             *)

\* A fresh arena: every tank stands on its spawn point.
NewWorld(m) ==
  [p \in Players |-> [active |-> TRUE, controllable |-> m.controlled[p], driving |-> FALSE]]

SetControllable(tank, controllable) ==
  [tank EXCEPT !.controllable = controllable, !.driving = @ /\ controllable]

Press(tank) == [tank EXCEPT !.driving = @ \/ (tank.active /\ tank.controllable)]
Release(tank) == [tank EXCEPT !.driving = FALSE]
Eliminate(tank) == [tank EXCEPT !.active = FALSE, !.driving = FALSE]
Freeze(tank) == [tank EXCEPT !.driving = FALSE]

-----------------------------------------------------------------------------
(* Rounds                                                                  *)

BeginRound(m) ==
  [m EXCEPT !.tanks = NewWorld(m), !.roundReady = [p \in Players |-> FALSE],
            !.roundNumber = @ + 1, !.roundPhase = "roundCountdown",
            !.countdownEndsAt = m.tick + RoundCountdownTicks, !.windowEndsAt = None]

NewMatch ==
  BeginRound([game |-> "houseTanks", tick |-> 0, roundPhase |-> "roundReady",
    roundNumber |-> 0, roundsPlayed |-> 0, countdownEndsAt |-> 0, windowEndsAt |-> None,
    idleSince |-> 0, insufficientSince |-> None, graceUntil |-> PresenceGraceTicks,
    champion |-> None, status |-> None, endReason |-> None,
    won |-> [p \in Players |-> 0], controlled |-> [p \in Players |-> FALSE],
    hasLeft |-> [p \in Players |-> FALSE], roundReady |-> [p \in Players |-> FALSE],
    tanks |-> [p \in Players |-> [active |-> TRUE, controllable |-> FALSE, driving |-> FALSE]]])

\* Losing control makes the tank a stationary target and drops the vote.
SetControl(m, p, controlled) ==
  IF controlled /\ m.hasLeft[p] THEN m
  ELSE [m EXCEPT !.controlled[p] = controlled, !.roundReady[p] = @ /\ controlled,
                 !.tanks[p] = SetControllable(@, controlled)]

Leave(m, p) == [SetControl(m, p, FALSE) EXCEPT !.hasLeft[p] = TRUE]

AwaitPlayers(m, until) == [m EXCEPT !.graceUntil = LargestOf(@, until)]

MayVote(m, p) == ~MatchEnded(m) /\ m.roundPhase = "roundReady" /\ m.controlled[p]
SetReady(m, p, ready) == [m EXCEPT !.roundReady[p] = ready]

StopRound(m) == [m EXCEPT !.tanks = [p \in Players |-> Freeze(m.tanks[p])]]

End(m, status, reason) ==
  [(IF m.roundPhase \in {"roundPlaying", "roundCountdown"} THEN StopRound(m) ELSE m)
     EXCEPT !.status = status, !.endReason = reason, !.roundPhase = "matchEnded",
            !.windowEndsAt = None, !.champion = IF status = "completed" THEN @ ELSE None]

CancelMatch(m, reason) == IF MatchEnded(m) THEN m ELSE End(m, "cancelled", reason)

OpenRoundReady(m) ==
  [m EXCEPT !.roundPhase = "roundReady", !.windowEndsAt = None, !.idleSince = m.tick,
            !.roundReady = [p \in Players |-> FALSE]]

\* The round ends once at most one tank is left; with none it is a draw.
ResolveRound(m) ==
  LET alive == {p \in Players : m.tanks[p].active}
      stopped == [StopRound(m) EXCEPT !.roundsPlayed = @ + 1]
      scored == [stopped EXCEPT !.won = [p \in Players |->
                   IF p \in alive THEN m.won[p] + 1 ELSE m.won[p]]]
      winner == CHOOSE p \in Players : p \in alive
  IN IF Cardinality(alive) > 1 THEN m
     ELSE IF alive = {} THEN OpenRoundReady(stopped)
     ELSE IF scored.won[winner] >= RoundWinsNeeded
       THEN End([scored EXCEPT !.champion = winner], "completed", "championDecided")
     ELSE OpenRoundReady(scored)

CollectVotes(m) ==
  LET controlled == {p \in Players : m.controlled[p]}
      ready == {p \in controlled : m.roundReady[p]}
      enough == Cardinality(ready) >= MinimumPlayers
      window == m.windowEndsAt # None
  IN CASE enough /\ ready = controlled -> BeginRound(m)
       [] window /\ ~enough -> [m EXCEPT !.windowEndsAt = None, !.idleSince = m.tick]
       [] window /\ enough /\ ready # controlled /\ m.tick >= m.windowEndsAt -> BeginRound(m)
       [] ~window /\ enough /\ ready # controlled ->
            [m EXCEPT !.windowEndsAt = m.tick + RoundReadyWindowTicks]
       [] ~window /\ ~enough /\ m.tick - m.idleSince >= RoundReadyIdleTicks ->
            End(m, "cancelled", "sessionExpired")
       [] OTHER -> m

\* Too few who have not left end the match at once, too few present after a
\* grace.
CheckPresence(m) ==
  LET remaining == {p \in Players : ~m.hasLeft[p]}
      present == {p \in remaining : m.controlled[p] \/ m.tick < m.graceUntil}
      since == IF m.insufficientSince = None THEN m.tick ELSE m.insufficientSince
  IN IF Cardinality(remaining) < MinimumPlayers THEN End(m, "cancelled", "insufficientPlayers")
     ELSE IF Cardinality(present) >= MinimumPlayers THEN [m EXCEPT !.insufficientSince = None]
     ELSE IF m.tick - since >= InsufficientGraceTicks
       THEN End([m EXCEPT !.insufficientSince = since], "cancelled", "insufficientPlayers")
     ELSE [m EXCEPT !.insufficientSince = since]

\* Advance of a match that has not ended; fallen are the tanks the arena's step
\* destroys.
AdvanceMatch(m, fallen) ==
  LET t == [m EXCEPT !.tick = @ + 1]
      played == CASE t.roundPhase = "roundCountdown" ->
                       IF t.tick >= t.countdownEndsAt THEN [t EXCEPT !.roundPhase = "roundPlaying"] ELSE t
                  [] t.roundPhase = "roundPlaying" ->
                       ResolveRound([t EXCEPT !.tanks = [p \in Players |->
                         IF p \in fallen THEN Eliminate(t.tanks[p]) ELSE t.tanks[p]]])
                  [] OTHER -> CollectVotes(t)
      checked == IF MatchEnded(played) THEN played ELSE CheckPresence(played)
  IN IF ~MatchEnded(checked) /\ checked.tick >= MaximumMatchTicks
       THEN End(checked, "cancelled", "sessionExpired") ELSE checked

-----------------------------------------------------------------------------
(* The result                                                              *)

RankOf(wins, won) == 1 + Cardinality({q \in Players : won[q] > wins})

MatchResult(m, status, reason) ==
  [status |-> status, endReason |-> reason, ticks |-> m.tick, roundsPlayed |-> m.roundsPlayed,
   champion |-> IF status = "completed" THEN m.champion ELSE None, won |-> m.won,
   rank |-> [p \in Players |-> IF status = "completed" THEN RankOf(m.won[p], m.won) ELSE None]]

\* Rounds that fit into a match: no round is shorter than its countdown.
MaximumRoundsPlayed == (MaximumMatchTicks \div RoundCountdownTicks) + 1

TotalWins(won) == Cardinality({<<p, n>> \in Players \X (1 .. RoundWinsNeeded) : n <= won[p]})

\* ValidateResult for a session whose roster is Players.
ValidTankResult(r) ==
  LET champions == {p \in Players : r.won[p] = RoundWinsNeeded}
  IN /\ r.ticks <= MaximumMatchTicks /\ r.roundsPlayed <= MaximumRoundsPlayed
     /\ \A p \in Players : r.won[p] <= RoundWinsNeeded
     /\ TotalWins(r.won) <= r.roundsPlayed
     /\ \/ /\ r.status = "completed" /\ r.endReason = "championDecided"
           /\ r.champion # None /\ champions = {r.champion}
           /\ \A p \in Players : r.rank[p] = 1 + Cardinality({q \in Players : r.won[q] > r.won[p]})
        \/ /\ r.status = "cancelled" /\ r.endReason \in CancelReasons
           /\ r.champion = None /\ champions = {} /\ \A p \in Players : r.rank[p] = None

\* RecoveryCancellationResult: nothing of the match survives.
TankCancellation(reason) ==
  [status |-> "cancelled", endReason |-> reason, ticks |-> 0, roundsPlayed |-> 0, champion |-> None,
   won |-> [p \in Players |-> 0], rank |-> [p \in Players |-> None]]
=============================================================================
