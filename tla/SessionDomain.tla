---------------------------- MODULE SessionDomain ----------------------------
(***************************************************************************)
(* The GameSession aggregate as pure operators: each one maps a session    *)
(* record and a timestamp to the session the domain method leaves behind.  *)
(* A method that returns an error changes nothing, so its preconditions    *)
(* are a separate predicate (Can...) that the actions use as their guard.  *)
(*                                                                         *)
(* Time is a natural number; 0 is Go's zero time.  Settings, the game      *)
(* state's bytes and identifiers are not told apart by any property.       *)
(***************************************************************************)
EXTENDS Integers, FiniteSets

CONSTANTS
  Players,       \* everybody who may ever join
  MinPlayers,    \* rules.MinimumPlayers
  MaxPlayers,    \* rules.MaximumPlayers
  ReadyWindow,   \* rules.ReadyWindowDuration
  Countdown      \* rules.CountdownDuration

ASSUME PlayersAssumption == IsFiniteSet(Players)

\* SessionRules.Validate
ASSUME RulesAssumption ==
  /\ MinPlayers \in Nat /\ MinPlayers >= 2
  /\ MaxPlayers \in Nat /\ MaxPlayers >= MinPlayers
  /\ ReadyWindow \in Nat
  /\ Countdown \in Nat

NoTime == 0
Time == Nat
NoReason == "none"

SessionStates ==
  {"lobby", "readyWindow", "countdown", "running", "finished", "cancelled"}
\* "absent": not in the session's player list
PlayerStates == {"absent", "waiting", "ready", "playing", "finished", "left"}
EndReasons == {NoReason, "insufficientPlayers", "cancelledByUser", "gameOver"}

Player == [state : PlayerStates, readyAt : Time, leftAt : Time]

Session ==
  [ state             : SessionStates,
    players           : [Players -> Player],
    turnStored        : BOOLEAN,   \* len(gameState) > 0
    turnDeadline      : Time,
    updatedAt         : Time,
    readyWindowEndsAt : Time,
    countdownEndsAt   : Time,
    startedAt         : Time,
    endedAt           : Time,
    endReason         : EndReasons,
    version           : Nat ]

Terminal(s) == s.state \in {"finished", "cancelled"}

InState(s, S) == {p \in Players : s.players[p].state \in S}
Ready(s) == InState(s, {"ready"})
Current(s) == InState(s, {"waiting", "ready", "playing", "finished"})
ReadyPlayerCount(s) == Cardinality(Ready(s))
CurrentPlayerCount(s) == Cardinality(Current(s))
EnoughReady(s) == ReadyPlayerCount(s) >= MinPlayers

-----------------------------------------------------------------------------
(* Building blocks                                                         *)

\* n events of one operation at the same timestamp
Recorded(s, n, at) == [s EXCEPT !.version = @ + n, !.updatedAt = at]

\* the player list after every player of P left at time at
Departed(players, P, at) ==
  [p \in Players |-> IF p \in P THEN [players[p] EXCEPT !.state = "left", !.leftAt = at]
                                ELSE players[p]]

\* the player list after every player in state from moved to state to
Moved(players, from, to) ==
  [p \in Players |-> IF players[p].state = from THEN [players[p] EXCEPT !.state = to]
                                                ELSE players[p]]

CancelReadyWindow(s, at) ==
  Recorded([s EXCEPT !.state = "lobby", !.readyWindowEndsAt = NoTime], 1, at)

Cancelled(s, reason, at) ==
  Recorded([s EXCEPT !.state = "cancelled", !.readyWindowEndsAt = NoTime,
                     !.countdownEndsAt = NoTime, !.turnDeadline = NoTime,
                     !.endedAt = at, !.endReason = reason], 1, at)

\* Players who are not ready are excluded; one event each, then CountdownStarted.
StartCountdown(s, at) ==
  LET waiting == InState(s, {"waiting"})
  IN  Recorded([s EXCEPT !.players = Departed(@, waiting, at),
                         !.state = "countdown", !.readyWindowEndsAt = NoTime,
                         !.countdownEndsAt = at + Countdown],
               Cardinality(waiting) + 1, at)

StartGame(s, at) ==
  IF EnoughReady(s)
    THEN Recorded([s EXCEPT !.players = Moved(@, "ready", "playing"),
                            !.state = "running", !.countdownEndsAt = NoTime,
                            !.startedAt = at], 1, at)
    ELSE Cancelled(s, "insufficientPlayers", at)

\* Mutant: a deadline counts as passed only after it.
LateCountdownStep(s, now) ==
  IF s.state = "countdown" /\ now > s.countdownEndsAt
    THEN StartGame(s, s.countdownEndsAt)
    ELSE s

CountdownStep(s, now) ==
  IF s.state = "countdown" /\ now >= s.countdownEndsAt
    THEN StartGame(s, s.countdownEndsAt)
    ELSE s

\* The code's loop runs at most twice: a ready window that ends opens a
\* countdown, and a countdown that ends starts or cancels the game.  Each
\* transition happens at its own deadline, not at the time it was noticed.
AdvanceDeadlines(s, now) ==
  IF s.state = "readyWindow" /\ now >= s.readyWindowEndsAt
    THEN IF EnoughReady(s)
           THEN CountdownStep(StartCountdown(s, s.readyWindowEndsAt), now)
           ELSE CancelReadyWindow(s, s.readyWindowEndsAt)
    ELSE CountdownStep(s, now)

OpenReadyWindow(s, at) ==
  Recorded([s EXCEPT !.state = "readyWindow", !.readyWindowEndsAt = at + ReadyWindow], 1, at)

\* A full or overdue window closes at once.
CloseReadyWindow(s, at) ==
  IF ReadyPlayerCount(s) = MaxPlayers \/ at >= s.readyWindowEndsAt
    THEN AdvanceDeadlines(StartCountdown(s, at), at)
    ELSE s

ReconcileReadyWindow(s, at) ==
  IF EnoughReady(s)
    THEN CloseReadyWindow(IF s.state = "lobby" THEN OpenReadyWindow(s, at) ELSE s, at)
    ELSE IF s.state = "readyWindow" THEN CancelReadyWindow(s, at) ELSE s

-----------------------------------------------------------------------------
(* Operations                                                              *)

Waiting == [state |-> "waiting", readyAt |-> NoTime, leftAt |-> NoTime]
NoPlayer == [state |-> "absent", readyAt |-> NoTime, leftAt |-> NoTime]

\* A fresh session; its SessionCreated event gives it version 1.
NewGameSession(at) ==
  [ state |-> "lobby", players |-> [p \in Players |-> NoPlayer],
    turnStored |-> FALSE, turnDeadline |-> NoTime, updatedAt |-> at,
    readyWindowEndsAt |-> NoTime, countdownEndsAt |-> NoTime,
    startedAt |-> NoTime, endedAt |-> NoTime, endReason |-> NoReason, version |-> 1 ]

\* Mutant: a command may carry an earlier time than the last change.
AnyTime(s, at) == at > NoTime

\* requireOperationTime
InOrder(s, at) == at > NoTime /\ at >= s.updatedAt

AcceptsPlayers(s) == s.state \in {"lobby", "readyWindow"}

\* Mutant: a place freed during the countdown can be taken.
CanJoinUnlocked(s, p, at) ==
  /\ InOrder(s, at)
  /\ s.state \in {"lobby", "readyWindow", "countdown"}
  /\ p \notin Current(s)
  /\ CurrentPlayerCount(s) < MaxPlayers

CanJoin(s, p, at) ==
  /\ InOrder(s, at)
  /\ AcceptsPlayers(s)
  /\ p \notin Current(s)
  /\ CurrentPlayerCount(s) < MaxPlayers

JoinPlayer(s, p, at) == Recorded([s EXCEPT !.players[p] = Waiting], 1, at)

\* Setting the state a player already has is accepted and changes nothing.
CanSetReady(s, p, ready, at) ==
  /\ InOrder(s, at)
  /\ AcceptsPlayers(s)
  /\ s.players[p].state = IF ready THEN "waiting" ELSE "ready"

SetReady(s, p, ready, at) ==
  LET readiness == IF ready THEN [s.players[p] EXCEPT !.state = "ready", !.readyAt = at]
                            ELSE [s.players[p] EXCEPT !.state = "waiting", !.readyAt = NoTime]
  IN  ReconcileReadyWindow(Recorded([s EXCEPT !.players[p] = readiness], 1, at), at)

\* Mutant: a countdown goes on with too few players.
CountdownGoesOn(s, at) ==
  IF s.state = "readyWindow" /\ ~EnoughReady(s) THEN CancelReadyWindow(s, at) ELSE s

\* Mutant: the ready window stays open with too few players.
WindowGoesOn(s, at) ==
  IF s.state = "countdown" /\ ~EnoughReady(s)
    THEN Cancelled(s, "insufficientPlayers", at) ELSE s

\* Losing too many ready players closes a window or cancels a countdown.
WithoutEnoughReady(s, at) ==
  IF EnoughReady(s) THEN s
  ELSE IF s.state = "readyWindow" THEN CancelReadyWindow(s, at)
  ELSE IF s.state = "countdown" THEN Cancelled(s, "insufficientPlayers", at)
  ELSE s

CanLeave(s, p, at) ==
  /\ InOrder(s, at)
  /\ ~Terminal(s)
  /\ p \in Current(s)

LeavePlayer(s, p, at) ==
  WithoutEnoughReady(Recorded([s EXCEPT !.players = Departed(@, {p}, at)], 1, at), at)

\* One batch: intermediate ready counts trigger no transition.
CanExclude(s, P, at) ==
  /\ InOrder(s, at)
  /\ ~Terminal(s)
  /\ P \cap Current(s) # {}

ExcludePlayers(s, P, at) ==
  LET removed == P \cap Current(s)
  IN  WithoutEnoughReady(Recorded([s EXCEPT !.players = Departed(@, removed, at)],
                                  Cardinality(removed), at), at)

CanAdvance(s, at) == InOrder(s, at) /\ ~Terminal(s)

CanUpdateGameState(s, at) == InOrder(s, at) /\ s.state = "running"

UpdateGameState(s, deadline, at) ==
  Recorded([s EXCEPT !.turnStored = TRUE, !.turnDeadline = deadline], 1, at)

CanFinish(s, at) == InOrder(s, at) /\ s.state = "running"

Finish(s, reason, at) ==
  Recorded([s EXCEPT !.players = Moved(@, "playing", "finished"), !.state = "finished",
                     !.turnDeadline = NoTime, !.endedAt = at, !.endReason = reason], 1, at)

CanCancel(s, at) == InOrder(s, at) /\ ~Terminal(s)

-----------------------------------------------------------------------------
(* What the store accepts, and what the room derives from a snapshot       *)

RosterAcceptable(s) ==
  /\ CurrentPlayerCount(s) <= MaxPlayers
  /\ s.state = "readyWindow" => EnoughReady(s)
  /\ s.state = "countdown" => EnoughReady(s) /\ InState(s, {"waiting", "playing", "finished"}) = {}
  /\ s.state = "running" => InState(s, {"waiting", "ready", "finished"}) = {}
  /\ s.state = "finished" => InState(s, {"waiting", "ready", "playing"}) = {}

TimesAcceptable(s) ==
  /\ s.updatedAt # NoTime
  /\ s.state = "readyWindow" => s.readyWindowEndsAt # NoTime
  /\ s.state = "countdown" => s.countdownEndsAt # NoTime
  /\ s.state = "running" => s.startedAt # NoTime
  /\ Terminal(s) => s.endedAt # NoTime /\ s.endReason # NoReason

\* validateSnapshot: every load and every save of a session checks it.
Acceptable(s) == s.version >= 1 /\ RosterAcceptable(s) /\ TimesAcceptable(s)

\* sessionDeadline: when the owning room must act next; NoTime for never.
\* A turn game whose first state is missing is due at its start.
SessionDeadline(s, turnBased) ==
  CASE s.state = "readyWindow" -> s.readyWindowEndsAt
    [] s.state = "countdown" -> s.countdownEndsAt
    [] s.state = "running" /\ turnBased /\ ~s.turnStored -> s.startedAt
    [] s.state = "running" /\ (~turnBased \/ s.turnStored) -> s.turnDeadline
    [] OTHER -> NoTime

\* freezePlayers: the roster a room takes from a snapshot when it has none.
FrozenRoster(s) ==
  {p \in Players :
     \/ s.players[p].state \in {"ready", "playing"}
     \/ /\ s.state = "running"
        /\ s.players[p].readyAt # NoTime
        /\ \/ s.players[p].leftAt = NoTime
           \/ s.players[p].leftAt >= s.startedAt - Countdown}
=============================================================================
