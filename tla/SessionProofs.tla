---------------------------- MODULE SessionProofs ----------------------------
(***************************************************************************)
(* Proofs about sessions, for any players, rules and bounds: GameSession,  *)
(* what commands, deadlines and exclusions make of a session; and, on the  *)
(* lemmas about its operations, CommandStream, where a turn game is played *)
(* on a session over streams that repeat and delay what they carry.        *)
(***************************************************************************)
EXTENDS GameSession, CommandStream, FiniteSetTheorems, FunctionTheorems, SequenceTheorems, TLAPS

(***************************************************************************)
(* What every operation keeps of a session, whatever the number of ready   *)
(* players: types, capacity, the player states each session state allows,  *)
(* and the timestamps it requires.                                         *)
(***************************************************************************)
Sound(s) ==
  /\ s \in Session
  /\ s.version >= 1
  /\ CurrentPlayerCount(s) <= MaxPlayers
  /\ AcceptsPlayers(s) => InState(s, {"playing", "finished"}) = {}
  /\ s.state = "countdown" => InState(s, {"waiting", "playing", "finished"}) = {}
  /\ s.state = "running" => InState(s, {"waiting", "ready", "finished"}) = {}
  /\ s.state = "finished" => InState(s, {"waiting", "ready", "playing"}) = {}
  /\ TimesAcceptable(s)

\* What an operation must restore after it changed who is ready.
Balanced(s) == s.state \in {"readyWindow", "countdown"} => EnoughReady(s)

Good(s) == Sound(s) /\ Balanced(s)

Types == [Players -> Player]

\* Any set of a session's players has a cardinality, and a smaller set a smaller one.
LEMMA PlayerSets ==
  ASSUME NEW A, NEW B, A \subseteq B, B \subseteq Players
  PROVE  /\ Cardinality(A) \in Nat
         /\ Cardinality(B) \in Nat
         /\ Cardinality(A) <= Cardinality(B)
  BY PlayersAssumption, FS_Subset, FS_CardinalityType

\* Recording events changes nothing but the version and the time.
LEMMA RecordedSession ==
  ASSUME NEW s \in Session, NEW n \in Nat, NEW at \in Nat
  PROVE  /\ Recorded(s, n, at) \in Session
         /\ Recorded(s, n, at).version = s.version + n
         /\ Recorded(s, n, at).updatedAt = at
         /\ Recorded(s, n, at).state = s.state
         /\ Recorded(s, n, at).players = s.players
         /\ Recorded(s, n, at).readyWindowEndsAt = s.readyWindowEndsAt
         /\ Recorded(s, n, at).countdownEndsAt = s.countdownEndsAt
         /\ Recorded(s, n, at).startedAt = s.startedAt
         /\ Recorded(s, n, at).endedAt = s.endedAt
         /\ Recorded(s, n, at).endReason = s.endReason
  <1>1. s.version \in Nat /\ s.version + n \in Nat
    BY DEF Session
  <1>2. Recorded(s, n, at) \in Session
    BY <1>1 DEF Recorded, Session, Time
  <1>3. s = [ state |-> s.state, players |-> s.players, turnStored |-> s.turnStored,
              turnDeadline |-> s.turnDeadline, updatedAt |-> s.updatedAt,
              readyWindowEndsAt |-> s.readyWindowEndsAt, countdownEndsAt |-> s.countdownEndsAt,
              startedAt |-> s.startedAt, endedAt |-> s.endedAt, endReason |-> s.endReason,
              version |-> s.version ]
    BY DEF Session
  <1> QED BY <1>1, <1>2, <1>3 DEF Recorded

\* The most common case: one event.
LEMMA RecordedOnce ==
  ASSUME NEW s \in Session, NEW at \in Nat
  PROVE  /\ Recorded(s, 1, at) \in Session
         /\ Recorded(s, 1, at).version = s.version + 1
         /\ Recorded(s, 1, at).updatedAt = at
         /\ Recorded(s, 1, at).state = s.state
         /\ Recorded(s, 1, at).players = s.players
         /\ Recorded(s, 1, at).readyWindowEndsAt = s.readyWindowEndsAt
         /\ Recorded(s, 1, at).countdownEndsAt = s.countdownEndsAt
         /\ Recorded(s, 1, at).startedAt = s.startedAt
         /\ Recorded(s, 1, at).endedAt = s.endedAt
         /\ Recorded(s, 1, at).endReason = s.endReason
  <1>1. 1 \in Nat
    OBVIOUS
  <1> QED BY <1>1, RecordedSession, Zenon

\* Players who left are out, the others stay as they were.
LEMMA DepartedPlayers ==
  ASSUME NEW players \in Types, NEW P, NEW at \in Nat
  PROVE  /\ Departed(players, P, at) \in Types
         /\ \A p \in Players : p \in P => Departed(players, P, at)[p].state = "left"
         /\ \A p \in Players : p \notin P => Departed(players, P, at)[p] = players[p]
  BY DEF Departed, Types, Player, PlayerStates, Time

\* Moving every player of one state to another leaves the others alone.
LEMMA MovedPlayers ==
  ASSUME NEW players \in Types, NEW from \in PlayerStates, NEW to \in PlayerStates
  PROVE  /\ Moved(players, from, to) \in Types
         /\ \A p \in Players : Moved(players, from, to)[p].state =
              IF players[p].state = from THEN to ELSE players[p].state
  BY DEF Moved, Types, Player

\* A session whose ready window is withdrawn is a sound lobby.
LEMMA CancelReadyWindowGood ==
  ASSUME NEW s, Sound(s), s.state = "readyWindow", NEW at \in Nat, at > 0
  PROVE  Good(CancelReadyWindow(s, at))
  <1> DEFINE t == [s EXCEPT !.state = "lobby", !.readyWindowEndsAt = NoTime]
  <1>1. /\ t \in Session /\ t.state = "lobby" /\ t.players = s.players
        /\ t.version = s.version
    BY DEF Sound, Session, SessionStates, Time, NoTime
  <1> DEFINE u == Recorded(t, 1, at)
  <1> HIDE DEF t
  <1>2. /\ u \in Session /\ u.state = "lobby" /\ u.players = s.players
        /\ u.version = s.version + 1 /\ u.updatedAt = at
    BY <1>1, RecordedOnce DEF u
  <1>3. s.version \in Nat /\ s.version >= 1
    BY DEF Sound, Session
  <1> HIDE DEF u
  <1>4. Good(u)
    BY <1>2, <1>3 DEF Good, Sound, Balanced, CurrentPlayerCount, Current, InState, AcceptsPlayers,
       TimesAcceptable, Terminal, NoTime
  <1> QED BY <1>4 DEF t, u, CancelReadyWindow

\* A cancelled session is complete, whoever was in it.
LEMMA CancelledGood ==
  ASSUME NEW s, Sound(s), NEW reason \in EndReasons, reason # NoReason,
         NEW at \in Nat, at > 0
  PROVE  Good(Cancelled(s, reason, at))
  <1> DEFINE t == [s EXCEPT !.state = "cancelled", !.readyWindowEndsAt = NoTime,
                            !.countdownEndsAt = NoTime, !.turnDeadline = NoTime,
                            !.endedAt = at, !.endReason = reason]
             u == Recorded(t, 1, at)
  <1>1. /\ t \in Session /\ t.state = "cancelled" /\ t.players = s.players
        /\ t.version = s.version /\ t.endedAt = at /\ t.endReason = reason
    BY DEF Sound, Session, SessionStates, Time, NoTime
  <1> HIDE DEF t
  <1>2. /\ u \in Session /\ u.state = "cancelled" /\ u.players = s.players
        /\ u.version = s.version + 1 /\ u.updatedAt = at
        /\ u.endedAt = at /\ u.endReason = reason
    BY <1>1, RecordedOnce DEF u
  <1>3. s.version \in Nat /\ s.version >= 1
    BY DEF Sound, Session
  <1> HIDE DEF u
  <1>4. Good(u)
    BY <1>2, <1>3 DEF Good, Sound, Balanced, CurrentPlayerCount, Current, InState, AcceptsPlayers,
       TimesAcceptable, Terminal, NoTime
  <1> QED BY <1>4 DEF t, u, Cancelled

\* Closing the window leaves exactly the ready players in a countdown.
LEMMA StartCountdownGood ==
  ASSUME NEW s, Sound(s), s.state = "readyWindow", EnoughReady(s), NEW at \in Nat, at > 0
  PROVE  Good(StartCountdown(s, at))
  <1> DEFINE W == InState(s, {"waiting"})
             t == [s EXCEPT !.players = Departed(@, W, at),
                            !.state = "countdown", !.readyWindowEndsAt = NoTime,
                            !.countdownEndsAt = at + Countdown]
             n == Cardinality(W) + 1
             u == Recorded(t, n, at)
  <1>0. s.players \in Types /\ s.version \in Nat /\ s.version >= 1
    BY DEF Sound, Session, Types
  <1>1. Cardinality(W) \in Nat
    BY PlayerSets DEF InState
  <1>a. n \in Nat /\ at + Countdown \in Nat
    BY <1>1, RulesAssumption
  <1>2. Departed(s.players, W, at) \in Types
    BY <1>0, DepartedPlayers
  <1> HIDE DEF W, n
  <1>3. /\ t \in Session /\ t.state = "countdown" /\ t.players = Departed(s.players, W, at)
        /\ t.version = s.version /\ t.countdownEndsAt = at + Countdown
    BY <1>2, <1>a DEF Sound, Session, SessionStates, Time, NoTime, Types
  <1>4. \A p \in Players : t.players[p].state = IF p \in W THEN "left" ELSE s.players[p].state
    BY <1>0, <1>3, DepartedPlayers
  <1> HIDE DEF t
  <1>b. t \in Session /\ n \in Nat
    BY <1>a, <1>3
  <1>c. /\ u \in Session /\ u.state = t.state /\ u.players = t.players
        /\ u.version = t.version + n /\ u.updatedAt = at
        /\ u.countdownEndsAt = t.countdownEndsAt
    BY <1>b, RecordedSession DEF u
  <1>5. /\ u \in Session /\ u.state = "countdown" /\ u.players = t.players
        /\ u.version = s.version + n /\ u.updatedAt = at
        /\ u.countdownEndsAt = at + Countdown
    BY <1>3, <1>c
  <1> HIDE DEF u
  <1>6. \A p \in Players : u.players[p].state = IF p \in W THEN "left" ELSE s.players[p].state
    BY <1>4, <1>5
  <1>7. InState(s, {"playing", "finished"}) = {}
    BY DEF Sound, AcceptsPlayers
  <1>8. /\ InState(u, {"ready"}) = InState(s, {"ready"})
        /\ InState(u, {"waiting", "playing", "finished"}) = {}
        /\ Current(u) \subseteq Current(s)
    BY <1>6, <1>7 DEF InState, W, Current
  <1>9. CurrentPlayerCount(u) <= MaxPlayers
    <2>1. CurrentPlayerCount(s) <= MaxPlayers
      BY DEF Sound
    <2>2. Current(s) \subseteq Players
      BY DEF Current, InState
    <2> QED BY <1>8, <2>1, <2>2, PlayerSets, RulesAssumption DEF CurrentPlayerCount
  <1>10. at + Countdown # NoTime
    BY RulesAssumption DEF NoTime
  <1>11. Sound(u)
    BY <1>0, <1>a, <1>5, <1>8, <1>9, <1>10 DEF Sound, AcceptsPlayers, TimesAcceptable, Terminal, NoTime
  <1>12. Balanced(u)
    BY <1>8 DEF Balanced, EnoughReady, ReadyPlayerCount, Ready
  <1> QED BY <1>11, <1>12 DEF Good, n, t, u, W, StartCountdown

\* A countdown that ends starts the game or cancels it.
LEMMA StartGameGood ==
  ASSUME NEW s, Sound(s), s.state = "countdown", NEW at \in Nat, at > 0
  PROVE  Good(StartGame(s, at))
  <1>1. CASE ~EnoughReady(s)
    BY <1>1, CancelledGood DEF StartGame, EndReasons, NoReason
  <1>2. CASE EnoughReady(s)
    <2> DEFINE t == [s EXCEPT !.players = Moved(@, "ready", "playing"), !.state = "running",
                              !.countdownEndsAt = NoTime, !.startedAt = at]
               u == Recorded(t, 1, at)
    <2>0. s.players \in Types /\ s.version \in Nat /\ s.version >= 1
      BY DEF Sound, Session, Types
    <2>1. Moved(s.players, "ready", "playing") \in Types
      BY <2>0, MovedPlayers DEF PlayerStates
    <2>2. /\ t \in Session /\ t.state = "running"
          /\ t.players = Moved(s.players, "ready", "playing")
          /\ t.version = s.version /\ t.startedAt = at
      BY <2>1 DEF Sound, Session, SessionStates, Time, NoTime, Types
    <2>3. \A p \in Players : t.players[p].state =
             IF s.players[p].state = "ready" THEN "playing" ELSE s.players[p].state
      BY <2>0, <2>2, MovedPlayers DEF PlayerStates
    <2> HIDE DEF t
    <2>4. /\ u \in Session /\ u.state = "running" /\ u.players = t.players
          /\ u.version = s.version + 1 /\ u.updatedAt = at /\ u.startedAt = at
      BY <2>2, RecordedOnce DEF u
    <2> HIDE DEF u
    <2>5. InState(s, {"waiting", "playing", "finished"}) = {}
      BY DEF Sound
    <2>6. InState(u, {"waiting", "ready", "finished"}) = {} /\ Current(u) = Current(s)
      BY <2>3, <2>4, <2>5 DEF InState, Current
    <2>7. CurrentPlayerCount(u) <= MaxPlayers
      BY <2>6 DEF Sound, CurrentPlayerCount
    <2>8. Good(u)
      BY <2>0, <2>4, <2>6, <2>7
      DEF Good, Balanced, Sound, AcceptsPlayers, TimesAcceptable, Terminal, NoTime
    <2> QED BY <1>2, <2>8 DEF t, u, StartGame
  <1> QED BY <1>1, <1>2

\* Whatever deadlines have passed, the session stays good.
LEMMA CountdownStepGood ==
  ASSUME NEW s, Good(s), NEW at \in Nat
  PROVE  Good(CountdownStep(s, at))
  <1>1. ASSUME s.state = "countdown" PROVE s.countdownEndsAt \in Nat /\ s.countdownEndsAt > 0
    BY <1>1 DEF Good, Sound, TimesAcceptable, Session, Time, NoTime
  <1> QED BY <1>1, StartGameGood DEF CountdownStep, Good

LEMMA AdvanceDeadlinesGood ==
  ASSUME NEW s, Good(s), NEW at \in Nat
  PROVE  Good(AdvanceDeadlines(s, at))
  <1>1. ASSUME s.state = "readyWindow"
        PROVE s.readyWindowEndsAt \in Nat /\ s.readyWindowEndsAt > 0
    BY <1>1 DEF Good, Sound, TimesAcceptable, Session, Time, NoTime
  <1> QED BY <1>1, CountdownStepGood, StartCountdownGood, CancelReadyWindowGood
          DEF AdvanceDeadlines, Good

\* Enough ready players open a window.
LEMMA OpenReadyWindowGood ==
  ASSUME NEW s, Sound(s), s.state = "lobby", EnoughReady(s), NEW at \in Nat, at > 0
  PROVE  Good(OpenReadyWindow(s, at)) /\ OpenReadyWindow(s, at).state = "readyWindow"
  <1> DEFINE t == [s EXCEPT !.state = "readyWindow", !.readyWindowEndsAt = at + ReadyWindow]
             u == Recorded(t, 1, at)
  <1>1. at + ReadyWindow \in Nat /\ at + ReadyWindow # NoTime
    BY RulesAssumption DEF NoTime
  <1>2. /\ t \in Session /\ t.state = "readyWindow" /\ t.players = s.players
        /\ t.version = s.version /\ t.readyWindowEndsAt = at + ReadyWindow
    BY <1>1 DEF Sound, Session, SessionStates, Time
  <1> HIDE DEF t
  <1>3. /\ u \in Session /\ u.state = t.state /\ u.players = t.players
        /\ u.version = t.version + 1 /\ u.updatedAt = at
        /\ u.readyWindowEndsAt = t.readyWindowEndsAt
    BY <1>2, RecordedOnce DEF u
  <1>4. s.version \in Nat /\ s.version >= 1
    BY DEF Sound, Session
  <1> HIDE DEF u
  <1>5. Good(u)
    BY <1>1, <1>2, <1>3, <1>4 DEF Good, Sound, Balanced, EnoughReady, ReadyPlayerCount, Ready,
       CurrentPlayerCount, Current, InState, AcceptsPlayers, TimesAcceptable, Terminal, NoTime
  <1> QED BY <1>2, <1>3, <1>5 DEF t, u, OpenReadyWindow

LEMMA CloseReadyWindowGood ==
  ASSUME NEW s, Good(s), s.state = "readyWindow", NEW at \in Nat, at > 0
  PROVE  Good(CloseReadyWindow(s, at))
  <1>1. Good(StartCountdown(s, at))
    BY StartCountdownGood DEF Good, Balanced
  <1> QED BY <1>1, AdvanceDeadlinesGood DEF CloseReadyWindow

\* Any change of the ready players of a lobby ends in a good session.
LEMMA ReconcileReadyWindowGood ==
  ASSUME NEW s, Sound(s), AcceptsPlayers(s), NEW at \in Nat, at > 0
  PROVE  Good(ReconcileReadyWindow(s, at))
  <1>1. CASE EnoughReady(s) /\ s.state = "lobby"
    BY <1>1, OpenReadyWindowGood, CloseReadyWindowGood DEF ReconcileReadyWindow
  <1>2. CASE EnoughReady(s) /\ s.state = "readyWindow"
    BY <1>2, CloseReadyWindowGood DEF ReconcileReadyWindow, Good, Balanced
  <1>3. CASE ~EnoughReady(s) /\ s.state = "readyWindow"
    BY <1>3, CancelReadyWindowGood DEF ReconcileReadyWindow
  <1>4. CASE ~EnoughReady(s) /\ s.state = "lobby"
    BY <1>4 DEF ReconcileReadyWindow, Good, Balanced
  <1> QED BY <1>1, <1>2, <1>3, <1>4 DEF AcceptsPlayers

LEMMA WithoutEnoughReadyGood ==
  ASSUME NEW s, Sound(s), NEW at \in Nat, at > 0
  PROVE  Good(WithoutEnoughReady(s, at))
  <1>1. "insufficientPlayers" \in EndReasons /\ "insufficientPlayers" # NoReason
    BY DEF EndReasons, NoReason
  <1> QED BY <1>1, CancelReadyWindowGood, CancelledGood DEF WithoutEnoughReady, Good, Balanced

-----------------------------------------------------------------------------
(* Operations                                                              *)

\* A change of the player list that keeps the session state: what it must
\* preserve for the session to stay sound.
LEMMA PlayersChanged ==
  ASSUME NEW s, Sound(s), NEW players \in Types, NEW n \in Nat, NEW at \in Nat, at > 0,
         NEW u, u = Recorded([s EXCEPT !.players = players], n, at),
         CurrentPlayerCount(u) <= MaxPlayers,
         AcceptsPlayers(s) => InState(u, {"playing", "finished"}) = {},
         s.state = "countdown" => InState(u, {"waiting", "playing", "finished"}) = {},
         s.state = "running" => InState(u, {"waiting", "ready", "finished"}) = {},
         s.state = "finished" => InState(u, {"waiting", "ready", "playing"}) = {}
  PROVE  Sound(u) /\ u.state = s.state /\ u.players = players
  <1> DEFINE t == [s EXCEPT !.players = players]
  <1>1. /\ t \in Session /\ t.state = s.state /\ t.players = players /\ t.version = s.version
        /\ t.readyWindowEndsAt = s.readyWindowEndsAt /\ t.countdownEndsAt = s.countdownEndsAt
        /\ t.startedAt = s.startedAt /\ t.endedAt = s.endedAt /\ t.endReason = s.endReason
    BY DEF Sound, Session, Types
  <1>2. u = Recorded(t, n, at)
    OBVIOUS
  <1> HIDE DEF t
  <1>3. /\ u \in Session /\ u.state = s.state /\ u.players = players
        /\ u.version = s.version + n /\ u.updatedAt = at
        /\ u.readyWindowEndsAt = s.readyWindowEndsAt /\ u.countdownEndsAt = s.countdownEndsAt
        /\ u.startedAt = s.startedAt /\ u.endedAt = s.endedAt /\ u.endReason = s.endReason
    BY <1>1, <1>2, RecordedSession
  <1>4. s.version \in Nat /\ s.version >= 1
    BY DEF Sound, Session
  <1>5. TimesAcceptable(u) /\ u.version >= 1
    BY <1>3, <1>4 DEF Sound, TimesAcceptable, Terminal, NoTime
  <1> QED BY <1>3, <1>5 DEF Sound, AcceptsPlayers

LEMMA JoinPlayerGood ==
  ASSUME NEW s, Good(s), NEW p \in Players, NEW at \in Nat, CanJoin(s, p, at)
  PROVE  Good(JoinPlayer(s, p, at))
  <1> DEFINE players == [s.players EXCEPT ![p] = Waiting]
             u == Recorded([s EXCEPT !.players = players], 1, at)
  <1>1. /\ Sound(s) /\ AcceptsPlayers(s) /\ p \notin Current(s) /\ at > 0
        /\ CurrentPlayerCount(s) < MaxPlayers /\ s.players \in Types
    BY DEF Good, CanJoin, InOrder, NoTime, Sound, Session, Types
  <1>2. players \in Types
    BY <1>1 DEF Types, Waiting, Player, PlayerStates, Time, NoTime
  <1>3. u.players = players /\ u = JoinPlayer(s, p, at)
    BY <1>1 DEF Recorded, Sound, Session, JoinPlayer
  <1>4. \A q \in Players : u.players[q].state = IF q = p THEN "waiting" ELSE s.players[q].state
    BY <1>1, <1>3 DEF Types, Waiting
  <1> HIDE DEF players, u
  <1>5. Current(u) = Current(s) \cup {p}
    BY <1>4 DEF Current, InState
  <1>6. CurrentPlayerCount(u) <= MaxPlayers
    <2>1. IsFiniteSet(Current(s)) /\ Cardinality(Current(s)) \in Nat
      BY PlayersAssumption, FS_Subset, FS_CardinalityType DEF Current, InState
    <2>2. Cardinality(Current(s) \cup {p}) = Cardinality(Current(s)) + 1
      BY <1>1, <2>1, FS_AddElement
    <2> QED BY <1>1, <1>5, <2>1, <2>2, RulesAssumption DEF CurrentPlayerCount
  <1>7. InState(u, {"playing", "finished"}) = {}
    BY <1>1, <1>4 DEF Sound, InState
  <1>8. Sound(u) /\ u.state = s.state
    <2> DEFINE n == 1
    <2>1. u = Recorded([s EXCEPT !.players = players], n, at) /\ n \in Nat
      BY DEF u
    <2>2. s.state \notin {"countdown", "running", "finished"}
      BY <1>1 DEF AcceptsPlayers
    <2> HIDE DEF n
    <2> QED BY <1>1, <1>2, <1>6, <1>7, <2>1, <2>2, PlayersChanged
  <1>9. InState(u, {"ready"}) = InState(s, {"ready"})
    <2>1. s.players[p].state # "ready"
      BY <1>1 DEF Current, InState
    <2> QED BY <1>4, <2>1 DEF InState
  <1>10. Balanced(u)
    BY <1>8, <1>9 DEF Good, Balanced, EnoughReady, ReadyPlayerCount, Ready
  <1> QED BY <1>3, <1>8, <1>10 DEF Good

\* SetReady records the player's readiness and reconciles the window with it.
LEMMA ReadinessRecorded ==
  ASSUME NEW s, Good(s), NEW p \in Players, NEW ready \in BOOLEAN, NEW at \in Nat,
         CanSetReady(s, p, ready, at)
  PROVE  \E players \in Types :
           LET u == Recorded([s EXCEPT !.players = players], 1, at)
           IN  /\ Sound(u) /\ AcceptsPlayers(u) /\ u.state = s.state
               /\ SetReady(s, p, ready, at) = ReconcileReadyWindow(u, at)
  <1> DEFINE readiness == IF ready THEN [s.players[p] EXCEPT !.state = "ready", !.readyAt = at]
                                   ELSE [s.players[p] EXCEPT !.state = "waiting", !.readyAt = NoTime]
             players == [s.players EXCEPT ![p] = readiness]
             u == Recorded([s EXCEPT !.players = players], 1, at)
  <1>1. /\ Sound(s) /\ AcceptsPlayers(s) /\ at > 0 /\ s.players \in Types
        /\ CurrentPlayerCount(s) <= MaxPlayers
        /\ s.players[p].state \in {"waiting", "ready"}
    BY DEF Good, CanSetReady, InOrder, NoTime, Sound, Session, Types
  <1>2. readiness \in Player /\ readiness.state \in {"waiting", "ready"}
    BY <1>1 DEF Types, Player, PlayerStates, Time, NoTime
  <1> HIDE DEF readiness
  <1>3. players \in Types
    BY <1>1, <1>2 DEF Types
  <1>4. u.players = players
    BY <1>1 DEF Recorded, Sound, Session
  <1>5. \A q \in Players : u.players[q].state = IF q = p THEN readiness.state ELSE s.players[q].state
    BY <1>1, <1>4 DEF Types
  <1> HIDE DEF players, u
  <1>6. Current(u) = Current(s)
    BY <1>1, <1>2, <1>5 DEF Current, InState
  <1>7. InState(s, {"playing", "finished"}) = {} /\ InState(u, {"playing", "finished"}) = {}
    BY <1>1, <1>2, <1>5 DEF Sound, InState
  <1>8. Sound(u) /\ u.state = s.state
    <2> DEFINE n == 1
    <2>1. u = Recorded([s EXCEPT !.players = players], n, at) /\ n \in Nat
      BY DEF u
    <2>2. s.state \notin {"countdown", "running", "finished"}
      BY <1>1 DEF AcceptsPlayers
    <2>3. CurrentPlayerCount(u) <= MaxPlayers
      BY <1>1, <1>6 DEF CurrentPlayerCount
    <2> HIDE DEF n
    <2> QED BY <1>1, <1>3, <1>7, <2>1, <2>2, <2>3, PlayersChanged
  <1>9. AcceptsPlayers(u)
    BY <1>1, <1>8 DEF AcceptsPlayers
  <1>10. SetReady(s, p, ready, at) = ReconcileReadyWindow(u, at)
    BY <1>1 DEF SetReady, u, players, readiness, Sound, Session
  <1>11. u = Recorded([s EXCEPT !.players = players], 1, at)
    BY DEF u
  <1> QED BY <1>3, <1>8, <1>9, <1>10, <1>11

LEMMA SetReadyGood ==
  ASSUME NEW s, Good(s), NEW p \in Players, NEW ready \in BOOLEAN, NEW at \in Nat,
         CanSetReady(s, p, ready, at)
  PROVE  Good(SetReady(s, p, ready, at))
  <1>1. at > 0
    BY DEF CanSetReady, InOrder, NoTime
  <1>2. PICK players \in Types :
          LET u == Recorded([s EXCEPT !.players = players], 1, at)
          IN  /\ Sound(u) /\ AcceptsPlayers(u) /\ u.state = s.state
              /\ SetReady(s, p, ready, at) = ReconcileReadyWindow(u, at)
    BY ReadinessRecorded
  <1> QED BY <1>1, <1>2, ReconcileReadyWindowGood


\* Players leaving, one or a batch.
LEMMA DepartureGood ==
  ASSUME NEW s, Good(s), NEW P, NEW n \in Nat, NEW at \in Nat, at > 0
  PROVE  Good(WithoutEnoughReady(Recorded([s EXCEPT !.players = Departed(@, P, at)], n, at), at))
  <1> DEFINE players == Departed(s.players, P, at)
             u == Recorded([s EXCEPT !.players = players], n, at)
  <1>1. Sound(s) /\ s.players \in Types /\ CurrentPlayerCount(s) <= MaxPlayers
    BY DEF Good, Sound, Session, Types
  <1>2. players \in Types
    BY <1>1, DepartedPlayers
  <1>3. u.players = players
    BY <1>1 DEF Recorded, Sound, Session
  <1>4. \A q \in Players : u.players[q].state = IF q \in P THEN "left" ELSE s.players[q].state
    BY <1>1, <1>3, DepartedPlayers
  <1> HIDE DEF players
  <1>5. u = Recorded([s EXCEPT !.players = players], n, at)
    OBVIOUS
  <1> HIDE DEF u
  <1>6. Current(u) \subseteq Current(s) /\ Current(s) \subseteq Players
    BY <1>4 DEF Current, InState
  <1>7. CurrentPlayerCount(u) <= MaxPlayers
    BY <1>1, <1>6, PlayerSets, RulesAssumption DEF CurrentPlayerCount
  <1>8. /\ AcceptsPlayers(s) => InState(u, {"playing", "finished"}) = {}
        /\ s.state = "countdown" => InState(u, {"waiting", "playing", "finished"}) = {}
        /\ s.state = "running" => InState(u, {"waiting", "ready", "finished"}) = {}
        /\ s.state = "finished" => InState(u, {"waiting", "ready", "playing"}) = {}
    BY <1>1, <1>4 DEF InState, Sound
  <1>9. Sound(u)
    BY <1>1, <1>2, <1>5, <1>7, <1>8, PlayersChanged
  <1>10. u = Recorded([s EXCEPT !.players = Departed(@, P, at)], n, at)
    BY <1>1 DEF u, players, Sound, Session
  <1> QED BY <1>9, <1>10, WithoutEnoughReadyGood

LEMMA LeavePlayerGood ==
  ASSUME NEW s, Good(s), NEW p \in Players, NEW at \in Nat, CanLeave(s, p, at)
  PROVE  Good(LeavePlayer(s, p, at))
  BY DepartureGood DEF LeavePlayer, CanLeave, InOrder, NoTime

LEMMA ExcludePlayersGood ==
  ASSUME NEW s, Good(s), NEW P \in SUBSET Players, NEW at \in Nat, CanExclude(s, P, at)
  PROVE  Good(ExcludePlayers(s, P, at))
  <1> DEFINE removed == P \cap Current(s)
             n == Cardinality(removed)
  <1>1. n \in Nat /\ at > 0
    BY PlayerSets DEF CanExclude, InOrder, NoTime
  <1> HIDE DEF n
  <1>2. Good(WithoutEnoughReady(Recorded([s EXCEPT !.players = Departed(@, removed, at)], n, at), at))
    BY <1>1, DepartureGood
  <1> QED BY <1>2 DEF n, ExcludePlayers

LEMMA UpdateGameStateGood ==
  ASSUME NEW s, Good(s), NEW deadline \in Nat, NEW at \in Nat, CanUpdateGameState(s, at)
  PROVE  Good(UpdateGameState(s, deadline, at))
  <1> DEFINE t == [s EXCEPT !.turnStored = TRUE, !.turnDeadline = deadline]
             u == Recorded(t, 1, at)
  <1>1. /\ t \in Session /\ t.state = "running" /\ t.players = s.players
        /\ t.version = s.version /\ t.startedAt = s.startedAt
    BY DEF Good, Sound, Session, CanUpdateGameState, Time
  <1> HIDE DEF t
  <1>2. /\ u \in Session /\ u.state = t.state /\ u.players = t.players
        /\ u.version = t.version + 1 /\ u.updatedAt = at /\ u.startedAt = t.startedAt
    BY <1>1, RecordedOnce DEF u
  <1>3. /\ s.version \in Nat /\ s.version >= 1 /\ at > 0
        /\ s.state = "running" /\ s.startedAt # NoTime
    BY DEF Good, Sound, Session, TimesAcceptable, CanUpdateGameState, InOrder, NoTime
  <1> HIDE DEF u
  <1>4. Good(u)
    BY <1>1, <1>2, <1>3 DEF Good, Sound, Balanced, CurrentPlayerCount, Current, InState,
       AcceptsPlayers, TimesAcceptable, Terminal, NoTime
  <1> QED BY <1>4 DEF t, u, UpdateGameState

LEMMA FinishGood ==
  ASSUME NEW s, Good(s), NEW reason \in EndReasons, reason # NoReason, NEW at \in Nat,
         CanFinish(s, at)
  PROVE  Good(Finish(s, reason, at))
  <1> DEFINE t == [s EXCEPT !.players = Moved(@, "playing", "finished"), !.state = "finished",
                            !.turnDeadline = NoTime, !.endedAt = at, !.endReason = reason]
             u == Recorded(t, 1, at)
  <1>0. /\ s \in Session /\ s.players \in Types /\ s.version \in Nat /\ s.version >= 1 /\ at > 0
        /\ InState(s, {"waiting", "ready", "finished"}) = {}
        /\ CurrentPlayerCount(s) <= MaxPlayers
    BY DEF Good, Sound, Session, Types, CanFinish, InOrder, NoTime
  <1>1. Moved(s.players, "playing", "finished") \in Types
    BY <1>0, MovedPlayers DEF PlayerStates
  <1>2. /\ t \in Session /\ t.state = "finished"
        /\ t.players = Moved(s.players, "playing", "finished")
        /\ t.version = s.version /\ t.endedAt = at /\ t.endReason = reason
    BY <1>0, <1>1 DEF Session, SessionStates, Time, NoTime, Types
  <1>3. \A p \in Players : t.players[p].state =
           IF s.players[p].state = "playing" THEN "finished" ELSE s.players[p].state
    BY <1>0, <1>2, MovedPlayers DEF PlayerStates
  <1> HIDE DEF t
  <1>4. /\ u \in Session /\ u.state = t.state /\ u.players = t.players
        /\ u.version = t.version + 1 /\ u.updatedAt = at
        /\ u.endedAt = t.endedAt /\ u.endReason = t.endReason
    BY <1>2, RecordedOnce DEF u
  <1> HIDE DEF u
  <1>5. InState(u, {"waiting", "ready", "playing"}) = {} /\ Current(u) = Current(s)
    BY <1>0, <1>3, <1>4 DEF InState, Current
  <1>6. CurrentPlayerCount(u) <= MaxPlayers
    BY <1>0, <1>5 DEF CurrentPlayerCount
  <1>7. Good(u)
    BY <1>0, <1>2, <1>4, <1>5, <1>6
    DEF Good, Balanced, Sound, AcceptsPlayers, TimesAcceptable, Terminal, NoTime
  <1> QED BY <1>7 DEF t, u, Finish

-----------------------------------------------------------------------------
(* The specification                                                       *)

\* The inductive invariant of the session and its clock.
SessionInv ==
  /\ Good(session)
  /\ now \in Nat /\ now > 0
  /\ locked \in SUBSET Players

LEMMA InitSessionInv == Init => SessionInv
  <1> SUFFICES ASSUME Init PROVE SessionInv
    OBVIOUS
  <1>1. session = NewGameSession(1) /\ now = 1 /\ locked = {}
    BY DEF Init, CreatedAt
  <1>2. \A p \in Players : session.players[p] = NoPlayer
    BY <1>1 DEF NewGameSession
  <1>3. Current(session) = {} /\ InState(session, {"playing", "finished"}) = {}
    BY <1>2 DEF Current, InState, NoPlayer
  <1>4. CurrentPlayerCount(session) <= MaxPlayers
    BY <1>3, FS_EmptySet, RulesAssumption DEF CurrentPlayerCount
  <1>5. NoPlayer \in Player
    BY DEF NoPlayer, Player, PlayerStates, Time, NoTime
  <1>6. session \in Session /\ session.version = 1 /\ session.state = "lobby"
        /\ session.updatedAt = 1
    BY <1>1, <1>5 DEF NewGameSession, Session, SessionStates, Time, NoTime, EndReasons, NoReason
  <1>7. Good(session)
    BY <1>3, <1>4, <1>6 DEF Good, Sound, Balanced, AcceptsPlayers, TimesAcceptable, Terminal, NoTime
  <1> QED BY <1>1, <1>7 DEF SessionInv

\* The deadline and the time of a reconciliation are times.
LEMMA DeadlineIsTime ==
  ASSUME SessionInv
  PROVE  Deadline \in Nat /\ ReconcileTime \in Nat
  <1>1. session \in Session
    BY DEF SessionInv, Good, Sound
  <1>2. Deadline \in Nat
    BY <1>1 DEF Deadline, SessionDeadline, Session, Time, NoTime
  <1> QED BY <1>1, <1>2 DEF SessionInv, ReconcileTime, Session, Time

LEMMA BecomesSessionInv ==
  ASSUME SessionInv, NEW s, Good(s), Becomes(s)
  PROVE  SessionInv'
  <1>1. Good(session)' /\ now' = now
    BY DEF Becomes
  <1>2. locked' \in SUBSET Players
    BY DEF Becomes, SessionInv, InMatch, InState
  <1> QED BY <1>1, <1>2 DEF SessionInv

LEMMA NextSessionInv == SessionInv /\ [Next]_vars => SessionInv'
  <1> SUFFICES ASSUME SessionInv, [Next]_vars PROVE SessionInv'
    OBVIOUS
  <1>0. Good(session) /\ now \in Nat /\ now > 0
    BY DEF SessionInv
  <1>1. ASSUME NEW p \in Players, Join(p) PROVE SessionInv'
    BY <1>0, <1>1, JoinPlayerGood, BecomesSessionInv DEF Join
  <1>2. ASSUME NEW p \in Players, Leave(p) PROVE SessionInv'
    BY <1>0, <1>2, LeavePlayerGood, BecomesSessionInv DEF Leave
  <1>3. ASSUME NEW p \in Players, NEW ready \in BOOLEAN, ChangeReady(p, ready) PROVE SessionInv'
    BY <1>0, <1>3, SetReadyGood, BecomesSessionInv DEF ChangeReady
  <1>4. ASSUME NEW P \in SUBSET Players, Reconcile(P) PROVE SessionInv'
    BY <1>0, <1>4, DeadlineIsTime, ExcludePlayersGood, BecomesSessionInv DEF Reconcile
  <1>5. ASSUME HandleDeadline PROVE SessionInv'
    BY <1>0, <1>5, DeadlineIsTime, AdvanceDeadlinesGood, BecomesSessionInv DEF HandleDeadline
  <1>6. ASSUME NEW deadline \in {NoTime, now + TurnDuration}, Play(deadline) PROVE SessionInv'
    <2>1. deadline \in Nat
      BY <1>0, BoundsAssumption DEF NoTime
    <2> QED BY <1>0, <1>6, <2>1, UpdateGameStateGood, BecomesSessionInv DEF Play
  <1>7. ASSUME Complete PROVE SessionInv'
    <2>1. "gameOver" \in EndReasons /\ "gameOver" # NoReason
      BY DEF EndReasons, NoReason
    <2> QED BY <1>0, <1>7, <2>1, FinishGood, BecomesSessionInv DEF Complete
  <1>8. ASSUME CancelByUser PROVE SessionInv'
    <2>1. "cancelledByUser" \in EndReasons /\ "cancelledByUser" # NoReason
      BY DEF EndReasons, NoReason
    <2> QED BY <1>0, <1>8, <2>1, CancelledGood, BecomesSessionInv DEF CancelByUser, Good
  <1>9. ASSUME Tick PROVE SessionInv'
    BY <1>9 DEF Tick, SessionInv
  <1>10. ASSUME UNCHANGED vars PROVE SessionInv'
    BY <1>10 DEF vars, SessionInv
  <1> QED BY <1>1, <1>2, <1>3, <1>4, <1>5, <1>6, <1>7, <1>8, <1>9, <1>10 DEF Next

THEOREM SessionInvHolds == Spec => []SessionInv
  BY InitSessionInv, NextSessionInv, PTL DEF Spec

\* Every reachable session has the shape of the stored document.
THEOREM TypeCorrect == Spec => []TypeOK
  <1>1. SessionInv => TypeOK
    BY DEF SessionInv, Good, Sound, TypeOK, Time
  <1> QED BY <1>1, SessionInvHolds, PTL

\* Every reachable session passes validateSnapshot, whatever the number of
\* players and the durations of the rules: no legal sequence of commands and
\* deadlines leaves a session that could not be loaded again.
THEOREM AlwaysAcceptable == Spec => []SnapshotAcceptable
  <1>1. SessionInv => SnapshotAcceptable
    BY DEF SessionInv, Good, Sound, Balanced, SnapshotAcceptable, Acceptable, RosterAcceptable,
           TypeOK, Time
  <1> QED BY <1>1, SessionInvHolds, PTL

-----------------------------------------------------------------------------
(***************************************************************************)
(* What a change keeps of the players' timestamps, and how it moves the    *)
(* session through its states.                                             *)
(***************************************************************************)

\* A player's timestamps say what the player's state says.
Records(s) ==
  \A p \in Players :
    /\ s.players[p].state \in {"absent", "waiting"} => s.players[p].readyAt = NoTime
    /\ s.players[p].state \in {"ready", "playing", "finished"} => s.players[p].readyAt # NoTime
    /\ s.players[p].state = "left" <=> s.players[p].leftAt # NoTime
    /\ s.players[p].leftAt <= s.updatedAt

\* When the countdown began.
LockedAt(s) == (IF s.state = "countdown" THEN s.countdownEndsAt ELSE s.startedAt) - Countdown

\* The change of s into t at time at closes the lobby: the roster has its time.
Closed(t, at) ==
  /\ t.state \in {"countdown", "running"}
  /\ LockedAt(t) = at
  /\ Cardinality(InMatch(t)) >= MinPlayers

\* Why it could close a window.
Reason(s, t, at) ==
  s.state = "readyWindow" => at >= s.readyWindowEndsAt \/ Cardinality(InMatch(t)) = MaxPlayers

\* Players may have dropped out of the roster, at time at.
Dropped(s, t, at) ==
  \A p \in Players :
    \/ t.players[p] = s.players[p]
    \/ /\ p \in Current(s)
       /\ t.players[p] = [s.players[p] EXCEPT !.state = "left", !.leftAt = at]

\* The players of a match go on under another name.
Renamed(s, t) ==
  \A p \in Players :
    /\ t.players[p].readyAt = s.players[p].readyAt
    /\ t.players[p].leftAt = s.players[p].leftAt
    /\ p \in Current(t) <=> p \in Current(s)

\* Every change of a session is one of these.
Moves(s, t, at) ==
  /\ ~Terminal(s)
  /\ t.version > s.version
  /\ t.updatedAt = at
  /\ Records(t)
  /\ \/ AcceptsPlayers(s) /\ AcceptsPlayers(t)
     \/ AcceptsPlayers(s) /\ Closed(t, at) /\ Reason(s, t, at)
     \/ /\ s.state \in {"countdown", "running"}
        /\ t.state = s.state
        /\ LockedAt(t) = LockedAt(s)
        /\ Dropped(s, t, at)
     \/ /\ s.state = "countdown" /\ t.state = "running"
        /\ LockedAt(t) = LockedAt(s)
        /\ Renamed(s, t)
     \/ /\ s.state = "running" /\ t.state = "finished"
        /\ LockedAt(t) = LockedAt(s)
        /\ Renamed(s, t)
     \/ t.state = "cancelled"

\* What the building blocks leave in the fields the proofs read.
LEMMA CancelledIs ==
  ASSUME NEW s \in Session, NEW reason \in EndReasons, NEW at \in Nat
  PROVE  /\ Cancelled(s, reason, at).state = "cancelled"
         /\ Cancelled(s, reason, at).players = s.players
         /\ Cancelled(s, reason, at).version = s.version + 1
         /\ Cancelled(s, reason, at).updatedAt = at
  BY DEF Cancelled, Recorded, Session

LEMMA CancelReadyWindowIs ==
  ASSUME NEW s \in Session, NEW at \in Nat
  PROVE  /\ CancelReadyWindow(s, at).state = "lobby"
         /\ CancelReadyWindow(s, at).players = s.players
         /\ CancelReadyWindow(s, at).version = s.version + 1
         /\ CancelReadyWindow(s, at).updatedAt = at
  BY DEF CancelReadyWindow, Recorded, Session

LEMMA OpenReadyWindowIs ==
  ASSUME NEW s \in Session, NEW at \in Nat
  PROVE  /\ OpenReadyWindow(s, at).state = "readyWindow"
         /\ OpenReadyWindow(s, at).players = s.players
         /\ OpenReadyWindow(s, at).version = s.version + 1
         /\ OpenReadyWindow(s, at).updatedAt = at
         /\ OpenReadyWindow(s, at).readyWindowEndsAt = at + ReadyWindow
  BY DEF OpenReadyWindow, Recorded, Session

\* The version counts one event for each excluded player.
LEMMA StartCountdownIs ==
  ASSUME NEW s \in Session, NEW at \in Nat
  PROVE  /\ StartCountdown(s, at).state = "countdown"
         /\ StartCountdown(s, at).players = Departed(s.players, InState(s, {"waiting"}), at)
         /\ StartCountdown(s, at).version = s.version + Cardinality(InState(s, {"waiting"})) + 1
         /\ StartCountdown(s, at).updatedAt = at
         /\ StartCountdown(s, at).countdownEndsAt = at + Countdown
  <1>1. Cardinality(InState(s, {"waiting"})) \in Nat
    BY PlayerSets DEF InState
  <1> DEFINE W == InState(s, {"waiting"})
             n == Cardinality(W)
             D == Departed(s.players, W, at)
  <1>2. StartCountdown(s, at) =
          [ [s EXCEPT !.players = D, !.state = "countdown", !.readyWindowEndsAt = NoTime,
                      !.countdownEndsAt = at + Countdown]
            EXCEPT !.version = @ + (n + 1), !.updatedAt = at]
    BY DEF StartCountdown, Recorded, Session
  <1>3. n \in Nat /\ s.version \in Nat
    BY <1>1 DEF Session
  <1> HIDE DEF D, n, W
  <1>4. /\ StartCountdown(s, at).state = "countdown"
        /\ StartCountdown(s, at).players = D
        /\ StartCountdown(s, at).version = s.version + (n + 1)
        /\ StartCountdown(s, at).updatedAt = at
        /\ StartCountdown(s, at).countdownEndsAt = at + Countdown
    BY <1>2, <1>3 DEF Session
  <1> QED BY <1>3, <1>4 DEF D, n, W

LEMMA StartGameIs ==
  ASSUME NEW s \in Session, NEW at \in Nat, EnoughReady(s)
  PROVE  /\ StartGame(s, at).state = "running"
         /\ StartGame(s, at).players = Moved(s.players, "ready", "playing")
         /\ StartGame(s, at).version = s.version + 1
         /\ StartGame(s, at).updatedAt = at
         /\ StartGame(s, at).startedAt = at
  <1> DEFINE D == Moved(s.players, "ready", "playing")
  <1>2. StartGame(s, at) =
          [ [s EXCEPT !.players = D, !.state = "running", !.countdownEndsAt = NoTime,
                      !.startedAt = at]
            EXCEPT !.version = @ + 1, !.updatedAt = at]
    BY DEF StartGame, Recorded, Session
  <1> HIDE DEF D
  <1>4. /\ StartGame(s, at).state = "running"
        /\ StartGame(s, at).players = D
        /\ StartGame(s, at).version = s.version + 1
        /\ StartGame(s, at).updatedAt = at
        /\ StartGame(s, at).startedAt = at
    BY <1>2 DEF Session
  <1> QED BY <1>4 DEF D

\* The same players at a later time.
LEMMA RecordsKept ==
  ASSUME NEW s \in Session, Records(s), NEW t, t.players = s.players,
         t.updatedAt \in Nat, t.updatedAt >= s.updatedAt
  PROVE  Records(t)
  BY DEF Records, Session, Player, Time

\* Players who leave now left no earlier than anybody before them.
LEMMA RecordsDeparted ==
  ASSUME NEW s \in Session, Records(s), NEW P, NEW at \in Nat, at > 0, at >= s.updatedAt,
         NEW t, t.players = Departed(s.players, P, at), t.updatedAt = at
  PROVE  Records(t)
  <1>1. s.players \in [Players -> Player] /\ s.updatedAt \in Nat
    BY DEF Session, Time
  <1> SUFFICES ASSUME NEW p \in Players
               PROVE
    /\ t.players[p].state \in {"absent", "waiting"} => t.players[p].readyAt = NoTime
    /\ t.players[p].state \in {"ready", "playing", "finished"} => t.players[p].readyAt # NoTime
    /\ t.players[p].state = "left" <=> t.players[p].leftAt # NoTime
    /\ t.players[p].leftAt <= t.updatedAt
    BY DEF Records
  <1>2. CASE p \in P
    <2>1. t.players[p] = [s.players[p] EXCEPT !.state = "left", !.leftAt = at]
      BY <1>2 DEF Departed
    <2>2. t.players[p].state = "left" /\ t.players[p].leftAt = at
      BY <1>1, <2>1 DEF Player
    <2> QED BY <2>2 DEF NoTime
  <1>3. CASE p \notin P
    <2>1. t.players[p] = s.players[p]
      BY <1>1, <1>3 DEF Departed
    <2>2. s.players[p].leftAt \in Nat
      BY <1>1 DEF Player, Time
    <2> QED BY <1>1, <2>1, <2>2 DEF Records
  <1> QED BY <1>2, <1>3

\* A player who changes state keeps both timestamps.
LEMMA MovedIs ==
  ASSUME NEW players \in Types, NEW from \in PlayerStates, NEW to \in PlayerStates
  PROVE  \A p \in Players :
           /\ Moved(players, from, to)[p].state = IF players[p].state = from THEN to ELSE players[p].state
           /\ Moved(players, from, to)[p].readyAt = players[p].readyAt
           /\ Moved(players, from, to)[p].leftAt = players[p].leftAt
  BY DEF Moved, Types, Player

\* A match that starts or ends takes only players who were ready.
LEMMA RecordsMoved ==
  ASSUME NEW s \in Session, Records(s), NEW at \in Nat, at >= s.updatedAt,
         NEW from, NEW to, <<from, to>> \in {<<"ready", "playing">>, <<"playing", "finished">>},
         NEW t, t.players = Moved(s.players, from, to), t.updatedAt = at
  PROVE  Records(t)
  <1>1. /\ from \in PlayerStates /\ to \in PlayerStates
        /\ from \in {"ready", "playing"} /\ to \in {"playing", "finished"}
    BY DEF PlayerStates
  <1>2. s.players \in Types /\ s.updatedAt \in Nat
    BY DEF Session, Time, Types
  <1>3. \A p \in Players :
           /\ t.players[p].state = IF s.players[p].state = from THEN to ELSE s.players[p].state
           /\ t.players[p].readyAt = s.players[p].readyAt
           /\ t.players[p].leftAt = s.players[p].leftAt
    BY <1>1, <1>2, MovedIs
  <1>4. \A p \in Players : s.players[p].leftAt \in Nat
    BY <1>2 DEF Types, Player, Time
  <1> QED BY <1>1, <1>2, <1>3, <1>4 DEF Records

\* Closing a lobby, the start of a game without countdown included.
LEMMA CloseLobby ==
  ASSUME NEW s, Sound(s), Records(s), s.state = "readyWindow", EnoughReady(s),
         NEW at \in Nat, at > 0, at >= s.updatedAt
  PROVE  LET t == CountdownStep(StartCountdown(s, at), at)
         IN  /\ Records(t)
             /\ Closed(t, at)
             /\ InMatch(t) = Ready(s)
             /\ t.version > s.version
             /\ t.updatedAt = at
  <1> DEFINE u == StartCountdown(s, at)
             t == CountdownStep(u, at)
             W == InState(s, {"waiting"})
  <1>1. s \in Session /\ s.version \in Nat /\ s.updatedAt \in Nat /\ s.players \in Types
    BY DEF Sound, Session, Time, Types
  <1>2. Cardinality(W) \in Nat
    BY PlayerSets DEF InState
  <1>3. /\ u.state = "countdown" /\ u.players = Departed(s.players, W, at)
        /\ u.version = s.version + Cardinality(W) + 1
        /\ u.updatedAt = at /\ u.countdownEndsAt = at + Countdown
    BY <1>1, StartCountdownIs
  <1>4. Records(u)
    BY <1>1, <1>3, RecordsDeparted
  <1>5. \A p \in Players : u.players[p].state = IF p \in W THEN "left" ELSE s.players[p].state
    BY <1>1, <1>3, DepartedPlayers
  <1>6. InState(s, {"playing", "finished"}) = {}
    BY DEF Sound, AcceptsPlayers
  <1>7. Ready(u) = Ready(s) /\ InMatch(u) = Ready(s)
    BY <1>5, <1>6 DEF Ready, InMatch, InState, W
  <1>8. EnoughReady(u)
    BY <1>7 DEF EnoughReady, ReadyPlayerCount
  <1>9. Good(u) /\ u \in Session
    BY StartCountdownGood DEF Good, Sound
  <1>10. Cardinality(Ready(s)) >= MinPlayers
    BY DEF EnoughReady, ReadyPlayerCount
  <1>11. u.version \in Nat /\ u.version > s.version
    BY <1>1, <1>2, <1>3
  <1> HIDE DEF u, W
  <1>12. CASE ~(at >= at + Countdown)
    <2>1. t = u
      BY <1>3, <1>12 DEF CountdownStep
    <2>2. LockedAt(u) = at
      BY <1>3, RulesAssumption DEF LockedAt
    <2> QED BY <2>1, <2>2, <1>3, <1>4, <1>7, <1>10, <1>11 DEF Closed, u
  <1>13. CASE at >= at + Countdown
    <2>1. t = StartGame(u, u.countdownEndsAt)
      BY <1>3, <1>13 DEF CountdownStep
    <2>2. u.countdownEndsAt = at /\ Countdown = 0
      BY <1>3, <1>13, RulesAssumption
    <2>3. /\ t.state = "running" /\ t.players = Moved(u.players, "ready", "playing")
          /\ t.version = u.version + 1 /\ t.updatedAt = at /\ t.startedAt = at
      BY <1>8, <1>9, <2>1, <2>2, StartGameIs
    <2>4. Records(t)
      BY <1>3, <1>4, <1>9, <2>3, RecordsMoved
    <2>5. u.players \in Types /\ "ready" \in PlayerStates /\ "playing" \in PlayerStates
      BY <1>9 DEF Session, Types, PlayerStates
    <2>6. \A p \in Players : t.players[p].state =
             IF u.players[p].state = "ready" THEN "playing" ELSE u.players[p].state
      BY <2>3, <2>5, MovedPlayers
    <2>7. InMatch(t) = Ready(s)
      BY <1>7, <2>6 DEF InMatch, Ready, InState
    <2>8. LockedAt(t) = at
      BY <2>2, <2>3 DEF LockedAt
    <2>9. t.version > s.version
      BY <1>1, <1>11, <2>3
    <2> HIDE DEF t
    <2>10. Closed(t, at)
      BY <1>10, <2>3, <2>7, <2>8 DEF Closed
    <2> QED BY <2>3, <2>4, <2>7, <2>9, <2>10 DEF t, u
  <1> QED BY <1>12, <1>13

\* Advancing an overdue deadline, at that deadline.
LEMMA AdvanceMoves ==
  ASSUME NEW s, Good(s), Records(s), NEW at \in Nat, at >= s.updatedAt,
         s.state = "readyWindow" => at = s.readyWindowEndsAt,
         s.state = "countdown" => at = s.countdownEndsAt,
         s.state \in {"readyWindow", "countdown"}
  PROVE  Moves(s, AdvanceDeadlines(s, at), at)
  <1> DEFINE t == AdvanceDeadlines(s, at)
  <1>1. /\ s \in Session /\ s.version \in Nat /\ s.updatedAt \in Nat /\ s.players \in Types
        /\ Sound(s) /\ ~Terminal(s) /\ at > 0
    BY DEF Good, Sound, Session, Time, Types, Terminal, TimesAcceptable, NoTime
  <1>2. CASE s.state = "readyWindow"
    <2>1. EnoughReady(s)
      BY <1>2 DEF Good, Balanced
    <2>2. t = CountdownStep(StartCountdown(s, at), at)
      BY <1>2, <2>1 DEF AdvanceDeadlines
    <2>3. Records(t) /\ Closed(t, at) /\ t.version > s.version /\ t.updatedAt = at
      BY <1>1, <1>2, <2>1, <2>2, CloseLobby
    <2>4. Reason(s, t, at)
      BY <1>2 DEF Reason
    <2> QED BY <1>1, <1>2, <2>3, <2>4 DEF Moves, AcceptsPlayers
  <1>3. CASE s.state = "countdown"
    <2>1. EnoughReady(s)
      BY <1>3 DEF Good, Balanced
    <2>2. t = StartGame(s, at)
      BY <1>3 DEF AdvanceDeadlines, CountdownStep
    <2>3. /\ t.state = "running" /\ t.players = Moved(s.players, "ready", "playing")
          /\ t.version = s.version + 1 /\ t.updatedAt = at /\ t.startedAt = at
      BY <1>1, <2>1, <2>2, StartGameIs
    <2>4. Records(t)
      BY <1>1, <2>3, RecordsMoved
    <2>5. "ready" \in PlayerStates /\ "playing" \in PlayerStates
      BY DEF PlayerStates
    <2>6. Renamed(s, t)
      BY <1>1, <2>3, <2>5, MovedIs DEF Renamed, Current, InState
    <2>7. LockedAt(t) = LockedAt(s)
      BY <1>3, <2>3 DEF LockedAt
    <2>8. t.version > s.version
      BY <1>1, <2>3
    <2> HIDE DEF t
    <2> QED BY <1>1, <1>3, <2>3, <2>4, <2>6, <2>7, <2>8 DEF Moves, t
  <1> QED BY <1>2, <1>3

\* Cancelling keeps every player's record.
LEMMA CancelledMoves ==
  ASSUME NEW s, Good(s), Records(s), NEW at \in Nat, at >= s.updatedAt, ~Terminal(s),
         NEW reason \in EndReasons
  PROVE  Moves(s, Cancelled(s, reason, at), at)
  <1> DEFINE t == Cancelled(s, reason, at)
  <1>1. s \in Session /\ s.version \in Nat
    BY DEF Good, Sound, Session
  <1>2. /\ t.state = "cancelled" /\ t.players = s.players
        /\ t.version = s.version + 1 /\ t.updatedAt = at
    BY <1>1, CancelledIs
  <1>3. Records(t)
    BY <1>1, <1>2, RecordsKept
  <1>4. t.version > s.version
    BY <1>1, <1>2
  <1> HIDE DEF t
  <1>5. Moves(s, t, at)
    BY <1>2, <1>3, <1>4 DEF Moves
  <1> QED BY <1>5 DEF t

\* What follows when the players of a session have just changed, at time at.
LEMMA ReconcileReadyWindowIs ==
  ASSUME NEW u, Sound(u), Records(u), AcceptsPlayers(u), NEW at \in Nat, at > 0, at = u.updatedAt
  PROVE  LET t == ReconcileReadyWindow(u, at)
         IN  /\ Records(t)
             /\ t.version >= u.version
             /\ t.updatedAt = at
             /\ AcceptsPlayers(t) \/ (Closed(t, at) /\ Reason(u, t, at))
  <1> DEFINE t == ReconcileReadyWindow(u, at)
             v == IF u.state = "lobby" THEN OpenReadyWindow(u, at) ELSE u
  <1>1. u \in Session /\ u.version \in Nat /\ u.updatedAt \in Nat
    BY DEF Sound, Session, Time
  <1>2. CASE ~EnoughReady(u)
    <2>1. CASE u.state = "readyWindow"
      <3>1. t = CancelReadyWindow(u, at)
        BY <1>2, <2>1 DEF ReconcileReadyWindow
      <3>2. /\ t.state = "lobby" /\ t.players = u.players
            /\ t.version = u.version + 1 /\ t.updatedAt = at
        BY <1>1, <3>1, CancelReadyWindowIs
      <3>3. Records(t)
        BY <1>1, <3>2, RecordsKept
      <3>4. t.version >= u.version /\ AcceptsPlayers(t)
        BY <1>1, <3>2 DEF AcceptsPlayers
      <3> QED BY <3>2, <3>3, <3>4
    <2>2. CASE u.state # "readyWindow"
      BY <1>1, <1>2, <2>2 DEF ReconcileReadyWindow
    <2> QED BY <2>1, <2>2
  <1>3. CASE EnoughReady(u)
    <2>1. t = CloseReadyWindow(v, at)
      BY <1>3 DEF ReconcileReadyWindow
    <2>2. /\ Sound(v) /\ v.state = "readyWindow" /\ v.players = u.players
          /\ v.version >= u.version /\ v.updatedAt = at
          /\ u.state = "readyWindow" => v.readyWindowEndsAt = u.readyWindowEndsAt
      <3>1. CASE u.state = "lobby"
        <4>1. v = OpenReadyWindow(u, at)
          BY <3>1
        <4>2. Sound(v) /\ v.state = "readyWindow"
          BY <1>3, <3>1, <4>1, OpenReadyWindowGood DEF Good
        <4>3. v.players = u.players /\ v.version = u.version + 1 /\ v.updatedAt = at
          BY <1>1, <4>1, OpenReadyWindowIs
        <4> HIDE DEF v
        <4> QED BY <1>1, <3>1, <4>2, <4>3
      <3>2. CASE u.state = "readyWindow"
        BY <1>1, <3>2
      <3> QED BY <3>1, <3>2 DEF AcceptsPlayers
    <2>3. v \in Session /\ Records(v)
      BY <1>1, <2>2, RecordsKept DEF Sound
    <2>4. EnoughReady(v) /\ Ready(v) = Ready(u) /\ ReadyPlayerCount(v) = ReadyPlayerCount(u)
      BY <1>3, <2>2 DEF EnoughReady, ReadyPlayerCount, Ready, InState
    <2>5. v.version \in Nat /\ v.updatedAt \in Nat
      BY <2>3 DEF Session, Time
    <2> HIDE DEF v
    <2>6. CASE ReadyPlayerCount(v) = MaxPlayers \/ at >= v.readyWindowEndsAt
      <3> DEFINE w == StartCountdown(v, at)
      <3>1. w.state = "countdown"
        BY <2>3, StartCountdownIs
      <3>2. t = CountdownStep(w, at)
        BY <2>1, <2>6, <3>1 DEF CloseReadyWindow, AdvanceDeadlines
      <3>3. /\ Records(t) /\ Closed(t, at) /\ InMatch(t) = Ready(v)
            /\ t.version > v.version /\ t.updatedAt = at
        BY <2>2, <2>3, <2>4, <3>2, CloseLobby
      <3>4. t.version >= u.version
        <4>1. t = AdvanceDeadlines(w, at)
          BY <2>1, <2>6 DEF CloseReadyWindow
        <4>2. Good(t)
          BY <2>2, <2>4, <4>1, StartCountdownGood, AdvanceDeadlinesGood
        <4>3. t.version \in Nat
          BY <4>2 DEF Good, Sound, Session
        <4> QED BY <1>1, <2>2, <2>5, <3>3, <4>3
      <3>5. Reason(u, t, at)
        BY <2>2, <2>4, <2>6, <3>3 DEF Reason, ReadyPlayerCount
      <3> QED BY <3>3, <3>4, <3>5
    <2>7. CASE ~(ReadyPlayerCount(v) = MaxPlayers \/ at >= v.readyWindowEndsAt)
      <3>1. t = v
        BY <2>1, <2>7 DEF CloseReadyWindow
      <3> QED BY <2>2, <2>3, <3>1 DEF AcceptsPlayers
    <2> QED BY <2>6, <2>7
  <1> QED BY <1>2, <1>3

\* Each player of P drops out; too few ready players withdraw or cancel the session.
LEMMA DepartureMoves ==
  ASSUME NEW s, Good(s), Records(s), ~Terminal(s), NEW P, P \subseteq Current(s),
         NEW n \in Nat, n > 0, NEW at \in Nat, at > 0, at >= s.updatedAt
  PROVE  Moves(s, WithoutEnoughReady(Recorded([s EXCEPT !.players = Departed(@, P, at)], n, at), at),
               at)
  <1> DEFINE players == Departed(s.players, P, at)
             u == Recorded([s EXCEPT !.players = players], n, at)
             t == WithoutEnoughReady(u, at)
  <1>1. /\ s \in Session /\ s.version \in Nat /\ s.updatedAt \in Nat /\ s.players \in Types
        /\ Sound(s) /\ Countdown \in Nat
    BY RulesAssumption DEF Good, Sound, Session, Time, Types
  <1>2. u = Recorded([s EXCEPT !.players = Departed(@, P, at)], n, at)
    BY <1>1 DEF Session
  <1>3. players \in Types /\ \A p \in Players :
           players[p] = IF p \in P THEN [s.players[p] EXCEPT !.state = "left", !.leftAt = at]
                                  ELSE s.players[p]
    <2>1. players \in Types
      BY <1>1, DepartedPlayers
    <2> QED BY <2>1 DEF Departed
  <1>4. players = Departed(s.players, P, at)
    OBVIOUS
  <1> HIDE DEF players
  <1>5. /\ u.players = players /\ u.version = s.version + n /\ u.updatedAt = at
        /\ u.state = s.state /\ u.countdownEndsAt = s.countdownEndsAt
        /\ u.startedAt = s.startedAt /\ u \in Session
    <2> DEFINE v == [s EXCEPT !.players = players]
    <2>1. /\ v \in Session /\ v.players = players /\ v.version = s.version /\ v.state = s.state
          /\ v.countdownEndsAt = s.countdownEndsAt /\ v.startedAt = s.startedAt
      BY <1>1, <1>3 DEF Session, Types
    <2> HIDE DEF v
    <2>2. Recorded(v, n, at) \in Session /\ Recorded(v, n, at).players = v.players
          /\ Recorded(v, n, at).version = v.version + n /\ Recorded(v, n, at).updatedAt = at
          /\ Recorded(v, n, at).state = v.state
          /\ Recorded(v, n, at).countdownEndsAt = v.countdownEndsAt
          /\ Recorded(v, n, at).startedAt = v.startedAt
      BY <2>1, RecordedSession
    <2> QED BY <2>1, <2>2 DEF v
  <1> HIDE DEF u
  <1>6. Records(u)
    BY <1>1, <1>4, <1>5, RecordsDeparted
  <1>7. Dropped(s, u, at)
    BY <1>3, <1>5 DEF Dropped
  <1>8. LockedAt(u) = LockedAt(s)
    BY <1>5 DEF LockedAt
  <1>9. u.version \in Nat /\ u.version > s.version
    BY <1>1, <1>5
  <1>10. CASE t = u
    BY <1>5, <1>6, <1>7, <1>8, <1>9, <1>10, <1>2 DEF Moves, Terminal, AcceptsPlayers, Session, SessionStates
  <1>11. CASE t = CancelReadyWindow(u, at) /\ u.state = "readyWindow"
    <2>1. /\ t.state = "lobby" /\ t.players = u.players
          /\ t.version = u.version + 1 /\ t.updatedAt = at
      BY <1>5, <1>11, CancelReadyWindowIs
    <2>2. Records(t)
      BY <1>5, <1>6, <2>1, RecordsKept
    <2>3. t.version > s.version /\ AcceptsPlayers(t) /\ AcceptsPlayers(s)
      BY <1>1, <1>5, <1>9, <1>11, <2>1 DEF AcceptsPlayers
    <2> QED BY <2>1, <2>2, <2>3, <1>2 DEF Moves
  <1>12. CASE t = Cancelled(u, "insufficientPlayers", at)
    <2>1. /\ t.state = "cancelled" /\ t.players = u.players
          /\ t.version = u.version + 1 /\ t.updatedAt = at
      BY <1>5, <1>12, CancelledIs DEF EndReasons
    <2>2. Records(t)
      BY <1>5, <1>6, <2>1, RecordsKept
    <2>3. t.version > s.version
      BY <1>1, <1>9, <2>1
    <2> QED BY <2>1, <2>2, <2>3, <1>2 DEF Moves
  <1> QED BY <1>10, <1>11, <1>12 DEF WithoutEnoughReady

\* The operations, one by one.
LEMMA LeavePlayerMoves ==
  ASSUME NEW s, Good(s), Records(s), NEW p \in Players, NEW at \in Nat, CanLeave(s, p, at)
  PROVE  Moves(s, LeavePlayer(s, p, at), at)
  <1>1. {p} \subseteq Current(s) /\ ~Terminal(s) /\ at > 0 /\ at >= s.updatedAt
    BY DEF CanLeave, InOrder, NoTime
  <1>2. 1 \in Nat /\ 1 > 0
    OBVIOUS
  <1>3. Moves(s, WithoutEnoughReady(Recorded([s EXCEPT !.players = Departed(@, {p}, at)], 1, at), at),
              at)
    BY <1>1, <1>2, DepartureMoves
  <1> QED BY <1>3 DEF LeavePlayer

LEMMA ExcludePlayersMoves ==
  ASSUME NEW s, Good(s), Records(s), NEW P \in SUBSET Players, NEW at \in Nat,
         CanExclude(s, P, at)
  PROVE  Moves(s, ExcludePlayers(s, P, at), at)
  <1> DEFINE removed == P \cap Current(s)
             n == Cardinality(removed)
  <1>1. removed \subseteq Current(s) /\ ~Terminal(s) /\ at > 0 /\ at >= s.updatedAt
    BY DEF CanExclude, InOrder, NoTime
  <1>2. IsFiniteSet(removed) /\ removed # {}
    BY PlayersAssumption, FS_Subset DEF CanExclude
  <1>3. n \in Nat /\ n > 0
    BY <1>2, FS_CardinalityType, FS_EmptySet
  <1> HIDE DEF n, removed
  <1>4. Moves(s, WithoutEnoughReady(Recorded([s EXCEPT !.players = Departed(@, removed, at)], n, at),
                                    at), at)
    BY <1>1, <1>3, DepartureMoves
  <1> QED BY <1>4 DEF n, removed, ExcludePlayers

LEMMA JoinPlayerMoves ==
  ASSUME NEW s, Good(s), Records(s), NEW p \in Players, NEW at \in Nat, CanJoin(s, p, at)
  PROVE  Moves(s, JoinPlayer(s, p, at), at)
  <1> DEFINE u == JoinPlayer(s, p, at)
  <1>1. /\ s \in Session /\ s.version \in Nat /\ s.updatedAt \in Nat /\ s.players \in Types
        /\ AcceptsPlayers(s) /\ at > 0 /\ at >= s.updatedAt
    BY DEF Good, Sound, Session, Time, Types, CanJoin, InOrder, NoTime
  <1>2. /\ u.players = [s.players EXCEPT ![p] = Waiting] /\ u.version = s.version + 1
        /\ u.updatedAt = at /\ u.state = s.state
    BY <1>1 DEF JoinPlayer, Recorded, Session
  <1> HIDE DEF u
  <1>3. \A q \in Players : u.players[q] = IF q = p THEN Waiting ELSE s.players[q]
    BY <1>1, <1>2 DEF Types
  <1>4. \A q \in Players : s.players[q].leftAt \in Nat
    BY <1>1 DEF Types, Player, Time
  <1>5. Records(u)
    BY <1>1, <1>2, <1>3, <1>4 DEF Records, Waiting, NoTime
  <1>6. u.version > s.version
    BY <1>1, <1>2
  <1>7. Moves(s, u, at)
    BY <1>1, <1>2, <1>5, <1>6 DEF Moves, AcceptsPlayers, Terminal
  <1> QED BY <1>7 DEF u

LEMMA SetReadyMoves ==
  ASSUME NEW s, Good(s), Records(s), NEW p \in Players, NEW ready \in BOOLEAN, NEW at \in Nat,
         CanSetReady(s, p, ready, at)
  PROVE  Moves(s, SetReady(s, p, ready, at), at)
  <1> DEFINE readiness == IF ready THEN [s.players[p] EXCEPT !.state = "ready", !.readyAt = at]
                                   ELSE [s.players[p] EXCEPT !.state = "waiting", !.readyAt = NoTime]
             players == [s.players EXCEPT ![p] = readiness]
             u == Recorded([s EXCEPT !.players = players], 1, at)
             t == SetReady(s, p, ready, at)
  <1>1. /\ s \in Session /\ s.version \in Nat /\ s.updatedAt \in Nat /\ s.players \in Types
        /\ Sound(s) /\ AcceptsPlayers(s) /\ at > 0 /\ at >= s.updatedAt
        /\ CurrentPlayerCount(s) <= MaxPlayers
        /\ s.players[p].state \in {"waiting", "ready"}
    BY DEF Good, Sound, Session, Time, Types, CanSetReady, InOrder, NoTime
  <1>2. /\ readiness \in Player /\ readiness.state \in {"waiting", "ready"}
        /\ readiness.leftAt = s.players[p].leftAt
        /\ readiness.state = "waiting" => readiness.readyAt = NoTime
        /\ readiness.state = "ready" => readiness.readyAt # NoTime
    <2>1. s.players[p] \in Player
      BY <1>1 DEF Types
    <2>2. CASE ready
      <3>1. readiness = [s.players[p] EXCEPT !.state = "ready", !.readyAt = at]
        BY <2>2
      <3> HIDE DEF readiness
      <3>2. /\ readiness.state = "ready" /\ readiness.readyAt = at
            /\ readiness.leftAt = s.players[p].leftAt
        BY <2>1, <3>1 DEF Player
      <3>3. readiness \in Player
        BY <2>1, <3>1 DEF Player, PlayerStates, Time
      <3> QED BY <1>1, <3>2, <3>3 DEF NoTime
    <2>3. CASE ~ready
      <3>1. readiness = [s.players[p] EXCEPT !.state = "waiting", !.readyAt = NoTime]
        BY <2>3
      <3> HIDE DEF readiness
      <3>2. /\ readiness.state = "waiting" /\ readiness.readyAt = 0
            /\ readiness.leftAt = s.players[p].leftAt
        BY <2>1, <3>1 DEF Player, NoTime
      <3>3. readiness \in Player
        BY <2>1, <3>1 DEF Player, PlayerStates, Time, NoTime
      <3> QED BY <3>2, <3>3 DEF NoTime
    <2> QED BY <2>2, <2>3
  <1>3. t = ReconcileReadyWindow(u, at)
    BY <1>1 DEF SetReady, Session
  <1> HIDE DEF readiness, t
  <1>4. players \in Types
    BY <1>1, <1>2 DEF Types
  <1>5. \A q \in Players : players[q] = IF q = p THEN readiness ELSE s.players[q]
    BY <1>1 DEF Types
  <1> HIDE DEF players
  <1>6. /\ u.players = players /\ u.version = s.version + 1 /\ u.updatedAt = at
        /\ u.state = s.state /\ u.readyWindowEndsAt = s.readyWindowEndsAt
    BY <1>1 DEF Recorded, Session
  <1>7. u = Recorded([s EXCEPT !.players = players], 1, at)
    OBVIOUS
  <1> HIDE DEF u
  <1>8. Records(u)
    <2>1. \A q \in Players : s.players[q].leftAt \in Nat
      BY <1>1 DEF Types, Player, Time
    <2> QED BY <1>1, <1>2, <1>5, <1>6, <2>1 DEF Records, NoTime
  <1>9. Sound(u)
    <2>1. Current(u) = Current(s)
      BY <1>1, <1>2, <1>5, <1>6 DEF Current, InState
    <2>2. InState(s, {"playing", "finished"}) = {} /\ InState(u, {"playing", "finished"}) = {}
      BY <1>1, <1>2, <1>5, <1>6 DEF Sound, InState
    <2>3. s.state \notin {"countdown", "running", "finished"}
      BY <1>1 DEF AcceptsPlayers
    <2>4. CurrentPlayerCount(u) <= MaxPlayers
      BY <1>1, <2>1 DEF CurrentPlayerCount
    <2> DEFINE n == 1
    <2>5. u = Recorded([s EXCEPT !.players = players], n, at) /\ n \in Nat
      BY <1>7
    <2> HIDE DEF n
    <2> QED BY <1>1, <1>4, <2>2, <2>3, <2>4, <2>5, PlayersChanged
  <1>10. AcceptsPlayers(u) /\ ~Terminal(s)
    BY <1>1, <1>6 DEF AcceptsPlayers, Terminal
  <1>11. /\ Records(t) /\ t.version >= u.version /\ t.updatedAt = at
         /\ AcceptsPlayers(t) \/ (Closed(t, at) /\ Reason(u, t, at))
    BY <1>1, <1>3, <1>6, <1>8, <1>9, <1>10, ReconcileReadyWindowIs
  <1>12. t.version > s.version
    <2>1. Good(t)
      BY <1>1, <1>3, <1>9, <1>10, ReconcileReadyWindowGood
    <2>2. t.version \in Nat
      BY <2>1 DEF Good, Sound, Session
    <2> QED BY <1>1, <1>6, <1>11, <2>2
  <1>13. AcceptsPlayers(t) \/ (Closed(t, at) /\ Reason(s, t, at))
    BY <1>6, <1>11 DEF Reason
  <1>14. Moves(s, t, at)
    BY <1>1, <1>10, <1>11, <1>12, <1>13 DEF Moves
  <1> QED BY <1>14 DEF t

LEMMA UpdateGameStateMoves ==
  ASSUME NEW s, Good(s), Records(s), NEW deadline \in Nat, NEW at \in Nat,
         CanUpdateGameState(s, at)
  PROVE  Moves(s, UpdateGameState(s, deadline, at), at)
  <1> DEFINE t == UpdateGameState(s, deadline, at)
  <1>1. /\ s \in Session /\ s.version \in Nat /\ s.updatedAt \in Nat
        /\ s.state = "running" /\ at >= s.updatedAt
    BY DEF Good, Sound, Session, Time, CanUpdateGameState, InOrder
  <1>2. /\ t.players = s.players /\ t.version = s.version + 1 /\ t.updatedAt = at
        /\ t.state = "running" /\ t.startedAt = s.startedAt
    BY <1>1 DEF UpdateGameState, Recorded, Session
  <1> HIDE DEF t
  <1>3. Records(t)
    BY <1>1, <1>2, RecordsKept
  <1>4. t.version > s.version /\ LockedAt(t) = LockedAt(s) /\ Dropped(s, t, at)
    BY <1>1, <1>2 DEF LockedAt, Dropped
  <1>5. Moves(s, t, at)
    BY <1>1, <1>2, <1>3, <1>4 DEF Moves, Terminal
  <1> QED BY <1>5 DEF t

LEMMA FinishMoves ==
  ASSUME NEW s, Good(s), Records(s), NEW reason \in EndReasons, NEW at \in Nat,
         CanFinish(s, at)
  PROVE  Moves(s, Finish(s, reason, at), at)
  <1> DEFINE t == Finish(s, reason, at)
             D == Moved(s.players, "playing", "finished")
  <1>1. /\ s \in Session /\ s.version \in Nat /\ s.updatedAt \in Nat /\ s.players \in Types
        /\ s.state = "running" /\ at >= s.updatedAt
    BY DEF Good, Sound, Session, Time, Types, CanFinish, InOrder
  <1>2. t = [ [s EXCEPT !.players = D, !.state = "finished",
                     !.turnDeadline = NoTime, !.endedAt = at, !.endReason = reason]
              EXCEPT !.version = @ + 1, !.updatedAt = at]
    BY <1>1 DEF Finish, Recorded, Session
  <1>3. D = Moved(s.players, "playing", "finished")
    OBVIOUS
  <1> HIDE DEF t, D
  <1>4. /\ t.players = D /\ t.version = s.version + 1 /\ t.updatedAt = at
        /\ t.state = "finished" /\ t.startedAt = s.startedAt
    BY <1>1, <1>2 DEF Session
  <1>5. Records(t)
    BY <1>1, <1>3, <1>4, RecordsMoved
  <1>6. Renamed(s, t)
    <2>1. "playing" \in PlayerStates /\ "finished" \in PlayerStates
      BY DEF PlayerStates
    <2> QED BY <1>1, <1>3, <1>4, <2>1, MovedIs DEF Renamed, Current, InState
  <1>7. t.version > s.version /\ LockedAt(t) = LockedAt(s)
    BY <1>1, <1>4 DEF LockedAt
  <1>8. Moves(s, t, at)
    BY <1>1, <1>4, <1>5, <1>6, <1>7 DEF Moves, Terminal
  <1> QED BY <1>8 DEF t

-----------------------------------------------------------------------------
(* The history of a session                                                *)

\* Whoever is or was in the match left no earlier than the countdown began, and
\* whoever is not in the roster was never ready or had left by then.
Frozen ==
  session.state \in {"countdown", "running", "finished"} =>
    /\ LockedAt(session) <= session.updatedAt
    /\ Current(session) \subseteq locked
    /\ \A p \in locked :
         /\ session.players[p].readyAt # NoTime
         /\ p \notin Current(session) => session.players[p].leftAt >= LockedAt(session)
    /\ \A p \in Players \ locked :
         \/ session.players[p].readyAt = NoTime
         \/ session.players[p].leftAt <= LockedAt(session)

\* The inductive invariant of the session's history.
HistoryInv ==
  /\ SessionInv
  /\ Records(session)
  /\ session.updatedAt <= now
  /\ Frozen

\* A step of the session's owner or of a client, at the time it records.
Change(at) ==
  /\ at >= session.updatedAt /\ at <= now
  /\ Moves(session, session', at)
  /\ Becomes(session')

\* Every step is the clock's or one of these changes.
LEMMA StepIsChange ==
  ASSUME HistoryInv, [Next]_vars
  PROVE  \/ session' = session /\ locked' = locked /\ now' \in {now, now + 1}
         \/ \E at \in Nat : Change(at)
  <1>0. /\ Good(session) /\ Records(session) /\ now \in Nat /\ now > 0
        /\ session.updatedAt <= now
        /\ session.updatedAt \in Nat
    BY DEF HistoryInv, SessionInv, Good, Sound, Session, Time
  <1>1. ASSUME NEW p \in Players, Join(p) PROVE Change(now)
    BY <1>0, <1>1, JoinPlayerMoves DEF Join, Change, Becomes, CanJoin, InOrder
  <1>2. ASSUME NEW p \in Players, Leave(p) PROVE Change(now)
    BY <1>0, <1>2, LeavePlayerMoves DEF Leave, Change, Becomes, CanLeave, InOrder
  <1>3. ASSUME NEW p \in Players, NEW ready \in BOOLEAN, ChangeReady(p, ready) PROVE Change(now)
    BY <1>0, <1>3, SetReadyMoves DEF ChangeReady, Change, Becomes, CanSetReady, InOrder
  <1>4. ASSUME NEW P \in SUBSET Players, Reconcile(P) PROVE Change(ReconcileTime)
    <2>1. Deadline \in Nat /\ ReconcileTime \in Nat
      BY DeadlineIsTime DEF HistoryInv
    <2>2. ReconcileTime <= now /\ ReconcileTime >= session.updatedAt
      BY <1>0, <2>1 DEF ReconcileTime
    <2>3. CanExclude(session, P, ReconcileTime)
          /\ Becomes(ExcludePlayers(session, P, ReconcileTime))
      BY <1>4 DEF Reconcile
    <2> DEFINE at == ReconcileTime
    <2> HIDE DEF at
    <2>4. at \in Nat /\ CanExclude(session, P, at) /\ Becomes(ExcludePlayers(session, P, at))
      BY <2>1, <2>3 DEF at
    <2>5. Moves(session, ExcludePlayers(session, P, at), at)
      BY <1>0, <2>4, ExcludePlayersMoves
    <2>6. session' = ExcludePlayers(session, P, at)
      BY <2>4 DEF Becomes
    <2>7. at <= now /\ at >= session.updatedAt
      BY <2>2 DEF at
    <2>8. Change(at)
      BY <2>4, <2>5, <2>6, <2>7 DEF Change
    <2> QED BY <2>8 DEF at
  <1>5. ASSUME HandleDeadline PROVE Change(Deadline) /\ Deadline \in Nat
    <2>1. Deadline \in Nat
      BY DeadlineIsTime DEF HistoryInv
    <2>2. /\ session.state \in {"readyWindow", "countdown"} /\ now >= Deadline
          /\ Deadline >= session.updatedAt
          /\ Becomes(AdvanceDeadlines(session, Deadline))
      BY <1>5 DEF HandleDeadline, LobbyDeadlineDue, CanAdvance, InOrder
    <2>3. /\ session.state = "readyWindow" => Deadline = session.readyWindowEndsAt
          /\ session.state = "countdown" => Deadline = session.countdownEndsAt
      BY DEF Deadline, SessionDeadline
    <2> DEFINE at == Deadline
    <2> HIDE DEF at
    <2>4. /\ at \in Nat /\ at <= now /\ at >= session.updatedAt
          /\ Becomes(AdvanceDeadlines(session, at))
          /\ session.state = "readyWindow" => at = session.readyWindowEndsAt
          /\ session.state = "countdown" => at = session.countdownEndsAt
      BY <2>1, <2>2, <2>3 DEF at
    <2>5. Moves(session, AdvanceDeadlines(session, at), at)
      BY <1>0, <2>2, <2>4, AdvanceMoves
    <2>6. session' = AdvanceDeadlines(session, at)
      BY <2>4 DEF Becomes
    <2>7. Change(at)
      BY <2>4, <2>5, <2>6 DEF Change
    <2> QED BY <2>1, <2>7 DEF at
  <1>6. ASSUME NEW deadline \in {NoTime, now + TurnDuration}, Play(deadline) PROVE Change(now)
    <2>1. deadline \in Nat
      BY <1>0, BoundsAssumption DEF NoTime
    <2> QED BY <1>0, <1>6, <2>1, UpdateGameStateMoves
            DEF Play, Change, Becomes, CanUpdateGameState, InOrder
  <1>7. ASSUME Complete PROVE Change(now)
    <2>1. "gameOver" \in EndReasons
      BY DEF EndReasons
    <2> QED BY <1>0, <1>7, <2>1, FinishMoves DEF Complete, Change, Becomes, CanFinish, InOrder
  <1>8. ASSUME CancelByUser PROVE Change(now)
    <2>1. "cancelledByUser" \in EndReasons
      BY DEF EndReasons
    <2> QED BY <1>0, <1>8, <2>1, CancelledMoves
            DEF CancelByUser, Change, Becomes, CanCancel, InOrder
  <1>9. ASSUME Tick
        PROVE  session' = session /\ locked' = locked /\ now' \in {now, now + 1}
    BY <1>9 DEF Tick
  <1>10. ASSUME UNCHANGED vars
         PROVE  session' = session /\ locked' = locked /\ now' \in {now, now + 1}
    BY <1>10 DEF vars
  <1>11. ReconcileTime \in Nat
    BY DeadlineIsTime DEF HistoryInv
  <1> QED BY <1>0, <1>1, <1>2, <1>3, <1>4, <1>5, <1>6, <1>7, <1>8, <1>9, <1>10, <1>11 DEF Next

\* A roster that has just been locked is frozen.
LEMMA ClosedIsFrozen ==
  ASSUME SessionInv', NEW at \in Nat, Closed(session', at), session'.updatedAt = at,
         Records(session'), locked' = InMatch(session')
  PROVE  Frozen'
  <1>1. session' \in Session /\ Sound(session')
    BY DEF SessionInv, Good, Sound
  <1>2. Current(session') = InMatch(session')
    BY <1>1 DEF Closed, Sound, Current, InMatch, InState
  <1>3. LockedAt(session') = at
    BY DEF Closed
  <1>4. \A p \in locked' : session'.players[p].readyAt # NoTime
    BY DEF Records, InMatch, InState
  <1>5. \A p \in Players : session'.players[p].leftAt <= at
    BY DEF Records
  <1> QED BY <1>2, <1>3, <1>4, <1>5 DEF Frozen

LEMMA NextHistoryInv == HistoryInv /\ [Next]_vars => HistoryInv'
  <1> SUFFICES ASSUME HistoryInv, [Next]_vars PROVE HistoryInv'
    OBVIOUS
  <1>1. SessionInv'
    BY NextSessionInv DEF HistoryInv
  <1>2. /\ session \in Session /\ session.updatedAt \in Nat /\ now \in Nat
        /\ Sound(session) /\ Countdown \in Nat
        /\ session.updatedAt <= now /\ Records(session) /\ Frozen
    BY RulesAssumption DEF HistoryInv, SessionInv, Good, Sound, Session, Time
  <1>3. CASE session' = session /\ locked' = locked /\ now' \in {now, now + 1}
    <2>1. Frozen' /\ Records(session)'
      BY <1>2, <1>3 DEF Frozen
    <2>2. (session.updatedAt <= now)'
      BY <1>2, <1>3
    <2> QED BY <1>1, <2>1, <2>2 DEF HistoryInv
  <1>4. ASSUME NEW at \in Nat, Change(at) PROVE HistoryInv'
    <2>1. /\ at >= session.updatedAt /\ at <= now /\ now' = now
          /\ session'.updatedAt = at /\ Records(session')
          /\ Moves(session, session', at)
          /\ locked' = IF AcceptsPlayers(session) /\ session'.state \in {"countdown", "running"}
                         THEN InMatch(session') ELSE locked
      BY <1>4 DEF Change, Moves, Becomes
    <2>2. Frozen'
      <3>1. CASE AcceptsPlayers(session) /\ AcceptsPlayers(session')
        BY <3>1 DEF AcceptsPlayers, Frozen
      <3>2. CASE AcceptsPlayers(session) /\ Closed(session', at)
        BY <1>1, <2>1, <3>2, ClosedIsFrozen DEF Closed
      <3>3. CASE /\ session.state \in {"countdown", "running"}
                 /\ session'.state = session.state
                 /\ LockedAt(session') = LockedAt(session)
                 /\ Dropped(session, session', at)
        <4>1. locked' = locked
          BY <2>1, <3>3 DEF AcceptsPlayers
        <4>2. /\ LockedAt(session) <= session.updatedAt
              /\ Current(session) \subseteq locked
              /\ \A p \in locked :
                   /\ session.players[p].readyAt # NoTime
                   /\ p \notin Current(session) => session.players[p].leftAt >= LockedAt(session)
              /\ \A p \in Players \ locked :
                   \/ session.players[p].readyAt = NoTime
                   \/ session.players[p].leftAt <= LockedAt(session)
          BY <1>2, <3>3 DEF Frozen
        <4>3. LockedAt(session) \in Int
          BY <1>2 DEF LockedAt, Session, Time
        <4>4. \A p \in Players :
                 \/ session'.players[p] = session.players[p]
                 \/ /\ p \in Current(session) /\ session'.players[p].state = "left"
                    /\ session'.players[p].readyAt = session.players[p].readyAt
                    /\ session'.players[p].leftAt = at
          <5>1. \A p \in Players : session.players[p] \in Player
            BY <1>2 DEF Session
          <5> QED BY <3>3, <5>1 DEF Dropped, Player
        <4>5. LockedAt(session') <= session'.updatedAt /\ at >= LockedAt(session')
          BY <1>2, <2>1, <3>3, <4>2, <4>3
        <4>6. Current(session') \subseteq Current(session)
          BY <4>4 DEF Current, InState
        <4>7. \A p \in locked :
                   /\ session'.players[p].readyAt # NoTime
                   /\ p \notin Current(session') => session'.players[p].leftAt >= LockedAt(session')
          <5> SUFFICES ASSUME NEW p \in locked
                       PROVE  /\ session'.players[p].readyAt # NoTime
                              /\ p \notin Current(session') =>
                                   session'.players[p].leftAt >= LockedAt(session')
            OBVIOUS
          <5>1. p \in Players
            BY DEF HistoryInv, SessionInv
          <5>2. CASE session'.players[p] = session.players[p]
            <6>1. p \in Current(session') <=> p \in Current(session)
              BY <5>1, <5>2 DEF Current, InState
            <6> QED BY <3>3, <4>2, <5>2, <6>1
          <5>3. CASE /\ p \in Current(session) /\ session'.players[p].state = "left"
                     /\ session'.players[p].readyAt = session.players[p].readyAt
                     /\ session'.players[p].leftAt = at
            BY <4>2, <4>5, <5>3
          <5> QED BY <4>4, <5>1, <5>2, <5>3
        <4>8. \A p \in Players \ locked :
                   \/ session'.players[p].readyAt = NoTime
                   \/ session'.players[p].leftAt <= LockedAt(session')
          BY <3>3, <4>2, <4>4
        <4> QED BY <4>1, <4>2, <4>5, <4>6, <4>7, <4>8 DEF Frozen
      <3>4. CASE /\ session.state \in {"countdown", "running"}
                 /\ session'.state \in {"running", "finished"}
                 /\ LockedAt(session') = LockedAt(session)
                 /\ Renamed(session, session')
        <4>1. locked' = locked
          BY <2>1, <3>4 DEF AcceptsPlayers
        <4>2. LockedAt(session) \in Int
          BY <1>2 DEF LockedAt, Session, Time
        <4>3. LockedAt(session') <= session'.updatedAt
          BY <1>2, <2>1, <3>4, <4>2 DEF Frozen
        <4>4. Current(session') = Current(session)
          BY <3>4 DEF Renamed, Current, InState
        <4>5. locked \subseteq Players
          BY DEF HistoryInv, SessionInv
        <4> QED BY <1>2, <3>4, <4>1, <4>3, <4>4, <4>5 DEF Frozen, Renamed
      <3>5. CASE session'.state = "cancelled"
        BY <3>5 DEF Frozen
      <3> QED BY <2>1, <3>1, <3>2, <3>3, <3>4, <3>5 DEF Moves
    <2>3. (session.updatedAt <= now)'
      BY <2>1
    <2> QED BY <1>1, <2>1, <2>2, <2>3 DEF HistoryInv
  <1> QED BY <1>3, <1>4, StepIsChange

LEMMA InitHistoryInv == Init => HistoryInv
  <1> SUFFICES ASSUME Init PROVE HistoryInv
    OBVIOUS
  <1>1. session = NewGameSession(1) /\ now = 1
    BY DEF Init, CreatedAt
  <1>2. /\ session.state = "lobby" /\ session.updatedAt = 1
        /\ \A p \in Players : session.players[p] = NoPlayer
    BY <1>1 DEF NewGameSession
  <1>3. Records(session)
    BY <1>2 DEF Records, NoPlayer, NoTime
  <1>4. Frozen
    BY <1>2 DEF Frozen
  <1> QED BY <1>1, <1>2, <1>3, <1>4, InitSessionInv DEF HistoryInv

\* The history invariant holds of every reachable session.
THEOREM HistoryInvHolds == Spec => []HistoryInv
  BY InitHistoryInv, NextHistoryInv, PTL DEF Spec

\* For any players and rules: nobody is in a match who was not ready when its
\* countdown began, and freezePlayers, which a recovering room runs on the
\* snapshot alone, finds everybody of the locked roster and nobody else but
\* players who left in the very instant the countdown began.
THEOREM RosterStaysFrozen == Spec => []RosterIsFrozen
  <1>1. HistoryInv => RosterIsFrozen
    <2> SUFFICES ASSUME HistoryInv PROVE RosterIsFrozen
      OBVIOUS
    <2>1. Frozen /\ Records(session) /\ session \in Session /\ Countdown \in Nat
          /\ locked \subseteq Players
      BY RulesAssumption DEF HistoryInv, SessionInv, Good, Sound
    <2>2. session.state \in {"countdown", "running", "finished"} => Current(session) \subseteq locked
      BY <2>1 DEF Frozen
    <2>3. ASSUME session.state = "running" PROVE locked \subseteq FrozenRoster(session)
      <3> SUFFICES ASSUME NEW p \in locked PROVE p \in FrozenRoster(session)
        OBVIOUS
      <3>1. p \in Players /\ session.players[p].readyAt # NoTime
        BY <2>1, <2>3 DEF Frozen
      <3>2. CASE p \in Current(session)
        <4>1. session.players[p].state = "playing"
          BY <2>3, <3>1, <3>2 DEF HistoryInv, SessionInv, Good, Sound, Current, InState
        <4> QED BY <3>1, <4>1 DEF FrozenRoster
      <3>3. CASE p \notin Current(session)
        <4>1. session.players[p].leftAt >= session.startedAt - Countdown
          BY <2>1, <2>3, <3>3 DEF Frozen, LockedAt
        <4> QED BY <2>3, <3>1, <4>1 DEF FrozenRoster
      <3> QED BY <3>2, <3>3
    <2>4. ASSUME session.state = "running", NEW p \in FrozenRoster(session) \ locked
          PROVE  session.players[p].leftAt = session.startedAt - Countdown
      <3>1. p \in Players /\ p \notin Current(session)
        BY <2>1, <2>2, <2>4 DEF FrozenRoster
      <3>2. /\ session.players[p].readyAt # NoTime
            /\ \/ session.players[p].leftAt = NoTime
               \/ session.players[p].leftAt >= session.startedAt - Countdown
        BY <2>4, <3>1 DEF FrozenRoster, Current, InState
      <3>3. session.players[p].leftAt <= session.startedAt - Countdown
        BY <2>1, <2>4, <3>1, <3>2 DEF Frozen, LockedAt
      <3>4. session.players[p].leftAt # NoTime
        <4>1. session.players[p].state \in PlayerStates
          BY <2>1, <3>1 DEF Session, Player
        <4>2. session.players[p].state \in {"absent", "left"}
          BY <3>1, <4>1 DEF PlayerStates, Current, InState
        <4> QED BY <2>1, <3>1, <3>2, <4>2 DEF Records
      <3>5. session.players[p].leftAt \in Nat /\ session.startedAt \in Nat
        BY <2>1, <3>1 DEF Session, Player, Time
      <3> QED BY <2>1, <3>2, <3>3, <3>4, <3>5
    <2> QED BY <2>2, <2>3, <2>4 DEF RosterIsFrozen
  <1> QED BY <1>1, HistoryInvHolds, PTL

\* Every change of a session takes a new version and a time between its last
\* change and the clock, whichever of the deadline, the clock and the last
\* change the room picked; and a window closes early only when it is full.
THEOREM ChangesAreOrderedHolds == Spec => ChangesAreOrdered
  <1> DEFINE A == session' # session =>
       /\ session'.version > session.version
       /\ session'.updatedAt >= session.updatedAt
       /\ session'.updatedAt <= now
       /\ session.state = "readyWindow" /\ session'.state \in {"countdown", "running"} =>
            now >= session.readyWindowEndsAt \/ Cardinality(InMatch(session')) = MaxPlayers
  <1>1. HistoryInv /\ [Next]_vars => A
    <2> SUFFICES ASSUME HistoryInv, [Next]_vars, session' # session PROVE A
      OBVIOUS
    <2>1. PICK at \in Nat : Change(at)
      BY StepIsChange
    <2>2. session.readyWindowEndsAt \in Nat /\ now \in Nat
      BY DEF HistoryInv, SessionInv, Good, Sound, Session, Time
    <2>3. /\ session'.version > session.version
          /\ session'.updatedAt = at /\ at >= session.updatedAt /\ at <= now
      BY <2>1 DEF Change, Moves
    <2>4. ASSUME session.state = "readyWindow", session'.state \in {"countdown", "running"}
          PROVE  Reason(session, session', at)
      BY <2>1, <2>4 DEF Change, Moves, AcceptsPlayers
    <2>5. ASSUME session.state = "readyWindow", session'.state \in {"countdown", "running"}
          PROVE  now >= session.readyWindowEndsAt \/ Cardinality(InMatch(session')) = MaxPlayers
      BY <2>2, <2>3, <2>4, <2>5 DEF Reason
    <2> QED BY <2>3, <2>5
  <1>2. HistoryInv /\ [Next]_vars => [A]_vars
    BY <1>1
  <1>3. Spec => [][A]_vars
    BY <1>2, HistoryInvHolds, PTL DEF Spec
  <1> QED BY <1>3 DEF ChangesAreOrdered

\* The lifecycle counts its roster as the session does.
LEMMA SameCount ==
  ASSUME NEW S, S \subseteq Players
  PROVE  Lifecycle!Cardinality(S) = Cardinality(S)
  BY DEF Lifecycle!Cardinality, Cardinality

\* Every step of a session is one of the lifecycle, or none.
LEMMA LifecycleStep == HistoryInv /\ [Next]_vars => [Lifecycle!Next]_(Lifecycle!vars)
  <1> SUFFICES ASSUME HistoryInv, [Next]_vars PROVE [Lifecycle!Next]_(Lifecycle!vars)
    OBVIOUS
  <1>1. CASE session' = session
    BY <1>1 DEF LifecyclePhase, LifecycleRoster, Lifecycle!vars
  <1>2. ASSUME NEW at \in Nat, Change(at) PROVE [Lifecycle!Next]_(Lifecycle!vars)
    <2>1. /\ Sound(session) /\ Sound(session') /\ Good(session) /\ Good(session')
          /\ ~Terminal(session)
          /\ session.state \in SessionStates /\ session'.state \in SessionStates
      BY <1>2, NextHistoryInv DEF HistoryInv, SessionInv, Good, Sound, Session, Change, Moves
    <2>a. Current(session) \subseteq Players /\ Current(session') \subseteq Players
      BY DEF Current, InState
    <2>b. Cardinality(Current(session')) \in Nat /\ Cardinality(Current(session)) \in Nat
      BY <2>a, PlayerSets
    <2>c. Cardinality(Current(session')) <= MaxPlayers
      BY <2>1 DEF Sound, CurrentPlayerCount
    <2>d. ASSUME session.state = "countdown" PROVE Cardinality(Current(session)) >= MinPlayers
      <3>1. Current(session) = Ready(session)
        BY <2>1, <2>d DEF Sound, Current, Ready, InState
      <3> QED BY <2>1, <2>d, <3>1 DEF Good, Balanced, EnoughReady, ReadyPlayerCount
    <2>e. ASSUME session'.state = "countdown" PROVE Cardinality(Current(session')) >= MinPlayers
      <3>1. Current(session') = Ready(session')
        BY <2>1, <2>e DEF Sound, Current, Ready, InState
      <3> QED BY <2>1, <2>e, <3>1 DEF Good, Balanced, EnoughReady, ReadyPlayerCount
    <2>2. CASE AcceptsPlayers(session) /\ AcceptsPlayers(session')
      BY <2>2 DEF LifecyclePhase, LifecycleRoster, Lifecycle!vars, AcceptsPlayers
    <2>3. CASE AcceptsPlayers(session) /\ Closed(session', at)
      <3>1. Current(session') = InMatch(session')
        BY <2>1, <2>3 DEF Closed, Sound, Current, InMatch, InState
      <3>2. Lifecycle!Lock
        <4>1. LifecyclePhase = "open"
          BY <2>3 DEF LifecyclePhase, AcceptsPlayers
        <4>2. LifecyclePhase' \in {"locked", "playing"} /\ LifecycleRoster' = Current(session')
          BY <2>3 DEF LifecyclePhase, LifecycleRoster, Closed, AcceptsPlayers
        <4>3. Cardinality(Current(session')) \in MinPlayers .. MaxPlayers
          BY <2>b, <2>c, <2>3, <3>1, RulesAssumption DEF Closed
        <4> QED BY <2>a, <4>1, <4>2, <4>3, SameCount DEF Lifecycle!Lock
      <3> QED BY <3>2 DEF Lifecycle!Next
    <2>4. CASE /\ session.state \in {"countdown", "running"}
               /\ session'.state = session.state
               /\ Dropped(session, session', at)
      <3>1. Current(session') \subseteq Current(session)
        <4>1. \A p \in Players : session.players[p] \in Player
          BY <2>1 DEF Sound, Session
        <4> QED BY <2>4, <4>1 DEF Dropped, Current, InState, Player
      <3>2. /\ LifecycleRoster' = Current(session') /\ LifecycleRoster = Current(session)
            /\ LifecyclePhase' = LifecyclePhase /\ LifecyclePhase \in {"locked", "playing"}
            /\ LifecyclePhase = "locked" => session'.state = "countdown"
        BY <2>4 DEF LifecyclePhase, LifecycleRoster, AcceptsPlayers
      <3>3. Lifecycle!Shrink
        BY <2>a, <2>e, <3>1, <3>2, SameCount DEF Lifecycle!Shrink
      <3> QED BY <3>3 DEF Lifecycle!Next
    <2>5. CASE session.state = "countdown" /\ session'.state = "running" /\ Renamed(session, session')
      <3>1. Current(session') = Current(session)
        BY <2>5 DEF Renamed, Current, InState
      <3>2. /\ LifecycleRoster' = LifecycleRoster /\ LifecycleRoster = Current(session)
            /\ LifecyclePhase' = "playing" /\ LifecyclePhase = "locked"
        BY <2>5, <3>1 DEF LifecyclePhase, LifecycleRoster, AcceptsPlayers
      <3>3. Lifecycle!Start
        BY <2>a, <2>d, <2>5, <3>2, SameCount DEF Lifecycle!Start
      <3> QED BY <3>3 DEF Lifecycle!Next
    <2>6. CASE session.state = "running" /\ session'.state = "finished" /\ Renamed(session, session')
      <3>1. Current(session') = Current(session)
        BY <2>6 DEF Renamed, Current, InState
      <3>2. /\ LifecycleRoster' = LifecycleRoster
            /\ LifecyclePhase' = "ended" /\ LifecyclePhase = "playing"
        BY <2>6, <3>1 DEF LifecyclePhase, LifecycleRoster, AcceptsPlayers
      <3>3. Lifecycle!End
        BY <3>2 DEF Lifecycle!End
      <3> QED BY <3>3 DEF Lifecycle!Next
    <2>7. CASE session'.state = "cancelled"
      <3>1. LifecyclePhase' = "void" /\ LifecycleRoster' = {}
        BY <2>7 DEF LifecyclePhase, LifecycleRoster, AcceptsPlayers
      <3>2. LifecyclePhase \in {"open", "locked", "playing"}
        BY <2>1 DEF LifecyclePhase, AcceptsPlayers, Terminal, SessionStates
      <3>3. Lifecycle!Void
        BY <3>1, <3>2 DEF Lifecycle!Void
      <3> QED BY <3>3 DEF Lifecycle!Next
    <2> QED BY <1>2, <2>2, <2>3, <2>4, <2>5, <2>6, <2>7 DEF Change, Moves
  <1> QED BY <1>1, <1>2, StepIsChange

\* The session implements the lifecycle its players rely on, whatever the
\* number of players and the durations of the rules, a countdown of no length
\* included, where closing the lobby starts the match in the same step.
THEOREM LifecycleImplemented == Spec => ImplementsLifecycle
  <1>1. Init => Lifecycle!Init
    <2> SUFFICES ASSUME Init PROVE Lifecycle!Init
      OBVIOUS
    <2>1. session.state = "lobby"
      BY DEF Init, NewGameSession
    <2> QED BY <2>1 DEF LifecyclePhase, LifecycleRoster, Lifecycle!Init, AcceptsPlayers
  <1>2. Spec => Lifecycle!Spec
    BY <1>1, LifecycleStep, HistoryInvHolds, PTL DEF Spec, Lifecycle!Spec
  <1> QED BY <1>2 DEF ImplementsLifecycle

-----------------------------------------------------------------------------
(***************************************************************************)
(* A turn game's match: what holds of it between commands, and within one. *)
(***************************************************************************)

Results ==
  [status : {"none", "completed", "cancelled"},
   reason : {"none", "threeInARow", "boardFull", "turnTimeout", "opponentLeft",
             "insufficientPlayers", "cancelledByUser"},
   winner : Players \cup {Nobody}, endedAt : Time]

\* A game that two have sat down to and nobody has won.
Games == [seats : [1..2 -> Players], board : [Cells -> Players \cup {Nobody}], turn : {1, 2}]
NoWinner(g) == \A p \in Players : ~Winner(g, p)
Seating(g) == g \in Games /\ g.seats[1] # g.seats[2] /\ NoWinner(g)

IsMatch(m) == m = [session |-> m.session, game |-> m.game, result |-> m.result]

\* A session whose game has not begun.  It may be running: the countdown may
\* end in a command that does not settle, and the next one begins the game.
Fresh(s) ==
  /\ s.turnStored = FALSE /\ s.turnDeadline = NoTime /\ s.state # "finished"
  /\ IF s.state = "running" THEN s.startedAt <= s.updatedAt ELSE s.startedAt = NoTime

Unbegun(m) == Fresh(m.session) /\ m.game = NoGame /\ m.result = NoResult

\* A game in which whoever sits at the board is in one of some states.
Playable(m, states) ==
  /\ m.session.state = "running" /\ m.session.turnStored = TRUE
  /\ m.session.turnDeadline # NoTime
  /\ m.result = NoResult
  /\ Seating(m.game)
  /\ \A k \in 1..2 : m.session.players[m.game.seats[k]].state \in states

UnderWay(m) == Playable(m, {"playing"})

\* Within a command a player may have left the board.
Leaving(m) == Playable(m, {"playing", "left"})

\* A result is proposed, for the reason it gives.
Proposed(m) ==
  LET s == m.session
      g == m.game
      r == m.result
  IN  /\ s.state = "running" /\ s.startedAt # NoTime
      /\ r \in Results /\ s.updatedAt <= r.endedAt
      /\ \/ /\ r.status = "cancelled" /\ NoWinner(g) /\ r.winner = Nobody
            /\ r.reason \in {"insufficientPlayers", "cancelledByUser"}
         \/ /\ r.status = "completed" /\ r.reason = "threeInARow" /\ r.winner \in Players
            /\ Winner(g, r.winner) /\ \A p \in Players : Winner(g, p) => p = r.winner
         \/ /\ r.status = "completed" /\ r.reason = "boardFull"
            /\ BoardFull(g) /\ NoWinner(g)
         \/ /\ r.status = "completed" /\ r.reason = "turnTimeout"
            /\ r.winner = Opponent(g, Late(g)) /\ NoWinner(g)
         \/ /\ r.status = "completed" /\ r.reason = "opponentLeft" /\ NoWinner(g)
            /\ r.winner \in Players /\ s.players[r.winner].state = "playing"
            /\ Opponent(g, r.winner) \in Players
            /\ s.players[Opponent(g, r.winner)].state = "left"

\* ResultIsEarned, of any match.
Earned(m) ==
  LET s == m.session
      g == m.game
      r == m.result
  IN  /\ r # NoResult <=> Terminal(s) /\ s.startedAt # NoTime
      /\ r # NoResult => r.endedAt = s.endedAt
      /\ r.status = "cancelled" <=> s.state = "cancelled" /\ s.startedAt # NoTime
      /\ \A p \in Players : Winner(g, p) /\ r # NoResult =>
            r.reason = "threeInARow" /\ r.winner = p
      /\ CASE r.reason = "threeInARow" -> Winner(g, r.winner)
           [] r.reason = "boardFull" -> BoardFull(g)
           [] r.reason = "turnTimeout" -> r.winner = Opponent(g, Late(g))
           [] r.reason = "opponentLeft" ->
                s.players[r.winner].state = "finished" /\ s.players[Opponent(g, r.winner)].state = "left"
           [] OTHER -> TRUE

Over(m) == Terminal(m.session) /\ m.result # NoResult /\ Earned(m)

MatchInv(m) ==
  /\ IsMatch(m) /\ Good(m.session)
  /\ Unbegun(m) \/ UnderWay(m) \/ Over(m)

Held(m, T) == MatchInv(m) /\ m.session.updatedAt <= T

-----------------------------------------------------------------------------
(* The rooms and streams *)

Entries == {e \in [command : Sent, copy : Nat] : e.copy \in 1..copies[e.command]}

StreamsIn(str, E) == str \in [Instances -> [unread : Seq(E), pending : SUBSET E]]

RoomIn(r, E, T) ==
  /\ r \in [queue : Seq(E), snapshot : Session]
  /\ Len(r.queue) <= QueueSize
  /\ r.snapshot.updatedAt <= T

RoomsIn(rs, E, T) ==
  /\ rs = [i \in Instances |-> rs[i]]
  /\ \A i \in Instances : rs[i] # Nowhere => RoomIn(rs[i], E, T)

WorldOK == Held(match, clock) /\ clock \in Nat /\ members \subseteq Players

SentOK ==
  /\ scene \in Scenes
  /\ sent \in [Players -> Nat] /\ \A p \in Players : sent[p] <= Len(scene.commands[p])
  /\ copies \in [Commands -> Nat]

\* A command is applied at most once, and only when it was sent.
HistoryOK ==
  /\ receipts \subseteq Sent /\ applied \in Seq(Sent)
  /\ ToSet(applied) = receipts /\ IsInjective(applied)

StreamInv ==
  /\ WorldOK
  /\ SentOK /\ HistoryOK
  /\ owner \in Instances \cup {Nowhere}
  /\ StreamsIn(stream, Entries)
  /\ RoomsIn(rooms, Entries, clock)


-----------------------------------------------------------------------------
(* What the session's methods leave of its times and of the stored game    *)

\* A fresh session stays fresh, and is not changed later than at.
FreshBy(s, at) == Fresh(s) /\ s.updatedAt \in Nat /\ s.updatedAt <= at

LEMMA FreshLater ==
  ASSUME NEW s, NEW at \in Nat, FreshBy(s, at), NEW T \in Nat, at <= T
  PROVE  FreshBy(s, T)
BY DEF FreshBy

LEMMA CancelReadyWindowFresh ==
  ASSUME NEW s \in Session, Fresh(s), s.state = "readyWindow", NEW at \in Nat
  PROVE  FreshBy(CancelReadyWindow(s, at), at)
BY DEF FreshBy, Fresh, CancelReadyWindow, Recorded, Session

LEMMA CancelledFresh ==
  ASSUME NEW s \in Session, Fresh(s), s.state # "running", NEW reason, NEW at \in Nat
  PROVE  FreshBy(Cancelled(s, reason, at), at)
BY DEF FreshBy, Fresh, Cancelled, Recorded, Session

LEMMA OpenReadyWindowFresh ==
  ASSUME NEW s \in Session, Fresh(s), s.state = "lobby", NEW at \in Nat
  PROVE  FreshBy(OpenReadyWindow(s, at), at)
BY DEF FreshBy, Fresh, OpenReadyWindow, Recorded, Session

LEMMA StartCountdownFresh ==
  ASSUME NEW s \in Session, Fresh(s), s.state = "readyWindow", NEW at \in Nat
  PROVE  /\ FreshBy(StartCountdown(s, at), at)
         /\ StartCountdown(s, at).state = "countdown"
<1> DEFINE n == Cardinality(InState(s, {"waiting"})) + 1
           players == Departed(s.players, InState(s, {"waiting"}), at)
           t == StartCountdown(s, at)
<1>1. t = [[s EXCEPT !.players = players, !.state = "countdown", !.readyWindowEndsAt = NoTime,
                     !.countdownEndsAt = at + Countdown]
           EXCEPT !.version = @ + n, !.updatedAt = at]
  BY DEF StartCountdown, Recorded, Session
<1> HIDE DEF n, players, t
<1>2. /\ t.state = "countdown" /\ t.updatedAt = at /\ t.startedAt = s.startedAt
      /\ t.turnStored = s.turnStored /\ t.turnDeadline = s.turnDeadline
  BY <1>1 DEF Session
<1>3. FreshBy(t, at)
  BY <1>2 DEF FreshBy, Fresh
<1> QED
  BY <1>2, <1>3 DEF t

LEMMA StartGameFresh ==
  ASSUME NEW s \in Session, Fresh(s), s.state = "countdown", NEW at \in Nat
  PROVE  FreshBy(StartGame(s, at), at)
<1>1. CASE ~EnoughReady(s)
  BY <1>1, CancelledFresh DEF StartGame
<1>2. CASE EnoughReady(s)
  <2> DEFINE players == Moved(s.players, "ready", "playing")
             t == StartGame(s, at)
  <2>1. t = [[s EXCEPT !.players = players, !.state = "running", !.countdownEndsAt = NoTime,
                       !.startedAt = at]
             EXCEPT !.version = @ + 1, !.updatedAt = at]
    BY <1>2 DEF StartGame, Recorded, Session
  <2> HIDE DEF players, t
  <2>2. /\ t.state = "running" /\ t.updatedAt = at /\ t.startedAt = at
        /\ t.turnStored = s.turnStored /\ t.turnDeadline = s.turnDeadline
    BY <2>1 DEF Session
  <2>3. FreshBy(t, at)
    BY <2>2 DEF FreshBy, Fresh
  <2> QED
    BY <2>3 DEF t
<1> QED
  BY <1>1, <1>2

LEMMA CountdownStepFresh ==
  ASSUME NEW s \in Session, NEW T \in Nat, FreshBy(s, T), NEW at \in Nat, at <= T
  PROVE  FreshBy(CountdownStep(s, at), T)
<1>1. CASE s.state = "countdown" /\ at >= s.countdownEndsAt
  <2>1. s.countdownEndsAt \in Nat /\ s.countdownEndsAt <= T
    BY <1>1 DEF Session, Time
  <2>2. FreshBy(StartGame(s, s.countdownEndsAt), s.countdownEndsAt)
    BY <1>1, <2>1, StartGameFresh DEF FreshBy
  <2> QED
    BY <1>1, <2>1, <2>2, FreshLater DEF CountdownStep
<1> QED
  BY <1>1 DEF CountdownStep

LEMMA AdvanceDeadlinesFresh ==
  ASSUME NEW s, Good(s), NEW T \in Nat, FreshBy(s, T), NEW at \in Nat, at <= T
  PROVE  FreshBy(AdvanceDeadlines(s, at), T)
<1>0. s \in Session /\ Sound(s)
  BY DEF Good, Sound
<1>1. CASE s.state = "readyWindow" /\ at >= s.readyWindowEndsAt
  <2> DEFINE end == s.readyWindowEndsAt
  <2>1. end \in Nat /\ end <= T /\ end > 0
    BY <1>0, <1>1 DEF Session, Time, Sound, TimesAcceptable, NoTime
  <2> HIDE DEF end
  <2>2. CASE EnoughReady(s)
    <3> DEFINE t == StartCountdown(s, end)
    <3>1. Good(t)
      BY <1>0, <1>1, <2>1, <2>2, StartCountdownGood
    <3>2. FreshBy(t, end)
      BY <1>0, <1>1, <2>1, StartCountdownFresh DEF FreshBy
    <3> HIDE DEF t
    <3>3. t \in Session
      BY <3>1 DEF Good, Sound
    <3>4. FreshBy(CountdownStep(t, at), T)
      BY <2>1, <3>2, <3>3, FreshLater, CountdownStepFresh
    <3> QED
      BY <1>1, <2>2, <3>4 DEF AdvanceDeadlines, t, end
  <2>3. CASE ~EnoughReady(s)
    <3>1. FreshBy(CancelReadyWindow(s, end), T)
      BY <1>0, <1>1, <2>1, FreshLater, CancelReadyWindowFresh DEF FreshBy
    <3> QED
      BY <1>1, <2>3, <3>1 DEF AdvanceDeadlines, end
  <2> QED
    BY <2>2, <2>3
<1>2. CASE ~(s.state = "readyWindow" /\ at >= s.readyWindowEndsAt)
  BY <1>0, <1>2, CountdownStepFresh DEF AdvanceDeadlines
<1> QED
  BY <1>1, <1>2

LEMMA CloseReadyWindowFresh ==
  ASSUME NEW s, Good(s), s.state = "readyWindow", NEW at \in Nat, at > 0, FreshBy(s, at)
  PROVE  FreshBy(CloseReadyWindow(s, at), at)
<1> DEFINE t == StartCountdown(s, at)
<1>0. s \in Session
  BY DEF Good, Sound
<1>1. Good(t)
  BY StartCountdownGood DEF Good, Balanced
<1>2. FreshBy(t, at)
  BY <1>0, StartCountdownFresh DEF FreshBy
<1> HIDE DEF t
<1>3. FreshBy(AdvanceDeadlines(t, at), at)
  BY <1>1, <1>2, AdvanceDeadlinesFresh
<1> QED
  BY <1>3 DEF t, CloseReadyWindow

LEMMA ReconcileReadyWindowFresh ==
  ASSUME NEW s, Sound(s), AcceptsPlayers(s), NEW at \in Nat, at > 0, FreshBy(s, at)
  PROVE  FreshBy(ReconcileReadyWindow(s, at), at)
<1>0. s \in Session /\ Fresh(s)
  BY DEF Sound, FreshBy
<1>1. CASE EnoughReady(s) /\ s.state = "lobby"
  BY <1>0, <1>1, OpenReadyWindowGood, OpenReadyWindowFresh, CloseReadyWindowFresh
  DEF ReconcileReadyWindow
<1>2. CASE EnoughReady(s) /\ s.state = "readyWindow"
  BY <1>2, CloseReadyWindowFresh DEF ReconcileReadyWindow, Good, Balanced
<1>3. CASE ~EnoughReady(s) /\ s.state = "readyWindow"
  BY <1>0, <1>3, CancelReadyWindowFresh DEF ReconcileReadyWindow
<1>4. CASE ~EnoughReady(s) /\ s.state = "lobby"
  BY <1>4 DEF ReconcileReadyWindow
<1> QED
  BY <1>1, <1>2, <1>3, <1>4 DEF AcceptsPlayers

\* A change of the players that is recorded at time at.
LEMMA PlayersFresh ==
  ASSUME NEW s \in Session, Fresh(s), NEW players, NEW n \in Nat, NEW at \in Nat,
         at >= s.updatedAt
  PROVE  LET t == Recorded([s EXCEPT !.players = players], n, at)
         IN  FreshBy(t, at) /\ t.state = s.state
<1> DEFINE t == Recorded([s EXCEPT !.players = players], n, at)
<1>1. /\ t.state = s.state /\ t.updatedAt = at /\ t.startedAt = s.startedAt
      /\ t.turnStored = s.turnStored /\ t.turnDeadline = s.turnDeadline
  BY DEF Recorded, Session
<1>2. s.startedAt \in Nat /\ s.updatedAt \in Nat
  BY DEF Session, Time
<1> HIDE DEF t
<1>3. FreshBy(t, at)
  BY <1>1, <1>2 DEF FreshBy, Fresh
<1> QED
  BY <1>1, <1>3 DEF t

LEMMA SetReadyFresh ==
  ASSUME NEW s, Good(s), Fresh(s), NEW p \in Players, NEW ready \in BOOLEAN, NEW at \in Nat,
         CanSetReady(s, p, ready, at)
  PROVE  FreshBy(SetReady(s, p, ready, at), at)
<1>0. s \in Session /\ at > 0 /\ at >= s.updatedAt
  BY DEF Good, Sound, CanSetReady, InOrder, NoTime
<1>1. PICK players \in Types :
        LET u == Recorded([s EXCEPT !.players = players], 1, at)
        IN  /\ Sound(u) /\ AcceptsPlayers(u) /\ u.state = s.state
            /\ SetReady(s, p, ready, at) = ReconcileReadyWindow(u, at)
  BY ReadinessRecorded
<1> DEFINE u == Recorded([s EXCEPT !.players = players], 1, at)
<1>2. FreshBy(u, at)
  BY <1>0, PlayersFresh
<1> QED
  BY <1>0, <1>1, <1>2, ReconcileReadyWindowFresh


\* Players who leave a session whose game has not begun.
LEMMA DepartureFresh ==
  ASSUME NEW s, Good(s), Fresh(s), NEW players, NEW n \in Nat, NEW at \in Nat,
         at >= s.updatedAt
  PROVE  FreshBy(WithoutEnoughReady(Recorded([s EXCEPT !.players = players], n, at), at), at)
<1> DEFINE u == Recorded([s EXCEPT !.players = players], n, at)
<1>0. s \in Session
  BY DEF Good, Sound
<1>1. FreshBy(u, at) /\ u.state = s.state
  BY <1>0, PlayersFresh
<1>2. u.state # "running" => /\ FreshBy(CancelReadyWindow(u, at), at)
                             /\ FreshBy(Cancelled(u, "insufficientPlayers", at), at)
  <2>1. /\ CancelReadyWindow(u, at).state = "lobby"
        /\ CancelReadyWindow(u, at).updatedAt = at
        /\ CancelReadyWindow(u, at).startedAt = s.startedAt
        /\ CancelReadyWindow(u, at).turnStored = s.turnStored
        /\ CancelReadyWindow(u, at).turnDeadline = s.turnDeadline
    BY <1>0 DEF CancelReadyWindow, Recorded, Session
  <2>2. /\ Cancelled(u, "insufficientPlayers", at).state = "cancelled"
        /\ Cancelled(u, "insufficientPlayers", at).updatedAt = at
        /\ Cancelled(u, "insufficientPlayers", at).startedAt = s.startedAt
        /\ Cancelled(u, "insufficientPlayers", at).turnStored = s.turnStored
        /\ Cancelled(u, "insufficientPlayers", at).turnDeadline = NoTime
    BY <1>0 DEF Cancelled, Recorded, Session
  <2> QED
    BY <1>1, <2>1, <2>2 DEF FreshBy, Fresh
<1> HIDE DEF u
<1>3. FreshBy(WithoutEnoughReady(u, at), at)
  BY <1>1, <1>2 DEF WithoutEnoughReady
<1> QED
  BY <1>3 DEF u


\* The session after the players of P left.
Gone(s, P, n, at) ==
  WithoutEnoughReady(Recorded([s EXCEPT !.players = Departed(@, P, at)], n, at), at)

\* Players who leave a running game: it goes on, for now.
LEMMA DepartureRunning ==
  ASSUME NEW s, Good(s), s.state = "running", NEW P, NEW n \in Nat, NEW at \in Nat
  PROVE  LET t == Gone(s, P, n, at)
         IN  /\ t.state = "running" /\ t.updatedAt = at /\ t.startedAt = s.startedAt
             /\ t.turnStored = s.turnStored /\ t.turnDeadline = s.turnDeadline
             /\ \A p \in Players : t.players[p].state \in {s.players[p].state, "left"}
<1> DEFINE players == Departed(s.players, P, at)
           u == Recorded([s EXCEPT !.players = players], n, at)
<1>0. s \in Session /\ s.players \in Types
  BY DEF Good, Sound, Session, Types
<1>1. \A p \in Players : players[p].state \in {s.players[p].state, "left"}
  BY <1>0, DepartedPlayers
<1>2. u = Recorded([s EXCEPT !.players = Departed(@, P, at)], n, at)
  BY <1>0 DEF Session
<1> HIDE DEF players
<1>3. /\ u.state = "running" /\ u.updatedAt = at /\ u.startedAt = s.startedAt
      /\ u.turnStored = s.turnStored /\ u.turnDeadline = s.turnDeadline
      /\ u.players = players
  BY <1>0 DEF Recorded, Session
<1> HIDE DEF u
<1>4. WithoutEnoughReady(u, at) = u
  BY <1>3 DEF WithoutEnoughReady
<1>5. Gone(s, P, n, at) = u
  BY <1>2, <1>4 DEF Gone
<1> QED
  BY <1>1, <1>3, <1>5

LEMMA UpdateGameStateIs ==
  ASSUME NEW s \in Session, NEW deadline \in Nat, NEW at \in Nat
  PROVE  LET t == UpdateGameState(s, deadline, at)
         IN  /\ t.state = s.state /\ t.players = s.players /\ t.startedAt = s.startedAt
             /\ t.turnStored = TRUE /\ t.turnDeadline = deadline /\ t.updatedAt = at
BY DEF UpdateGameState, Recorded, Session

LEMMA FinishIs ==
  ASSUME NEW s \in Session, NEW reason, NEW at \in Nat
  PROVE  LET t == Finish(s, reason, at)
         IN  /\ t.state = "finished" /\ t.startedAt = s.startedAt
             /\ t.endedAt = at /\ t.updatedAt = at
             /\ \A p \in Players : t.players[p].state =
                  IF s.players[p].state = "playing" THEN "finished" ELSE s.players[p].state
<1> DEFINE players == Moved(s.players, "playing", "finished")
           t == Finish(s, reason, at)
<1>1. \A p \in Players : players[p].state =
         IF s.players[p].state = "playing" THEN "finished" ELSE s.players[p].state
  BY MovedPlayers DEF Session, Types, PlayerStates
<1>2. t = [[s EXCEPT !.players = players, !.state = "finished",
                     !.turnDeadline = NoTime, !.endedAt = at, !.endReason = reason]
           EXCEPT !.version = @ + 1, !.updatedAt = at]
  BY DEF Finish, Recorded, Session
<1> HIDE DEF players, t
<1>3. /\ t.state = "finished" /\ t.startedAt = s.startedAt /\ t.players = players
      /\ t.endedAt = at /\ t.updatedAt = at
  BY <1>2 DEF Session
<1> QED
  BY <1>1, <1>3 DEF t

LEMMA CancelledEnds ==
  ASSUME NEW s \in Session, NEW reason, NEW at \in Nat
  PROVE  LET t == Cancelled(s, reason, at)
         IN  /\ t.state = "cancelled" /\ t.startedAt = s.startedAt
             /\ t.endedAt = at /\ t.updatedAt = at
BY DEF Cancelled, Recorded, Session

-----------------------------------------------------------------------------
(* The turn engine *)

LEMMA LaterTime ==
  ASSUME NEW t \in Nat, NEW u \in Nat
  PROVE  /\ LaterOf(t, u) \in Nat /\ LaterOf(t, u) >= t /\ LaterOf(t, u) >= u
         /\ LaterOf(t, u) \in {t, u}
BY DEF LaterOf

\* n is match m with an outcome of the game stored at time at.
Stored(n, m, outcome, at) ==
  /\ IsMatch(n) /\ Good(n.session) /\ n.session.state = "running"
  /\ n.game = outcome.game /\ n.result = outcome.result
  /\ n.session.turnStored = TRUE
  /\ n.session.turnDeadline = IF outcome.result = NoResult THEN outcome.deadline ELSE NoTime
  /\ n.session.players = m.session.players
  /\ n.session.startedAt = m.session.startedAt
  /\ n.session.updatedAt \in {at, m.session.updatedAt}

\* applyTurnOutcome stores what it is given and touches nothing else of the session.
LEMMA OutcomeApplied ==
  ASSUME NEW m, IsMatch(m), Good(m.session), m.session.state = "running",
         NEW outcome, outcome.deadline \in Nat, NEW at, at \in Nat, at >= m.session.updatedAt
  PROVE  Stored(ApplyTurnOutcome(m, outcome, at), m, outcome, at)
<1> DEFINE s == m.session
           deadline == IF outcome.result = NoResult THEN outcome.deadline ELSE NoTime
           changed == outcome.game # m.game \/ ~s.turnStored \/ deadline # s.turnDeadline
           n == ApplyTurnOutcome(m, outcome, at)
           t == UpdateGameState(s, deadline, at)
<1>1. deadline \in Nat /\ s \in Session /\ s.turnStored \in BOOLEAN
  BY DEF Good, Sound, Session, NoTime
<1>2. s.updatedAt \in Nat /\ s.updatedAt # 0 /\ s.state = "running"
  BY DEF Good, Sound, Session, Time, TimesAcceptable, NoTime
<1>3. n = [session |-> IF changed THEN t ELSE s, game |-> outcome.game, result |-> outcome.result]
  BY DEF ApplyTurnOutcome
<1> HIDE DEF deadline
<1>4. CanUpdateGameState(s, at)
  BY <1>2 DEF CanUpdateGameState, InOrder, NoTime
<1>5. Good(t)
  BY <1>1, <1>4, UpdateGameStateGood
<1>6. /\ t.state = s.state /\ t.players = s.players /\ t.startedAt = s.startedAt
      /\ t.turnStored = TRUE /\ t.turnDeadline = deadline /\ t.updatedAt = at
  BY <1>1, UpdateGameStateIs
<1> HIDE DEF s, t, n
<1>7. Good(s)
  BY DEF s
<1>8. CASE changed
  <2>1. n.session = t /\ n.game = outcome.game /\ n.result = outcome.result /\ IsMatch(n)
    BY <1>3, <1>8 DEF IsMatch
  <2> QED
    BY <1>2, <1>5, <1>6, <2>1 DEF n, s, deadline, Stored
<1>9. CASE ~changed
  <2>1. n.session = s /\ n.game = outcome.game /\ n.result = outcome.result /\ IsMatch(n)
    BY <1>3, <1>9 DEF IsMatch
  <2>2. s.turnStored = TRUE /\ s.turnDeadline = deadline
    BY <1>1, <1>9
  <2> QED
    BY <1>2, <1>7, <2>1, <2>2 DEF n, s, deadline, Stored
<1> QED
  BY <1>8, <1>9


LEMMA EmptyBoard ==
  ASSUME NEW g, g.board = [c \in Cells |-> Nobody]
  PROVE  NoWinner(g)
<1> SUFFICES ASSUME NEW p \in Players, NEW line \in Lines, \A c \in line : g.board[c] = p
             PROVE  FALSE
  BY DEF NoWinner, Winner
<1>1. line # {} /\ line \subseteq Cells
  BY TurnAssumption
<1>2. PICK c \in line : c \in Cells
  BY <1>1
<1> QED
  BY <1>2, TurnAssumption

LEMMA NothingBegun == NoGame.board = [c \in Cells |-> Nobody]
BY DEF NoGame

\* Two numbers come one before the other.
LEMMA FirstOfTwo ==
  ASSUME NEW S \in SUBSET Nat, IsFiniteSet(S), Cardinality(S) = 2
  PROVE  \E i, j \in S : i < j /\ S = {i, j}
<1>1. PICK a \in S : TRUE
  <2>1. S # {}
    BY FS_EmptySet
  <2> QED
    BY <2>1
<1>2. IsFiniteSet(S \ {a}) /\ Cardinality(S \ {a}) = 1
  BY <1>1, FS_RemoveElement
<1>3. PICK b : S \ {a} = {b}
  BY <1>2, FS_Singleton
<1>4. b \in S /\ a # b /\ S = {a, b}
  BY <1>1, <1>3
<1>5. a \in Nat /\ b \in Nat
  BY <1>1, <1>4
<1>6. CASE a < b
  BY <1>1, <1>4, <1>6
<1>7. CASE b < a
  BY <1>1, <1>4, <1>7
<1> QED
  BY <1>4, <1>5, <1>6, <1>7

LEMMA LengthOf ==
  ASSUME NEW R, NEW n \in Nat, NEW f \in [1..n -> R]
  PROVE  Len(f) = n
<1>1. f \in Seq(R)
  BY SeqDef
<1>2. Len(f) \in Nat /\ DOMAIN f = 1..Len(f) /\ DOMAIN f = 1..n
  BY <1>1, LenProperties
<1>3. \A k \in Nat : k \in 1..n <=> k \in 1..Len(f)
  BY <1>2
<1>4. n \in 1..n <=> n \in 1..Len(f)
  BY <1>3
<1>5. Len(f) \in 1..n <=> Len(f) \in 1..Len(f)
  BY <1>2, <1>3
<1> QED
  BY <1>2, <1>4, <1>5

\* If two play they sit down at the board, the first in join order first.
LEMMA TwoSit ==
  ASSUME NEW s \in Session, Len(NewState(s).seats) = 2
  PROVE  /\ Seating(NewState(s))
         /\ \A k \in 1..2 : s.players[NewState(s).seats[k]].state = "playing"
<1> DEFINE playing == {k \in DOMAIN JoinOrder : s.players[JoinOrder[k]].state = "playing"}
           Place(n) == CHOOSE k \in playing : Cardinality({j \in playing : j < k}) = n - 1
           seats == [n \in 1..Cardinality(playing) |-> JoinOrder[Place(n)]]
<1>1. /\ NewState(s).seats = seats /\ NewState(s).turn = 1
      /\ NewState(s).board = [c \in Cells |-> Nobody]
      /\ NewState(s) = [seats |-> seats, board |-> [c \in Cells |-> Nobody], turn |-> 1]
  <2>1. NewState(s) = [NoGame EXCEPT !.seats = seats]
    BY DEF NewState
  <2> HIDE DEF seats
  <2> QED
    BY <2>1 DEF NoGame
<1>2. DOMAIN JoinOrder = 1..Len(JoinOrder) /\ Len(JoinOrder) \in Nat
      /\ \A k \in DOMAIN JoinOrder : JoinOrder[k] \in Players
  BY TurnAssumption
<1>3. playing \in SUBSET Nat /\ IsFiniteSet(playing)
  <2>1. IsFiniteSet(1..Len(JoinOrder))
    BY <1>2, FS_Interval
  <2>2. playing \subseteq 1..Len(JoinOrder)
    BY <1>2
  <2> QED
    BY <1>2, <2>1, <2>2, FS_Subset
<1>4. Cardinality(playing) \in Nat
  BY <1>3, FS_CardinalityType
<1>5. Cardinality(playing) = 2
  <2> DEFINE N == Cardinality(playing)
  <2>1. seats \in [1..N -> Range(seats)]
    BY DEF Range
  <2> HIDE DEF N, playing
  <2>2. Len(seats) = N
    BY <1>4, <2>1, LengthOf DEF N
  <2> QED
    BY <1>1, <2>2 DEF N
<1>6. PICK i \in playing, j \in playing : i < j /\ playing = {i, j}
  BY <1>3, <1>5, FirstOfTwo
<1>7. i \in Nat /\ j \in Nat
  BY <1>3
<1>8. {k \in playing : k < i} = {} /\ {k \in playing : k < j} = {i}
  BY <1>6, <1>7
<1>9. Cardinality({k \in playing : k < i}) = 0 /\ Cardinality({k \in playing : k < j}) = 1
  BY <1>8, FS_EmptySet, FS_Singleton
<1> HIDE DEF playing
<1>10. Place(1) = i /\ Place(2) = j
  BY <1>6, <1>9
<1>11. seats[1] = JoinOrder[i] /\ seats[2] = JoinOrder[j] /\ DOMAIN seats = 1..2
  <2>1. seats = [n \in 1..2 |-> JoinOrder[Place(n)]]
    BY <1>5
  <2> HIDE DEF Place, seats
  <2> QED
    BY <1>10, <2>1
<1>12. i \in DOMAIN JoinOrder /\ j \in DOMAIN JoinOrder
       /\ s.players[JoinOrder[i]].state = "playing" /\ s.players[JoinOrder[j]].state = "playing"
  BY <1>6 DEF playing
<1>13. JoinOrder[i] # JoinOrder[j]
  BY <1>6, <1>7, <1>12, TurnAssumption DEF IsInjective
<1> HIDE DEF seats
<1> QED
  <2>1. seats \in [1..2 -> Players]
    BY <1>2, <1>11, <1>12 DEF seats
  <2>2. NewState(s) \in Games
    BY <1>1, <2>1 DEF Games
  <2>3. NoWinner(NewState(s))
    BY <1>1, EmptyBoard
  <2> QED
    BY <1>1, <1>11, <1>12, <1>13, <2>2, <2>3 DEF Seating


\* The games of two: who sits opposite whom.
LEMMA Opponents ==
  ASSUME NEW g \in Games, g.seats[1] # g.seats[2]
  PROVE  /\ g.seats[1] \in Players /\ g.seats[2] \in Players
         /\ Seated(g) = {g.seats[1], g.seats[2]}
         /\ Opponent(g, g.seats[1]) = g.seats[2] /\ Opponent(g, g.seats[2]) = g.seats[1]
         /\ Late(g) \in Seated(g)
<1>1. g.seats \in [1..2 -> Players] /\ g.turn \in {1, 2}
  BY DEF Games
<1>2. DOMAIN g.seats = {1, 2} /\ g.seats[1] \in Players /\ g.seats[2] \in Players
  BY <1>1
<1>3. Seated(g) = {g.seats[1], g.seats[2]}
  BY <1>2 DEF Seated, ToSet
<1>4. Opponent(g, g.seats[1]) = g.seats[2] /\ Opponent(g, g.seats[2]) = g.seats[1]
  BY DEF Opponent
<1>5. Late(g) \in Seated(g)
  BY <1>1, <1>3 DEF Late
<1> QED
  BY <1>2, <1>3, <1>4, <1>5

\* Some but not both of two, and how many they are.
LEMMA OfTwo ==
  ASSUME NEW S, NEW a, NEW b, a # b, S \subseteq {a, b}
  PROVE  /\ Cardinality(S) = 2 => S = {a, b}
         /\ Cardinality(S) = 1 => S = {a} \/ S = {b}
         /\ S = {a, b} => Cardinality(S) = 2
<1>1. Cardinality({}) = 0 /\ Cardinality({a}) = 1 /\ Cardinality({b}) = 1
  BY FS_EmptySet, FS_Singleton
<1>2. Cardinality({a} \cup {b}) = 2
  <2>1. IsFiniteSet({a}) /\ b \notin {a}
    BY FS_Singleton
  <2> QED
    BY <1>1, <2>1, FS_AddElement
<1>3. {a} \cup {b} = {a, b}
  OBVIOUS
<1>4. S = {} \/ S = {a} \/ S = {b} \/ S = {a, b}
  OBVIOUS
<1> QED
  BY <1>1, <1>2, <1>3, <1>4

LEMMA ResultTypes ==
  ASSUME NEW at \in Nat
  PROVE  /\ NoResult \in Results
         /\ \A reason \in {"insufficientPlayers", "cancelledByUser"} :
              CancelledResult(reason, at) \in Results
         /\ \A reason \in {"threeInARow", "boardFull", "turnTimeout", "opponentLeft"},
               winner \in Players \cup {Nobody} : Completed(reason, winner, at) \in Results
BY DEF Results, NoResult, CancelledResult, Completed, Time, NoTime

LEMMA ResultFields ==
  ASSUME NEW reason, NEW winner, NEW at
  PROVE  /\ CancelledResult(reason, at) # NoResult /\ Completed(reason, winner, at) # NoResult
         /\ CancelledResult(reason, at).status = "cancelled"
         /\ CancelledResult(reason, at).reason = reason
         /\ CancelledResult(reason, at).winner = Nobody
         /\ CancelledResult(reason, at).endedAt = at
         /\ Completed(reason, winner, at).status = "completed"
         /\ Completed(reason, winner, at).reason = reason
         /\ Completed(reason, winner, at).winner = winner
         /\ Completed(reason, winner, at).endedAt = at
         /\ NoResult.status = "none" /\ NoResult.reason = "none"
BY DEF NoResult, CancelledResult, Completed

\* A running match, not later than T.
Running(m, T) ==
  /\ IsMatch(m) /\ Good(m.session) /\ m.session.state = "running"
  /\ m.session.updatedAt <= T

\* A proposal not later than T.
ProposedBy(m, T) == Proposed(m) /\ m.result.endedAt <= T

LEMMA SessionTimes ==
  ASSUME NEW s, Good(s), s.state = "running"
  PROVE  /\ s \in Session /\ s.updatedAt \in Nat /\ s.startedAt \in Nat /\ s.turnDeadline \in Nat
         /\ s.updatedAt # 0 /\ s.startedAt # 0
BY DEF Good, Sound, Session, Time, TimesAcceptable, NoTime

\* The game begins: two sit down, or there is no match.
LEMMA GameBegins ==
  ASSUME NEW m, NEW T \in Nat, Running(m, T), Unbegun(m)
  PROVE  LET b == Begun(m)
         IN  /\ Running(b, T) /\ b.game.board = m.game.board
             /\ \/ UnderWay(b) /\ b.session.turnDeadline = m.session.updatedAt + TurnTimeout
                \/ /\ ProposedBy(b, T) /\ b.result.reason # "turnTimeout"
                   /\ b.session.turnDeadline = NoTime
<1> DEFINE s == m.session
           b == Begun(m)
           at == LaterOf(s.startedAt, s.updatedAt)
           outcome == Start(s, at)
<1>1. Good(s) /\ s \in Session /\ s.updatedAt \in Nat /\ s.startedAt \in Nat /\ s.startedAt # 0
  BY SessionTimes DEF Running
<1>2. at = s.updatedAt
  BY <1>1 DEF Running, Unbegun, Fresh, LaterOf
<1>3. b = ApplyTurnOutcome(m, outcome, at)
  BY DEF Begun, Unbegun, Fresh
<1> HIDE DEF b, at
<1>4. CASE Len(NewState(s).seats) = 2
  <2>1. outcome = Outcome(NewState(s), at + TurnTimeout, NoResult)
    BY <1>4 DEF Start
  <2>2. outcome.game = NewState(s) /\ outcome.deadline = at + TurnTimeout /\ outcome.result = NoResult
    BY <2>1 DEF Outcome
  <2>3. outcome.deadline \in Nat /\ outcome.deadline # NoTime /\ at \in Nat /\ at >= s.updatedAt
    BY <1>1, <1>2, <2>2, TurnAssumption DEF NoTime
  <2> HIDE DEF outcome
  <2>4. /\ IsMatch(b) /\ Good(b.session) /\ b.session.state = "running"
        /\ b.game = NewState(s) /\ b.result = NoResult
        /\ b.session.turnStored = TRUE /\ b.session.turnDeadline # NoTime
        /\ b.session.turnDeadline = s.updatedAt + TurnTimeout
        /\ b.session.players = s.players /\ b.session.updatedAt = s.updatedAt
    <3>1. IsMatch(m) /\ Good(m.session) /\ m.session.state = "running" /\ at >= m.session.updatedAt
      BY <2>3 DEF Running
    <3>2. Stored(b, m, outcome, at)
      BY <1>3, <2>3, <3>1, OutcomeApplied
    <3> QED
      BY <1>2, <2>2, <2>3, <3>2 DEF Stored
  <2>5. /\ Seating(NewState(s))
        /\ \A k \in 1..2 : s.players[NewState(s).seats[k]].state = "playing"
    BY <1>1, <1>4, TwoSit
  <2>6. UnderWay(b)
    BY <2>4, <2>5 DEF UnderWay, Playable
  <2>7. b.game.board = m.game.board
    BY <2>4 DEF NewState, NoGame, Unbegun
  <2>8. Running(b, T)
    BY <2>4 DEF Running
  <2> QED
    BY <2>4, <2>6, <2>7, <2>8 DEF b
<1>5. CASE Len(NewState(s).seats) # 2
  <2> DEFINE r == CancelledResult("insufficientPlayers", at)
  <2>1. outcome = Outcome(NewState(s), NoTime, r)
    BY <1>5 DEF Start
  <2>2. outcome.game = NewState(s) /\ outcome.deadline = NoTime /\ outcome.result = r
    BY <2>1 DEF Outcome
  <2>3. outcome.deadline \in Nat /\ at \in Nat /\ at >= s.updatedAt
    BY <1>1, <1>2, <2>2 DEF NoTime
  <2>a. r # NoResult
    BY ResultFields
  <2> HIDE DEF outcome
  <2>4. /\ IsMatch(b) /\ Good(b.session) /\ b.session.state = "running"
        /\ b.game = NewState(s) /\ b.result = r
        /\ b.session.turnDeadline = NoTime /\ b.session.startedAt = s.startedAt
        /\ b.session.updatedAt = s.updatedAt
    <3>1. IsMatch(m) /\ Good(m.session) /\ m.session.state = "running" /\ at >= m.session.updatedAt
      BY <2>3 DEF Running
    <3>2. Stored(b, m, outcome, at)
      BY <1>3, <2>3, <3>1, OutcomeApplied
    <3> QED
      BY <1>2, <2>2, <2>a, <3>2 DEF Stored
  <2>5. b.game.board = [c \in Cells |-> Nobody] /\ b.game.board = m.game.board
    BY <2>4 DEF NewState, NoGame, Unbegun
  <2>6. NoWinner(b.game)
    BY <2>5, EmptyBoard
  <2>7. /\ r \in Results /\ r.status = "cancelled" /\ r.reason = "insufficientPlayers"
        /\ r.winner = Nobody /\ r.endedAt = s.updatedAt
    BY <1>1, <1>2, ResultTypes, ResultFields
  <2> HIDE DEF r
  <2>8. Proposed(b)
    BY <1>1, <2>4, <2>6, <2>7 DEF Proposed, NoTime
  <2>9. ProposedBy(b, T) /\ b.result.reason # "turnTimeout" /\ Running(b, T)
    BY <2>4, <2>7, <2>8 DEF ProposedBy, Running
  <2> QED
    BY <2>4, <2>5, <2>9 DEF b
<1> QED
  BY <1>4, <1>5

\* What settle makes of a running match m at time at: n plays on, or a result
\* is proposed; a turn is forfeited only when its deadline has passed.
Settled(n, m, at, T) ==
  LET due == Begun(m).session.turnDeadline
  IN  /\ Running(n, T) /\ n.game = Begun(m).game /\ n.game.board = m.game.board
      /\ \/ UnderWay(n) /\ n.session.turnDeadline = due /\ at < due
         \/ /\ ProposedBy(n, T)
            /\ n.result.reason = "turnTimeout" => at >= due /\ due # NoTime

\* The game of a running match has begun after Begun, or there is no match.
LEMMA BegunIs ==
  ASSUME NEW m, NEW T \in Nat, Running(m, T), Unbegun(m) \/ Leaving(m)
  PROVE  /\ Running(Begun(m), T) /\ Begun(m).game.board = m.game.board
         /\ \/ Leaving(Begun(m))
            \/ /\ ProposedBy(Begun(m), T) /\ Begun(m).result.reason # "turnTimeout"
               /\ Begun(m).session.turnDeadline = NoTime
<1>1. CASE Unbegun(m)
  <2>1. UnderWay(Begun(m)) => Leaving(Begun(m))
    BY DEF UnderWay, Leaving, Playable
  <2> QED
    BY <1>1, <2>1, GameBegins
<1>2. CASE Leaving(m)
  <2>1. Begun(m) = m
    BY <1>2 DEF Begun, Leaving, Playable
  <2> QED
    BY <1>2, <2>1
<1> QED
  BY <1>1, <1>2

\* A turn that ran out is lost for who was late.
LEMMA ExpireProposes ==
  ASSUME NEW b, NEW T \in Nat, Running(b, T), Leaving(b), NEW at, at \in Nat,
         at >= b.session.updatedAt, at <= T
  PROVE  LET n == ApplyTurnOutcome(b, Expire(b.game, at), at)
         IN  /\ Running(n, T) /\ n.game = b.game
             /\ ProposedBy(n, T)
<1> DEFINE outcome == Expire(b.game, at)
           winner == Opponent(b.game, Late(b.game))
           r == Completed("turnTimeout", winner, at)
           n == ApplyTurnOutcome(b, outcome, at)
<1>1. outcome.game = b.game /\ outcome.deadline = NoTime /\ outcome.result = r
  BY DEF Expire, Outcome
<1>2. /\ r # NoResult /\ r.status = "completed" /\ r.reason = "turnTimeout"
      /\ r.winner = winner /\ r.endedAt = at
  BY ResultFields
<1>3. b.game \in Games /\ b.game.seats[1] # b.game.seats[2] /\ NoWinner(b.game)
  BY DEF Leaving, Playable, Seating
<1>4. winner \in Players
  <2>1. Late(b.game) \in {b.game.seats[1], b.game.seats[2]}
    BY <1>3, Opponents
  <2> QED
    BY <1>3, <2>1, Opponents
<1>5. r \in Results
  BY <1>4, ResultTypes
<1> HIDE DEF outcome, r, winner
<1>6. Stored(n, b, outcome, at)
  <2>1. outcome.deadline \in Nat
    BY <1>1 DEF NoTime
  <2>2. IsMatch(b) /\ Good(b.session) /\ b.session.state = "running"
    BY DEF Running
  <2> QED
    BY <2>1, <2>2, OutcomeApplied
<1> HIDE DEF n
<1>7. b.session.updatedAt \in Nat /\ b.session.startedAt # 0 /\ b.session.updatedAt <= T
  BY SessionTimes DEF Running
<1>8. /\ n.game = b.game /\ n.result = r /\ n.session.startedAt # 0
      /\ n.session.updatedAt <= at /\ n.session.state = "running"
      /\ IsMatch(n) /\ Good(n.session)
  BY <1>1, <1>6, <1>7 DEF Stored
<1>9. Running(n, T)
  <2>1. n.session.updatedAt \in Nat
    BY <1>8, SessionTimes
  <2> QED
    BY <1>8, <2>1 DEF Running
<1>10. Proposed(n)
  BY <1>2, <1>3, <1>5, <1>8 DEF Proposed, NoTime, winner
<1> QED
  BY <1>2, <1>8, <1>9, <1>10 DEF ProposedBy, n, outcome

\* Who is still at the board: both, one of them, or nobody.
LEMMA WhoStays ==
  ASSUME NEW b, Leaving(b)
  PROVE  LET staying == {p \in Seated(b.game) : b.session.players[p].state = "playing"}
         IN  /\ Cardinality(staying) = 2 => UnderWay(b)
             /\ Cardinality(staying) = 1 =>
                  LET p == CHOOSE q \in staying : TRUE
                  IN  /\ p \in Players /\ b.session.players[p].state = "playing"
                      /\ Opponent(b.game, p) \in Players
                      /\ b.session.players[Opponent(b.game, p)].state = "left"
<1> DEFINE x == b.game.seats[1]
           y == b.game.seats[2]
           staying == {p \in Seated(b.game) : b.session.players[p].state = "playing"}
<1>1. b.game \in Games /\ x # y
  BY DEF Leaving, Playable, Seating
<1>2. /\ x \in Players /\ y \in Players /\ Seated(b.game) = {x, y}
      /\ Opponent(b.game, x) = y /\ Opponent(b.game, y) = x
  BY <1>1, Opponents
<1>3. b.session.players[x].state \in {"playing", "left"} /\ b.session.players[y].state \in {"playing", "left"}
  <2>1. 1 \in 1..2 /\ 2 \in 1..2
    OBVIOUS
  <2> QED
    BY <2>1 DEF Leaving, Playable
<1>4. staying \in SUBSET {x, y}
  BY <1>2
<1>5. /\ Cardinality(staying) = 2 => staying = {x, y}
      /\ Cardinality(staying) = 1 => staying = {x} \/ staying = {y}
  <2> HIDE DEF staying, x, y
  <2>1. x # y
    BY <1>1
  <2>2. staying \subseteq {x, y}
    BY <1>4
  <2> QED
    BY <2>1, <2>2, OfTwo, Zenon
<1>6. ASSUME Cardinality(staying) = 2
      PROVE  UnderWay(b)
  <2>1. x \in staying /\ y \in staying
    BY <1>5, <1>6
  <2>2. b.session.players[x].state = "playing" /\ b.session.players[y].state = "playing"
    BY <2>1
  <2>3. \A k \in 1..2 : k = 1 \/ k = 2
    OBVIOUS
  <2>4. \A k \in 1..2 : b.session.players[b.game.seats[k]].state \in {"playing"}
    BY <2>2, <2>3
  <2> QED
    BY <2>4 DEF Leaving, UnderWay, Playable
<1>7. ASSUME Cardinality(staying) = 1
      PROVE  LET p == CHOOSE q \in staying : TRUE
             IN  /\ p \in Players /\ b.session.players[p].state = "playing"
                 /\ Opponent(b.game, p) \in Players
                 /\ b.session.players[Opponent(b.game, p)].state = "left"
  <2>1. CASE staying = {x}
    <3>1. (CHOOSE q \in staying : TRUE) = x
      BY <2>1
    <3>2. x \in staying /\ y \notin staying
      BY <1>1, <2>1
    <3>3. b.session.players[x].state = "playing" /\ b.session.players[y].state # "playing"
      BY <1>2, <3>2
    <3> QED
      BY <1>2, <1>3, <3>1, <3>3
  <2>2. CASE staying = {y}
    <3>1. (CHOOSE q \in staying : TRUE) = y
      BY <2>2
    <3>2. y \in staying /\ x \notin staying
      BY <1>1, <2>2
    <3>3. b.session.players[y].state = "playing" /\ b.session.players[x].state # "playing"
      BY <1>2, <3>2
    <3> QED
      BY <1>2, <1>3, <3>1, <3>3
  <2> QED
    BY <1>5, <1>7, <2>1, <2>2
<1> QED
  BY <1>6, <1>7

\* The match goes on with both, or to the one who stayed, or to nobody.
LEMMA ReconcileTurnIs ==
  ASSUME NEW b, NEW T \in Nat, Running(b, T), Leaving(b), NEW at, at \in Nat,
         at >= b.session.updatedAt, at <= T
  PROVE  LET n == ApplyTurnOutcome(b, ReconcileTurn(b.session, b.game, at), at)
         IN  /\ Running(n, T) /\ n.game = b.game
             /\ \/ UnderWay(n) /\ n.session.turnDeadline = b.session.turnDeadline
                \/ ProposedBy(n, T) /\ n.result.reason # "turnTimeout"
<1> DEFINE outcome == ReconcileTurn(b.session, b.game, at)
           staying == {p \in Seated(b.game) : b.session.players[p].state = "playing"}
           n == ApplyTurnOutcome(b, outcome, at)
<1>1. /\ b.session.updatedAt \in Nat /\ b.session.startedAt # 0 /\ b.session.updatedAt <= T
      /\ b.session.turnDeadline \in Nat
  BY SessionTimes DEF Running
<1>2. NoWinner(b.game) /\ Seating(b.game) /\ b.session.turnDeadline # NoTime
  BY DEF Leaving, Playable, Seating
<1>3. ASSUME outcome.deadline \in Nat, outcome.game = b.game
      PROVE  Stored(n, b, outcome, at) /\ Running(n, T) /\ n.session.updatedAt <= at
             /\ n.session.startedAt # 0
  <2> HIDE DEF outcome
  <2>1. IsMatch(b) /\ Good(b.session) /\ b.session.state = "running"
    BY DEF Running
  <2>2. Stored(n, b, outcome, at)
    BY <1>3, <2>1, OutcomeApplied
  <2> HIDE DEF n
  <2>3. /\ IsMatch(n) /\ Good(n.session) /\ n.session.state = "running"
        /\ n.session.updatedAt \in {at, b.session.updatedAt}
        /\ n.session.startedAt = b.session.startedAt
    BY <2>2 DEF Stored
  <2>4. n.session.updatedAt <= at /\ n.session.updatedAt <= T
    BY <1>1, <2>3
  <2> QED
    BY <1>1, <2>2, <2>3, <2>4 DEF Running
<1>4. CASE Cardinality(staying) = 2
  <2>1. UnderWay(b)
    BY <1>4, WhoStays
  <2>2. outcome = Outcome(b.game, b.session.turnDeadline, NoResult)
    BY <1>4 DEF ReconcileTurn
  <2>3. outcome.game = b.game /\ outcome.deadline = b.session.turnDeadline /\ outcome.result = NoResult
    BY <2>2 DEF Outcome
  <2> HIDE DEF outcome
  <2>4. Stored(n, b, outcome, at) /\ Running(n, T)
    BY <1>1, <1>3, <2>3
  <2> HIDE DEF n
  <2>5. /\ n.game = b.game /\ n.result = NoResult /\ n.session.turnStored = TRUE
        /\ n.session.turnDeadline = b.session.turnDeadline
        /\ n.session.players = b.session.players /\ n.session.state = "running"
    BY <2>3, <2>4 DEF Stored
  <2>6. UnderWay(n)
    BY <1>2, <2>1, <2>5 DEF UnderWay, Playable
  <2> QED
    BY <2>4, <2>5, <2>6 DEF n, outcome
<1>5. CASE Cardinality(staying) = 1
  <2> DEFINE winner == CHOOSE p \in staying : TRUE
             r == Completed("opponentLeft", winner, at)
  <2>1. /\ winner \in Players /\ b.session.players[winner].state = "playing"
        /\ Opponent(b.game, winner) \in Players
        /\ b.session.players[Opponent(b.game, winner)].state = "left"
    BY <1>5, WhoStays
  <2>2. outcome = Outcome(b.game, NoTime, r)
    BY <1>5 DEF ReconcileTurn
  <2>3. outcome.game = b.game /\ outcome.deadline = NoTime /\ outcome.result = r
    BY <2>2 DEF Outcome
  <2> HIDE DEF winner
  <2>4. /\ r # NoResult /\ r.status = "completed" /\ r.reason = "opponentLeft"
        /\ r.winner = winner /\ r.endedAt = at /\ r \in Results
    BY <2>1, ResultFields, ResultTypes
  <2> HIDE DEF r, outcome
  <2>5. Stored(n, b, outcome, at) /\ Running(n, T) /\ n.session.updatedAt <= at
        /\ n.session.startedAt # 0
    BY <1>3, <2>3 DEF NoTime
  <2> HIDE DEF n
  <2>6. /\ n.game = b.game /\ n.result = r
        /\ n.session.players = b.session.players /\ n.session.state = "running"
    BY <2>3, <2>5 DEF Stored
  <2>7. Proposed(n)
    BY <1>2, <2>1, <2>4, <2>5, <2>6 DEF Proposed, NoTime
  <2> QED
    BY <2>4, <2>5, <2>6, <2>7 DEF n, outcome, ProposedBy
<1>6. CASE Cardinality(staying) \notin {1, 2}
  <2> DEFINE r == CancelledResult("insufficientPlayers", at)
  <2>2. outcome = Outcome(b.game, NoTime, r)
    BY <1>6 DEF ReconcileTurn
  <2>3. outcome.game = b.game /\ outcome.deadline = NoTime /\ outcome.result = r
    BY <2>2 DEF Outcome
  <2>4. /\ r # NoResult /\ r.status = "cancelled" /\ r.reason = "insufficientPlayers"
        /\ r.winner = Nobody /\ r.endedAt = at
    BY ResultFields
  <2>a. r \in Results
    BY ResultTypes
  <2> HIDE DEF r, outcome
  <2>5. Stored(n, b, outcome, at) /\ Running(n, T) /\ n.session.updatedAt <= at
        /\ n.session.startedAt # 0
    BY <1>3, <2>3 DEF NoTime
  <2> HIDE DEF n
  <2>6. n.game = b.game /\ n.result = r /\ n.session.state = "running"
    BY <2>3, <2>5 DEF Stored
  <2>7. Proposed(n)
    BY <1>2, <2>4, <2>a, <2>5, <2>6 DEF Proposed, NoTime
  <2> QED
    BY <2>4, <2>5, <2>6, <2>7 DEF n, outcome, ProposedBy
<1> QED
  BY <1>4, <1>5, <1>6

LEMMA SettleIs ==
  ASSUME NEW m, NEW T \in Nat, Running(m, T), Unbegun(m) \/ Leaving(m),
         NEW time, time \in Nat, time <= T
  PROVE  Settled(Settle(m, time), m, time, T)
<1> DEFINE b == Begun(m)
           expiredAt == LaterOf(b.session.turnDeadline, b.session.updatedAt)
           at == LaterOf(time, b.session.updatedAt)
<1>1. Running(b, T) /\ b.game.board = m.game.board
  BY BegunIs
<1>2. m.session.state = "running"
  BY DEF Running
<1>3. CASE ~Leaving(b)
  <2>1. ProposedBy(b, T) /\ b.result.reason # "turnTimeout" /\ b.session.turnDeadline = NoTime
    BY <1>3, BegunIs
  <2>2. b.result # NoResult
    <3>1. b.result.status \in {"cancelled", "completed"}
      BY <2>1 DEF ProposedBy, Proposed
    <3> QED
      BY <3>1, ResultFields
  <2>3. Settle(m, time) = b
    BY <1>2, <2>2 DEF Settle
  <2> QED
    BY <1>1, <2>1, <2>3 DEF Settled
<1>4. CASE Leaving(b)
  <2>0. b.result = NoResult /\ b.session.turnDeadline # NoTime
    BY <1>4 DEF Leaving, Playable
  <2>1. b.session.updatedAt \in Nat /\ b.session.turnDeadline \in Nat /\ b.session.updatedAt <= T
    BY <1>1, SessionTimes DEF Running
  <2>2. CASE Overdue(b.session, time)
    <3>1. time >= b.session.turnDeadline
      BY <2>2 DEF Overdue
    <3>2. expiredAt \in Nat /\ expiredAt >= b.session.updatedAt /\ expiredAt <= T
      BY <2>1, <3>1 DEF LaterOf
    <3>3. Settle(m, time) = ApplyTurnOutcome(b, Expire(b.game, expiredAt), expiredAt)
      BY <1>2, <2>0, <2>2 DEF Settle
    <3> HIDE DEF b, expiredAt
    <3> DEFINE n == Settle(m, time)
    <3>4. Running(n, T) /\ n.game = b.game /\ ProposedBy(n, T)
      BY <1>1, <1>4, <3>2, <3>3, ExpireProposes
    <3> HIDE DEF n
    <3> QED
      BY <1>1, <2>0, <3>1, <3>4 DEF Settled, b, n
  <2>3. CASE ~Overdue(b.session, time)
    <3>1. time < b.session.turnDeadline
      BY <2>0, <2>1, <2>3 DEF Overdue
    <3>2. at \in Nat /\ at >= b.session.updatedAt /\ at <= T
      BY <2>1 DEF LaterOf
    <3>3. Settle(m, time) = ApplyTurnOutcome(b, ReconcileTurn(b.session, b.game, at), at)
      BY <1>2, <2>0, <2>3 DEF Settle
    <3> HIDE DEF b, at
    <3> DEFINE n == Settle(m, time)
    <3>4. /\ Running(n, T) /\ n.game = b.game
          /\ \/ UnderWay(n) /\ n.session.turnDeadline = b.session.turnDeadline
             \/ ProposedBy(n, T) /\ n.result.reason # "turnTimeout"
      BY <1>1, <1>4, <3>2, <3>3, ReconcileTurnIs
    <3> HIDE DEF n
    <3> QED
      BY <1>1, <3>1, <3>4 DEF Settled, b, n
  <2> QED
    BY <2>2, <2>3
<1> QED
  BY <1>3, <1>4

\* A match that has come to its end not later than T.
Ended(n, T) ==
  /\ IsMatch(n) /\ Good(n.session) /\ Over(n)
  /\ n.session.updatedAt <= T

LEMMA WithSession ==
  ASSUME NEW m, IsMatch(m), NEW s
  PROVE  /\ IsMatch([m EXCEPT !.session = s]) /\ [m EXCEPT !.session = s].session = s
         /\ [m EXCEPT !.session = s].game = m.game
         /\ [m EXCEPT !.session = s].result = m.result
         /\ [m EXCEPT !.session = m.session] = m
BY DEF IsMatch

\* commit: the proposed result ends the session at its own time.
LEMMA ProposalCommitted ==
  ASSUME NEW m, NEW T \in Nat, Running(m, T), ProposedBy(m, T)
  PROVE  /\ Ended(Committed(m), T)
         /\ Committed(m).game = m.game /\ Committed(m).result = m.result
<1> DEFINE s == m.session
           r == m.result
           g == m.game
           n == Committed(m)
<1>1. /\ IsMatch(m) /\ Good(s) /\ s.state = "running" /\ s \in Session
      /\ s.updatedAt \in Nat /\ s.updatedAt # 0 /\ s.startedAt # NoTime
  BY SessionTimes DEF Running, NoTime
<1>2. r.endedAt \in Nat /\ s.updatedAt <= r.endedAt /\ r.endedAt <= T /\ r.endedAt > 0
  BY <1>1 DEF ProposedBy, Proposed, Results, Time
<1>3. r.status \in {"completed", "cancelled"}
  BY DEF ProposedBy, Proposed
<1>4. r # NoResult
  BY <1>3, ResultFields
<1>5. CASE r.status = "completed"
  <2> DEFINE t == Finish(s, "gameOver", r.endedAt)
  <2>1. Good(t)
    <3>1. CanFinish(s, r.endedAt)
      BY <1>1, <1>2 DEF CanFinish, InOrder, NoTime
    <3> QED
      BY <1>1, <1>2, <3>1, FinishGood DEF EndReasons, NoReason
  <2>2. /\ t.state = "finished" /\ t.startedAt = s.startedAt
        /\ t.endedAt = r.endedAt /\ t.updatedAt = r.endedAt
        /\ \A p \in Players : t.players[p].state =
             IF s.players[p].state = "playing" THEN "finished" ELSE s.players[p].state
    BY <1>1, <1>2, FinishIs
  <2> HIDE DEF t
  <2>3. n = [m EXCEPT !.session = t]
    <3>1. n = [m EXCEPT !.session = Finish(@, "gameOver", r.endedAt)]
      BY <1>1, <1>5 DEF Committed
    <3> QED
      BY <3>1 DEF t, IsMatch
  <2>4. IsMatch(n) /\ n.session = t /\ n.game = g /\ n.result = r
    BY <1>1, <2>3, WithSession
  <2> HIDE DEF n
  <2>5. Terminal(t) /\ t.state # "cancelled"
    BY <2>2 DEF Terminal
  <2>6. /\ r # NoResult <=> Terminal(n.session) /\ n.session.startedAt # NoTime
        /\ r # NoResult => r.endedAt = n.session.endedAt
        /\ r.status = "cancelled" <=> n.session.state = "cancelled" /\ n.session.startedAt # NoTime
    BY <1>1, <1>4, <1>5, <2>2, <2>4, <2>5
  <2>7. CASE r.reason = "threeInARow"
    <3>1. Winner(g, r.winner) /\ \A p \in Players : Winner(g, p) => p = r.winner
      BY <1>5, <2>7 DEF ProposedBy, Proposed
    <3>2. Earned(n)
      BY <2>4, <2>6, <2>7, <3>1 DEF Earned
    <3> QED
      BY <1>2, <1>4, <2>1, <2>2, <2>4, <2>5, <3>2 DEF Ended, Over, n
  <2>8. CASE r.reason = "boardFull"
    <3>1. BoardFull(g) /\ NoWinner(g)
      BY <1>5, <2>8 DEF ProposedBy, Proposed
    <3>2. Earned(n)
      BY <2>4, <2>6, <2>8, <3>1 DEF Earned, NoWinner
    <3> QED
      BY <1>2, <1>4, <2>1, <2>2, <2>4, <2>5, <3>2 DEF Ended, Over, n
  <2>9. CASE r.reason = "turnTimeout"
    <3>1. r.winner = Opponent(g, Late(g)) /\ NoWinner(g)
      BY <1>5, <2>9 DEF ProposedBy, Proposed
    <3>2. Earned(n)
      BY <2>4, <2>6, <2>9, <3>1 DEF Earned, NoWinner
    <3> QED
      BY <1>2, <1>4, <2>1, <2>2, <2>4, <2>5, <3>2 DEF Ended, Over, n
  <2>10. CASE r.reason = "opponentLeft"
    <3>1. /\ NoWinner(g) /\ r.winner \in Players /\ s.players[r.winner].state = "playing"
          /\ Opponent(g, r.winner) \in Players
          /\ s.players[Opponent(g, r.winner)].state = "left"
      BY <1>5, <2>10 DEF ProposedBy, Proposed
    <3>2. t.players[r.winner].state = "finished" /\ t.players[Opponent(g, r.winner)].state = "left"
      BY <2>2, <3>1
    <3>3. Earned(n)
      BY <2>4, <2>6, <2>10, <3>1, <3>2 DEF Earned, NoWinner
    <3> QED
      BY <1>2, <1>4, <2>1, <2>2, <2>4, <2>5, <3>3 DEF Ended, Over, n
  <2> QED
    BY <1>5, <2>7, <2>8, <2>9, <2>10 DEF ProposedBy, Proposed
<1>6. CASE r.status = "cancelled"
  <2> DEFINE t == Cancelled(s, r.reason, r.endedAt)
  <2>1. /\ NoWinner(g) /\ r.reason \in {"insufficientPlayers", "cancelledByUser"}
    BY <1>6 DEF ProposedBy, Proposed
  <2>2. Good(t)
    <3>1. r.reason \in EndReasons /\ r.reason # NoReason
      BY <2>1 DEF EndReasons, NoReason
    <3>2. Sound(s)
      BY <1>1 DEF Good
    <3> QED
      BY <1>2, <3>1, <3>2, CancelledGood
  <2>3. /\ t.state = "cancelled" /\ t.startedAt = s.startedAt
        /\ t.endedAt = r.endedAt /\ t.updatedAt = r.endedAt
    BY <1>1, <1>2, CancelledEnds
  <2> HIDE DEF t
  <2>4. n = [m EXCEPT !.session = t]
    <3>1. n = [m EXCEPT !.session = Cancelled(@, r.reason, r.endedAt)]
      BY <1>1, <1>6 DEF Committed
    <3> QED
      BY <3>1 DEF t, IsMatch
  <2>5. IsMatch(n) /\ n.session = t /\ n.game = g /\ n.result = r
    BY <1>1, <2>4, WithSession
  <2> HIDE DEF n
  <2>6. Terminal(t)
    BY <2>3 DEF Terminal
  <2>7. /\ r # NoResult <=> Terminal(n.session) /\ n.session.startedAt # NoTime
        /\ r # NoResult => r.endedAt = n.session.endedAt
        /\ r.status = "cancelled" <=> n.session.state = "cancelled" /\ n.session.startedAt # NoTime
    BY <1>1, <1>4, <1>6, <2>3, <2>5, <2>6
  <2>8. Earned(n)
    BY <2>1, <2>5, <2>7 DEF Earned, NoWinner
  <2> QED
    BY <1>2, <1>4, <2>2, <2>3, <2>5, <2>6, <2>8 DEF Ended, Over, n
<1> QED
  BY <1>3, <1>5, <1>6

LEMMA NothingToCommit ==
  ASSUME NEW m, m.result = NoResult \/ m.session.state # "running"
  PROVE  Committed(m) = m
<1>1. CASE m.result = NoResult
  <2>1. m.result.status = "none"
    BY <1>1, ResultFields
  <2> QED
    BY <2>1 DEF Committed
<1>2. CASE m.session.state # "running"
  BY <1>2 DEF Committed
<1> QED
  BY <1>1, <1>2

-----------------------------------------------------------------------------
(* What a command, a deadline or an exclusion makes of a match *)

\* The match whose turn a command at the board is judged by.
Judged(m) == IF m.session.state = "running" THEN Begun(m) ELSE m

\* Nobody's mark was placed, and no turn that still ran was lost.
Honest(n, m, T) ==
  /\ Held(n, T)
  /\ n.game.board = Judged(m).game.board
  /\ n.result.reason = "turnTimeout" /\ m.result = NoResult => T >= Judged(m).session.turnDeadline

LEMMA SettledKept ==
  ASSUME NEW m, NEW T \in Nat, Running(m, T), Unbegun(m) \/ Leaving(m),
         NEW time, time \in Nat, time <= T
  PROVE  LET n == Committed(Settle(m, time))
             due == Begun(m).session.turnDeadline
         IN  /\ Held(n, T) /\ n.game.board = m.game.board
             /\ n.result.reason = "turnTimeout" => time >= due /\ due # NoTime
<1> DEFINE k == Settle(m, time)
           n == Committed(k)
           due == Begun(m).session.turnDeadline
<1>1. Settled(k, m, time, T)
  BY SettleIs
<1> HIDE DEF k
<1>2. /\ Running(k, T) /\ k.game.board = m.game.board
      /\ \/ UnderWay(k)
         \/ /\ ProposedBy(k, T)
            /\ k.result.reason = "turnTimeout" => time >= due /\ due # NoTime
  BY <1>1 DEF Settled
<1> HIDE DEF due
<1>3. CASE UnderWay(k)
  <2>1. k.result = NoResult
    BY <1>3 DEF UnderWay, Playable
  <2>2. n = k
    BY <2>1, NothingToCommit
  <2>3. n.result.reason # "turnTimeout"
    BY <2>1, <2>2, ResultFields
  <2>4. Held(k, T)
    BY <1>2, <1>3 DEF Held, MatchInv, Running
  <2> QED
    BY <1>2, <2>2, <2>3, <2>4 DEF k, due
<1>4. CASE /\ ProposedBy(k, T)
           /\ k.result.reason = "turnTimeout" => time >= due /\ due # NoTime
  <2>1. Ended(n, T) /\ n.game = k.game /\ n.result = k.result
    BY <1>2, <1>4, ProposalCommitted
  <2> HIDE DEF n
  <2>2. Held(n, T)
    BY <2>1 DEF Held, MatchInv, Ended
  <2> QED
    BY <1>2, <1>4, <2>1, <2>2 DEF n, k, due
<1> QED
  BY <1>2, <1>3, <1>4

\* A match that has not begun is due one turn after its last change.
LEMMA BegunDue ==
  ASSUME NEW m, NEW T \in Nat, Running(m, T), Unbegun(m)
  PROVE  Begun(m).session.turnDeadline \in {NoTime, m.session.updatedAt + TurnTimeout}
BY GameBegins

\* The players of a running match may leave; nothing else changes.
LeftBehind(s, t) ==
  /\ s.state = "running" /\ t.state = "running"
  /\ t.startedAt = s.startedAt /\ t.turnStored = s.turnStored
  /\ t.turnDeadline = s.turnDeadline /\ t.updatedAt >= s.updatedAt
  /\ \A p \in Players : t.players[p].state \in {s.players[p].state, "left"}

LEMMA RunningMatch ==
  ASSUME NEW m, MatchInv(m), NEW T \in Nat, m.session.state = "running", m.session.updatedAt <= T
  PROVE  Running(m, T) /\ (Unbegun(m) \/ UnderWay(m))
BY DEF MatchInv, Over, Terminal, Running

LEMMA DepartureHonest ==
  ASSUME NEW m, NEW T \in Nat, Held(m, T), NEW s, Good(s), LeftBehind(m.session, s),
         s.updatedAt <= T, NEW time, time \in Nat, time <= T
  PROVE  Honest(Committed(Settle([m EXCEPT !.session = s], time)), m, T)
<1> DEFINE k == [m EXCEPT !.session = s]
           n == Committed(Settle(k, time))
<1>1. Running(m, T) /\ (Unbegun(m) \/ UnderWay(m))
  BY RunningMatch DEF Held, LeftBehind
<1>2. IsMatch(k) /\ k.session = s /\ k.game = m.game /\ k.result = m.result
  BY <1>1, WithSession DEF Running
<1> HIDE DEF k
<1>3. Running(k, T)
  BY <1>2 DEF Running, LeftBehind
<1>4. m.session.updatedAt \in Nat /\ m.session.startedAt \in Nat /\ s.updatedAt \in Nat
      /\ s.startedAt \in Nat
  <2>1. Good(m.session) /\ m.session.state = "running" /\ s.state = "running"
    BY <1>1 DEF Running, LeftBehind
  <2> QED
    BY <2>1, SessionTimes
<1>5. Unbegun(m) => Unbegun(k)
  BY <1>2, <1>4 DEF Unbegun, Fresh, LeftBehind
<1>6. UnderWay(m) => Leaving(k)
  <2> SUFFICES ASSUME UnderWay(m) PROVE Leaving(k)
    OBVIOUS
  <2>1. /\ m.session.turnStored = TRUE /\ m.session.turnDeadline # NoTime
        /\ m.result = NoResult /\ Seating(m.game)
        /\ \A i \in 1..2 : m.session.players[m.game.seats[i]].state = "playing"
    BY DEF UnderWay, Playable
  <2>2. \A i \in 1..2 : m.game.seats[i] \in Players
    BY <2>1 DEF Seating, Games
  <2>3. \A i \in 1..2 : s.players[m.game.seats[i]].state \in {"playing", "left"}
    BY <2>1, <2>2 DEF LeftBehind
  <2> QED
    BY <1>2, <2>1, <2>3 DEF Leaving, Playable, LeftBehind
<1> DEFINE due == Begun(k).session.turnDeadline
<1>7. /\ Held(n, T) /\ n.game.board = k.game.board
      /\ n.result.reason = "turnTimeout" => time >= due /\ due # NoTime
  BY <1>1, <1>3, <1>5, <1>6, SettledKept
<1>8. Begun(m).game.board = m.game.board
  <2>1. Unbegun(m) \/ Leaving(m)
    BY <1>1 DEF UnderWay, Leaving, Playable
  <2> QED
    BY <1>1, <2>1, BegunIs
<1>9. due # NoTime => due >= Begun(m).session.turnDeadline
  <2>1. CASE Unbegun(m)
    <3>1. Begun(m).session.turnDeadline \in {NoTime, m.session.updatedAt + TurnTimeout}
      BY <1>1, <2>1, BegunDue
    <3>2. due \in {NoTime, s.updatedAt + TurnTimeout}
      BY <1>2, <1>3, <1>5, <2>1, BegunDue
    <3>3. TurnTimeout \in Nat
      BY TurnAssumption
    <3>4. s.updatedAt >= m.session.updatedAt
      BY DEF LeftBehind
    <3> HIDE DEF due
    <3> QED
      BY <1>4, <3>1, <3>2, <3>3, <3>4 DEF NoTime
  <2>2. CASE UnderWay(m)
    <3>1. Begun(m) = m /\ Begun(k) = k
      BY <1>2, <2>2 DEF Begun, UnderWay, Playable, LeftBehind
    <3>2. due = m.session.turnDeadline
      BY <1>2, <3>1 DEF LeftBehind
    <3>3. m.session.turnDeadline \in Nat
      BY <1>1, SessionTimes DEF Running
    <3> QED
      BY <3>1, <3>2, <3>3
  <2> QED
    BY <1>1, <2>1, <2>2
<1>10. Judged(m) = Begun(m)
  BY <1>1 DEF Judged, Running
<1>11. Begun(m).session.turnDeadline \in Nat /\ due \in Nat
  <2>1. Running(Begun(m), T) /\ Running(Begun(k), T)
    BY <1>1, <1>3, <1>5, <1>6, BegunIs DEF UnderWay, Leaving, Playable
  <2> QED
    BY <2>1, SessionTimes DEF Running
<1> HIDE DEF due, n
<1>12. n.game.board = Judged(m).game.board
  BY <1>2, <1>7, <1>8, <1>10
<1>13. n.result.reason = "turnTimeout" => T >= Judged(m).session.turnDeadline
  BY <1>7, <1>9, <1>10, <1>11
<1> QED
  BY <1>7, <1>12, <1>13 DEF Honest, n, k

LEMMA SessionTime ==
  ASSUME NEW s, Good(s)
  PROVE  s \in Session /\ Sound(s) /\ s.updatedAt \in Nat /\ s.updatedAt # 0
BY DEF Good, Sound, Session, Time, TimesAcceptable, NoTime

\* Before the match a change of the session may begin it.
LEMMA BeforeHonest ==
  ASSUME NEW m, NEW T \in Nat, Held(m, T), m.session.state # "running", ~Terminal(m.session),
         NEW s, Good(s), FreshBy(s, T), NEW time, time \in Nat, time <= T
  PROVE  Honest(Committed(Settle([m EXCEPT !.session = s], time)), m, T)
<1> DEFINE k == [m EXCEPT !.session = s]
           n == Committed(Settle(k, time))
<1>1. IsMatch(m) /\ Unbegun(m)
  BY DEF Held, MatchInv, UnderWay, Playable, Over
<1>2. IsMatch(k) /\ k.session = s /\ k.game = m.game /\ k.result = m.result
  BY <1>1, WithSession
<1> HIDE DEF k
<1>3. Unbegun(k)
  BY <1>1, <1>2 DEF Unbegun, FreshBy
<1>4. /\ Judged(m) = m /\ m.session.turnDeadline = NoTime
  BY <1>1 DEF Judged, Unbegun, Fresh
<1>5. CASE s.state = "running"
  <2>1. Running(k, T)
    BY <1>2, <1>5 DEF Running, FreshBy
  <2>2. Held(n, T) /\ n.game.board = k.game.board
    BY <1>3, <2>1, SettledKept
  <2> HIDE DEF n
  <2> QED
    BY <1>2, <1>4, <2>2 DEF Honest, NoTime, n, k
<1>6. CASE s.state # "running"
  <2>1. Settle(k, time) = k
    BY <1>2, <1>6 DEF Settle
  <2>2. n = k
    BY <1>2, <1>6, <2>1, NothingToCommit
  <2>3. Held(k, T)
    BY <1>2, <1>3 DEF Held, MatchInv, FreshBy
  <2> HIDE DEF n
  <2>4. Held(n, T) /\ n.game.board = m.game.board /\ T >= NoTime
    BY <1>2, <2>2, <2>3 DEF NoTime
  <2> QED
    BY <1>4, <2>4 DEF Honest, n, k
<1> QED
  BY <1>5, <1>6

LEMMA SameHonest ==
  ASSUME NEW m, NEW T \in Nat, Held(m, T), m.session.state # "running"
  PROVE  Honest(m, m, T)
<1>1. Judged(m) = m
  BY DEF Judged
<1>2. ~(m.result.reason = "turnTimeout" /\ m.result = NoResult)
  BY ResultFields
<1> QED
  BY <1>1, <1>2 DEF Honest

\* A command that leaves the session alone still settles the match.
LEMMA UnchangedHonest ==
  ASSUME NEW m, NEW T \in Nat, Held(m, T), NEW time, time \in Nat, time <= T
  PROVE  Honest(Committed(Settle([m EXCEPT !.session = m.session], time)), m, T)
<1>1. Good(m.session) /\ IsMatch(m) /\ m.session.updatedAt <= T
  BY DEF Held, MatchInv
<1>2. m.session.updatedAt \in Nat
  BY <1>1, SessionTime
<1>3. CASE m.session.state = "running"
  <2>1. LeftBehind(m.session, m.session)
    BY <1>2, <1>3 DEF LeftBehind
  <2> QED
    BY <1>1, <2>1, DepartureHonest
<1>4. CASE m.session.state # "running"
  <2>1. [m EXCEPT !.session = m.session] = m
    BY <1>1, WithSession
  <2>2. Settle(m, time) = m /\ Committed(m) = m
    BY <1>4, NothingToCommit DEF Settle
  <2>3. Honest(m, m, T)
    BY <1>4, SameHonest
  <2> QED
    BY <2>1, <2>2, <2>3
<1> QED
  BY <1>3, <1>4

\* Players leave, whether or not the match has begun.
LEMMA GoneHonest ==
  ASSUME NEW m, NEW T \in Nat, Held(m, T), ~Terminal(m.session), NEW P, NEW i \in Nat,
         NEW at \in Nat, at >= m.session.updatedAt, at <= T, NEW s, Good(s),
         s = Gone(m.session, P, i, at),
         NEW time, time \in Nat, time <= T
  PROVE  Honest(Committed(Settle([m EXCEPT !.session = s], time)), m, T)
<1>1. Good(m.session) /\ IsMatch(m) /\ m.session.updatedAt <= T
  BY DEF Held, MatchInv
<1>2. CASE m.session.state = "running"
  <2>1. /\ s.state = "running" /\ s.updatedAt = at /\ s.startedAt = m.session.startedAt
        /\ s.turnStored = m.session.turnStored /\ s.turnDeadline = m.session.turnDeadline
        /\ \A p \in Players : s.players[p].state \in {m.session.players[p].state, "left"}
    BY <1>1, <1>2, DepartureRunning
  <2>2. LeftBehind(m.session, s)
    BY <1>2, <2>1 DEF LeftBehind
  <2> QED
    BY <2>1, <2>2, DepartureHonest
<1>3. CASE m.session.state # "running"
  <2>1. Fresh(m.session)
    BY <1>3 DEF Held, MatchInv, UnderWay, Playable, Over, Unbegun
  <2> DEFINE S == m.session
             players == Departed(S.players, P, at)
  <2>2. s = WithoutEnoughReady(Recorded([S EXCEPT !.players = players], i, at), at)
    <3>1. S \in Session
      BY <1>1, SessionTime
    <3>2. [S EXCEPT !.players = players] = [S EXCEPT !.players = Departed(@, P, at)]
      BY <3>1 DEF Session
    <3> QED
      BY <3>2 DEF Gone
  <2> HIDE DEF players
  <2>3. FreshBy(s, at)
    BY <1>1, <2>1, <2>2, DepartureFresh
  <2>4. FreshBy(s, T)
    BY <2>3, FreshLater
  <2> QED
    BY <1>3, <2>4, BeforeHonest
<1> QED
  BY <1>2, <1>3

LEMMA LeaveMatchHonest ==
  ASSUME NEW m, NEW T \in Nat, Held(m, T), NEW p \in Players, CanLeaveMatch(m, p, T)
  PROVE  Honest(LeaveMatch(m, p, T), m, T)
<1>1. Good(m.session) /\ T >= m.session.updatedAt /\ ~Terminal(m.session) /\ T > 0
  BY DEF Held, MatchInv, CanLeaveMatch, InOrder, NoTime
<1>2. CASE p \in Current(m.session)
  <2> DEFINE s == LeavePlayer(m.session, p, T)
  <2>1. Good(s)
    <3>1. CanLeave(m.session, p, T)
      BY <1>2 DEF CanLeave, CanLeaveMatch
    <3> QED
      BY <1>1, <3>1, LeavePlayerGood
  <2>2. s = Gone(m.session, {p}, 1, T)
    BY DEF LeavePlayer, Gone
  <2> HIDE DEF s
  <2>3. Honest(Committed(Settle([m EXCEPT !.session = s], T)), m, T)
    BY <1>1, <2>1, <2>2, GoneHonest
  <2> QED
    BY <1>2, <2>3 DEF LeaveMatch, s
<1>3. CASE p \notin Current(m.session)
  <2>1. Honest(Committed(Settle([m EXCEPT !.session = m.session], T)), m, T)
    BY UnchangedHonest
  <2> QED
    BY <1>3, <2>1 DEF LeaveMatch
<1> QED
  BY <1>2, <1>3

LEMMA ExcludeMatchHonest ==
  ASSUME NEW m, NEW T \in Nat, Held(m, T), NEW P \in SUBSET Players,
         NEW at, at \in Nat, at <= T
  PROVE  Honest(ExcludeMatch(m, P, at), m, T)
<1> DEFINE then == LaterOf(at, m.session.updatedAt)
<1>1. Good(m.session) /\ m.session.updatedAt \in Nat /\ m.session.updatedAt <= T
  BY SessionTime DEF Held, MatchInv
<1>2. then \in Nat /\ then <= T /\ then >= m.session.updatedAt
  BY <1>1 DEF LaterOf
<1> HIDE DEF then
<1>3. CASE CanExclude(m.session, P, then)
  <2> DEFINE s == ExcludePlayers(m.session, P, then)
             removed == P \cap Current(m.session)
             i == Cardinality(removed)
  <2>1. Good(s)
    BY <1>1, <1>2, <1>3, ExcludePlayersGood
  <2>2. s = Gone(m.session, removed, i, then)
    BY DEF ExcludePlayers, Gone
  <2>3. i \in Nat
    BY PlayersAssumption, FS_Subset, FS_CardinalityType DEF Current, InState
  <2>4. ~Terminal(m.session)
    BY <1>3 DEF CanExclude
  <2> HIDE DEF s, removed, i
  <2>5. Honest(Committed(Settle([m EXCEPT !.session = s], then)), m, T)
    BY <1>1, <1>2, <2>1, <2>2, <2>3, <2>4, GoneHonest
  <2> QED
    BY <1>3, <2>5 DEF ExcludeMatch, s, then
<1>4. CASE ~CanExclude(m.session, P, then)
  <2>1. Honest(Committed(Settle([m EXCEPT !.session = m.session], then)), m, T)
    BY <1>2, UnchangedHonest
  <2> QED
    BY <1>4, <2>1 DEF ExcludeMatch, then
<1> QED
  BY <1>3, <1>4

LEMMA AdvanceMatchHonest ==
  ASSUME NEW m, NEW T \in Nat, Held(m, T), NEW deadline, deadline \in Nat, deadline <= T,
         CanAdvanceMatch(m, deadline)
  PROVE  Honest(AdvanceMatch(m, deadline), m, T)
<1>1. Good(m.session) /\ m.session.updatedAt \in Nat /\ m.session.updatedAt <= T
  BY SessionTime DEF Held, MatchInv
<1>2. CASE m.session.state = "running"
  BY <1>2, UnchangedHonest DEF AdvanceMatch
<1>3. CASE m.session.state # "running"
  <2> DEFINE s == AdvanceDeadlines(m.session, deadline)
  <2>1. ~Terminal(m.session)
    BY <1>3 DEF CanAdvanceMatch, CanAdvance
  <2>2. FreshBy(m.session, T)
    BY <1>1, <1>3, <2>1 DEF Held, MatchInv, UnderWay, Playable, Over, Unbegun, FreshBy
  <2>3. Good(s) /\ FreshBy(s, T)
    BY <1>1, <2>2, AdvanceDeadlinesGood, AdvanceDeadlinesFresh
  <2> HIDE DEF s
  <2>4. Honest(Committed(Settle([m EXCEPT !.session = s], deadline)), m, T)
    BY <1>3, <2>1, <2>3, BeforeHonest
  <2> QED
    BY <1>3, <2>4 DEF AdvanceMatch, s
<1> QED
  BY <1>2, <1>3

LEMMA CancelMatchHonest ==
  ASSUME NEW m, NEW T \in Nat, Held(m, T), CanCancelMatch(m, T)
  PROVE  Honest(CancelMatch(m, T), m, T)
<1> DEFINE at == LaterOf(T, m.session.updatedAt)
<1>1. Good(m.session) /\ IsMatch(m) /\ m.session.updatedAt \in Nat /\ m.session.updatedAt <= T
  BY SessionTime DEF Held, MatchInv
<1>2. at = T
  BY <1>1 DEF LaterOf
<1> HIDE DEF at
<1>3. CASE m.session.state = "running"
  <2> DEFINE r == CancelledResult("cancelledByUser", T)
             k == [m EXCEPT !.result = r]
             n == Committed(k)
  <2>1. Running(m, T) /\ (Unbegun(m) \/ UnderWay(m))
    BY <1>1, <1>3, RunningMatch DEF Held
  <2>2. NoWinner(m.game)
    <3>1. CASE Unbegun(m)
      BY <3>1, NothingBegun, EmptyBoard DEF Unbegun
    <3>2. CASE UnderWay(m)
      BY <3>2 DEF UnderWay, Playable, Seating
    <3> QED
      BY <2>1, <3>1, <3>2
  <2>3. CancelMatch(m, T) = n
    BY <1>2, <1>3 DEF CancelMatch, at
  <2>4. /\ r # NoResult /\ r.status = "cancelled" /\ r.reason = "cancelledByUser"
        /\ r.winner = Nobody /\ r.endedAt = T
    BY ResultFields
  <2>5. r \in Results
    BY ResultTypes
  <2> HIDE DEF r
  <2>6. IsMatch(k) /\ k.session = m.session /\ k.game = m.game /\ k.result = r
    BY <1>1 DEF IsMatch
  <2> HIDE DEF k
  <2>7. Running(k, T) /\ ProposedBy(k, T)
    <3>1. m.session.startedAt # NoTime
      BY <1>1, <1>3, SessionTimes DEF NoTime
    <3>2. Running(k, T)
      BY <1>1, <1>3, <2>6 DEF Running
    <3>3. Proposed(k)
      BY <1>1, <1>3, <2>2, <2>4, <2>5, <2>6, <3>1 DEF Proposed
    <3> QED
      BY <2>4, <2>6, <3>2, <3>3 DEF ProposedBy
  <2>8. Ended(n, T) /\ n.game = m.game /\ n.result = r
    BY <2>6, <2>7, ProposalCommitted
  <2> HIDE DEF n
  <2>9. Held(n, T)
    BY <2>8 DEF Held, MatchInv, Ended
  <2>10. Judged(m).game.board = m.game.board
    <3>1. Unbegun(m) \/ Leaving(m)
      BY <2>1 DEF UnderWay, Leaving, Playable
    <3> QED
      BY <1>3, <2>1, <3>1, BegunIs DEF Judged
  <2> QED
    BY <2>3, <2>4, <2>8, <2>9, <2>10 DEF Honest
<1>4. CASE m.session.state # "running"
  <2> DEFINE s == Cancelled(m.session, "cancelledByUser", T)
             n == CancelMatch(m, T)
  <2>1. CanCancel(m.session, T)
    BY <1>4 DEF CanCancelMatch
  <2>2. T > 0 /\ ~Terminal(m.session)
    BY <2>1 DEF CanCancel, InOrder, NoTime
  <2>3. Unbegun(m)
    BY <1>4, <2>2 DEF Held, MatchInv, UnderWay, Playable, Over
  <2>4. Good(s)
    <3>1. "cancelledByUser" \in EndReasons /\ "cancelledByUser" # NoReason
      BY DEF EndReasons, NoReason
    <3>2. Sound(m.session)
      BY <1>1, SessionTime
    <3> QED
      BY <2>2, <3>1, <3>2, CancelledGood
  <2>5. FreshBy(s, T)
    <3>1. m.session \in Session /\ Fresh(m.session)
      BY <1>1, <2>3, SessionTime DEF Unbegun
    <3> QED
      BY <1>4, <3>1, CancelledFresh
  <2> HIDE DEF s
  <2>6. n = [m EXCEPT !.session = s]
    <3>1. n = [m EXCEPT !.session = Cancelled(@, "cancelledByUser", T)]
      BY <1>4 DEF CancelMatch
    <3> QED
      BY <1>1, <3>1 DEF IsMatch, s
  <2>7. IsMatch(n) /\ n.session = s /\ n.game = m.game /\ n.result = m.result
    BY <1>1, <2>6, WithSession
  <2> HIDE DEF n
  <2>8. Unbegun(n) /\ Held(n, T)
    BY <2>3, <2>4, <2>5, <2>7 DEF Unbegun, Held, MatchInv, FreshBy
  <2>9. Judged(m) = m /\ n.result.reason # "turnTimeout"
    BY <1>4, <2>8, ResultFields DEF Judged, Unbegun
  <2> QED
    BY <2>7, <2>8, <2>9 DEF Honest, n
<1> QED
  BY <1>3, <1>4

LEMMA ReadyUpHonest ==
  ASSUME NEW m, NEW T \in Nat, Held(m, T), NEW p \in Players, NEW ready \in BOOLEAN,
         CanReadyUp(m, p, T)
  PROVE  Honest(ReadyUp(m, p, ready, T), m, T)
<1>1. Good(m.session) /\ IsMatch(m)
  BY DEF Held, MatchInv
<1>2. m.session.state \in {"lobby", "readyWindow"}
  BY DEF CanReadyUp, AcceptsPlayers
<1>3. Unbegun(m)
  BY <1>2 DEF Held, MatchInv, UnderWay, Playable, Over, Terminal
<1>4. CASE CanSetReady(m.session, p, ready, T)
  <2> DEFINE s == SetReady(m.session, p, ready, T)
             n == ReadyUp(m, p, ready, T)
  <2>1. Good(s) /\ FreshBy(s, T)
    BY <1>1, <1>3, <1>4, SetReadyGood, SetReadyFresh DEF Unbegun
  <2> HIDE DEF s
  <2>2. n = [m EXCEPT !.session = s]
    <3>1. n = [m EXCEPT !.session = SetReady(@, p, ready, T)]
      BY <1>4 DEF ReadyUp
    <3> QED
      BY <1>1, <3>1 DEF IsMatch, s
  <2>3. IsMatch(n) /\ n.session = s /\ n.game = m.game /\ n.result = m.result
    BY <1>1, <2>2, WithSession
  <2> HIDE DEF n
  <2>4. Unbegun(n) /\ Held(n, T)
    BY <1>3, <2>1, <2>3 DEF Unbegun, Held, MatchInv, FreshBy
  <2>5. Judged(m) = m /\ n.result.reason # "turnTimeout"
    BY <1>2, <2>4, ResultFields DEF Judged, Unbegun
  <2> QED
    BY <2>3, <2>4, <2>5 DEF Honest, n
<1>5. CASE ~CanSetReady(m.session, p, ready, T)
  <2>1. ReadyUp(m, p, ready, T) = m
    BY <1>5 DEF ReadyUp
  <2> QED
    BY <1>2, <2>1, SameHonest
<1> QED
  BY <1>4, <1>5

-----------------------------------------------------------------------------
(* A move *)

\* Only the player who just marked a cell can have won by it.
LEMMA MarkWins ==
  ASSUME NEW g \in Games, NoWinner(g), NEW p \in Players, NEW cell \in Cells,
         NEW h \in Games, h.board = [g.board EXCEPT ![cell] = p],
         NEW q \in Players, Winner(h, q)
  PROVE  q = p
<1> SUFFICES ASSUME q # p PROVE FALSE
  OBVIOUS
<1>1. PICK line \in Lines : \A c \in line : h.board[c] = q
  BY DEF Winner
<1>2. line \subseteq Cells
  BY TurnAssumption
<1>3. g.board \in [Cells -> Players \cup {Nobody}]
  BY DEF Games
<1>4. h.board[cell] = p
  BY <1>3
<1>5. cell \notin line
  BY <1>1, <1>4
<1>6. \A c \in line : g.board[c] = q
  <2> SUFFICES ASSUME NEW c \in line PROVE g.board[c] = q
    OBVIOUS
  <2>1. c \in Cells /\ c # cell
    BY <1>2, <1>5
  <2>2. h.board[c] = g.board[c]
    BY <1>3, <2>1
  <2> QED
    BY <1>1, <2>2
<1>7. Winner(g, q)
  BY <1>6 DEF Winner
<1> QED
  BY <1>7 DEF NoWinner

LEMMA Marked ==
  ASSUME NEW g, g \in Games, NEW cell \in Cells, NEW p
  PROVE  [g EXCEPT !.board[cell] = p, !.turn = 3 - @]
           = [seats |-> g.seats, board |-> [g.board EXCEPT ![cell] = p], turn |-> 3 - g.turn]
<1> DEFINE board == [g.board EXCEPT ![cell] = p]
           a == [g EXCEPT !.board[cell] = p]
<1>1. g = [seats |-> g.seats, board |-> g.board, turn |-> g.turn]
  BY DEF Games
<1>2. a = [g EXCEPT !.board = board]
  BY <1>1
<1> HIDE DEF board
<1>3. a = [seats |-> g.seats, board |-> board, turn |-> g.turn]
  BY <1>1, <1>2
<1>4. [a EXCEPT !.turn = 3 - @] = [seats |-> g.seats, board |-> board, turn |-> 3 - g.turn]
  <2> HIDE DEF a
  <2> QED
    BY <1>3
<1>5. [g EXCEPT !.board[cell] = p, !.turn = 3 - @] = [a EXCEPT !.turn = 3 - @]
  OBVIOUS
<1> QED
  BY <1>4, <1>5 DEF board

\* n is b after p has marked the cell.
MarkedBy(n, b, p, cell, T) ==
  /\ Running(n, T) /\ n.game.board = [b.game.board EXCEPT ![cell] = p]
  /\ UnderWay(n) \/ ProposedBy(n, T)
  /\ n.result.reason # "turnTimeout"

\* A move ends the match with a line or a full board, or the other player is next.
LEMMA ApplyMoveIs ==
  ASSUME NEW b, NEW T \in Nat, Running(b, T), UnderWay(b), NEW p, NEW cell \in Cells,
         CanApplyMove(b.game, p, cell), NEW at, at \in Nat, at >= b.session.updatedAt, at <= T
  PROVE  MarkedBy(ApplyTurnOutcome(b, ApplyMove(b.game, p, cell, at), at), b, p, cell, T)
<1> DEFINE g == b.game
           next == [g EXCEPT !.board[cell] = p, !.turn = 3 - @]
           outcome == ApplyMove(g, p, cell, at)
           n == ApplyTurnOutcome(b, outcome, at)
<1>1. g \in Games /\ g.seats[1] # g.seats[2] /\ NoWinner(g)
  BY DEF UnderWay, Playable, Seating
<1>2. p \in Players
  BY <1>1, Opponents DEF CanApplyMove
<1>3. /\ next \in Games /\ next.seats = g.seats /\ next.board = [g.board EXCEPT ![cell] = p]
  <2> DEFINE board == [g.board EXCEPT ![cell] = p]
  <2>1. g = [seats |-> g.seats, board |-> g.board, turn |-> g.turn]
        /\ g.seats \in [1..2 -> Players] /\ g.board \in [Cells -> Players \cup {Nobody}]
        /\ g.turn \in {1, 2}
    BY <1>1 DEF Games
  <2>2. board \in [Cells -> Players \cup {Nobody}]
    BY <1>2, <2>1
  <2>3. next = [seats |-> g.seats, board |-> board, turn |-> 3 - g.turn]
    BY <1>1, Marked
  <2>4. 3 - g.turn \in {1, 2}
    BY <2>1
  <2> HIDE DEF board, next, g
  <2>5. next \in Games /\ next.seats = g.seats /\ next.board = board
    BY <2>1, <2>2, <2>3, <2>4 DEF Games
  <2> QED
    BY <2>5 DEF board
<1>4. /\ Winner(next, p) => outcome = Outcome(next, NoTime, Completed("threeInARow", p, at))
      /\ ~Winner(next, p) /\ BoardFull(next) =>
           outcome = Outcome(next, NoTime, Completed("boardFull", Nobody, at))
      /\ ~Winner(next, p) /\ ~BoardFull(next) => outcome = Outcome(next, at + TurnTimeout, NoResult)
  <2> DEFINE x == Winner(next, p)
             y == BoardFull(next)
             u == Outcome(next, NoTime, Completed("threeInARow", p, at))
             v == Outcome(next, NoTime, Completed("boardFull", Nobody, at))
             w == Outcome(next, at + TurnTimeout, NoResult)
  <2>1. outcome = CASE x -> u [] ~x /\ y -> v [] OTHER -> w
    BY DEF ApplyMove
  <2> HIDE DEF x, y, u, v, w, outcome
  <2>2. ASSUME x PROVE outcome = u
    BY <2>1, <2>2
  <2>3. ASSUME ~x, y PROVE outcome = v
    BY <2>1, <2>3
  <2>4. ASSUME ~x, ~y PROVE outcome = w
    BY <2>1, <2>4
  <2> QED
    BY <2>2, <2>3, <2>4 DEF x, y, u, v, w
<1>5. /\ b.session.updatedAt \in Nat /\ b.session.startedAt # 0 /\ b.session.updatedAt <= T
  BY SessionTimes DEF Running
<1>6. \A q \in Players : Winner(next, q) => q = p
  <2> HIDE DEF next, g
  <2> QED
    BY <1>1, <1>2, <1>3, MarkWins
<1> HIDE DEF next, g, outcome
<1>7. ASSUME outcome.deadline \in Nat, outcome.game = next
      PROVE  /\ Stored(n, b, outcome, at) /\ Running(n, T) /\ n.session.updatedAt <= at
             /\ n.session.startedAt # 0 /\ n.game = next /\ n.session.state = "running"
  <2>1. IsMatch(b) /\ Good(b.session) /\ b.session.state = "running"
    BY DEF Running
  <2>2. Stored(n, b, outcome, at)
    BY <1>7, <2>1, OutcomeApplied
  <2> HIDE DEF n
  <2>3. /\ IsMatch(n) /\ Good(n.session) /\ n.session.state = "running"
        /\ n.session.updatedAt \in {at, b.session.updatedAt}
        /\ n.session.startedAt = b.session.startedAt /\ n.game = next
    BY <1>7, <2>2 DEF Stored
  <2>4. n.session.updatedAt <= at /\ n.session.updatedAt <= T
    BY <1>5, <2>3
  <2> QED
    BY <1>5, <2>2, <2>3, <2>4 DEF Running
<1>8. CASE Winner(next, p)
  <2> DEFINE r == Completed("threeInARow", p, at)
  <2>1. outcome.game = next /\ outcome.deadline = NoTime /\ outcome.result = r
    BY <1>4, <1>8 DEF Outcome
  <2>2. /\ r.status = "completed" /\ r.reason = "threeInARow" /\ r.winner = p /\ r.endedAt = at
    BY ResultFields
  <2>3. r \in Results
    BY <1>2, ResultTypes
  <2> HIDE DEF r
  <2>4. /\ Stored(n, b, outcome, at) /\ Running(n, T) /\ n.session.updatedAt <= at
        /\ n.session.startedAt # 0 /\ n.game = next /\ n.session.state = "running"
    BY <1>7, <2>1 DEF NoTime
  <2> HIDE DEF n
  <2>5. n.result = r
    BY <2>1, <2>4 DEF Stored
  <2>6. Proposed(n)
    BY <1>2, <1>6, <1>8, <2>2, <2>3, <2>4, <2>5 DEF Proposed, NoTime
  <2> QED
    BY <1>3, <2>2, <2>4, <2>5, <2>6 DEF ProposedBy, MarkedBy, n, outcome, g
<1>9. CASE ~Winner(next, p) /\ BoardFull(next)
  <2> DEFINE r == Completed("boardFull", Nobody, at)
  <2>1. outcome.game = next /\ outcome.deadline = NoTime /\ outcome.result = r
    BY <1>4, <1>9 DEF Outcome
  <2>2. /\ r.status = "completed" /\ r.reason = "boardFull" /\ r.winner = Nobody /\ r.endedAt = at
    BY ResultFields
  <2>3. r \in Results
    BY ResultTypes
  <2> HIDE DEF r
  <2>4. /\ Stored(n, b, outcome, at) /\ Running(n, T) /\ n.session.updatedAt <= at
        /\ n.session.startedAt # 0 /\ n.game = next /\ n.session.state = "running"
    BY <1>7, <2>1 DEF NoTime
  <2> HIDE DEF n
  <2>5. n.result = r
    BY <2>1, <2>4 DEF Stored
  <2>6. NoWinner(next)
    BY <1>6, <1>9 DEF NoWinner
  <2>7. Proposed(n)
    BY <1>9, <2>2, <2>3, <2>4, <2>5, <2>6 DEF Proposed, NoTime
  <2> QED
    BY <1>3, <2>2, <2>4, <2>5, <2>7 DEF ProposedBy, MarkedBy, n, outcome, g
<1>10. CASE ~Winner(next, p) /\ ~BoardFull(next)
  <2>1. outcome.game = next /\ outcome.deadline = at + TurnTimeout /\ outcome.result = NoResult
    BY <1>4, <1>10 DEF Outcome
  <2>2. outcome.deadline \in Nat /\ outcome.deadline # NoTime
    BY <2>1, TurnAssumption DEF NoTime
  <2>3. /\ Stored(n, b, outcome, at) /\ Running(n, T) /\ n.game = next
        /\ n.session.state = "running"
    BY <1>7, <2>1, <2>2
  <2> HIDE DEF n
  <2>4. /\ n.result = NoResult /\ n.session.turnStored = TRUE /\ n.session.turnDeadline # NoTime
        /\ n.session.players = b.session.players
    BY <2>1, <2>2, <2>3 DEF Stored
  <2>5. NoWinner(next)
    BY <1>6, <1>10 DEF NoWinner
  <2>6. Seating(next)
    BY <1>1, <1>3, <2>5 DEF Seating
  <2>7. \A k \in 1..2 : n.session.players[next.seats[k]].state \in {"playing"}
    BY <1>3, <2>4 DEF UnderWay, Playable, g
  <2>8. UnderWay(n)
    BY <2>3, <2>4, <2>6, <2>7 DEF UnderWay, Playable
  <2> QED
    BY <1>3, <2>3, <2>4, <2>8, ResultFields DEF MarkedBy, n, outcome, g
<1> QED
  BY <1>8, <1>9, <1>10

\* What TurnsAreHonoured asks of a change of the match at time T.
Honoured(n, m, T) ==
  LET s == Judged(m).session
      g == Judged(m).game
  IN  /\ n.game.board # g.board =>
           /\ n.game.board \in {[g.board EXCEPT ![c] = Late(g)] : c \in {c \in Cells : g.board[c] = Nobody}}
           /\ T < s.turnDeadline
           /\ s.players[Late(g)].state = "playing"
      /\ n.result.reason = "turnTimeout" /\ m.result = NoResult => T >= s.turnDeadline

LEMMA HonestHonoured ==
  ASSUME NEW n, NEW m, NEW T, Honest(n, m, T)
  PROVE  Held(n, T) /\ Honoured(n, m, T)
BY DEF Honest, Honoured

LEMMA BegunMatch ==
  ASSUME NEW m, NEW T \in Nat, Running(m, T), Unbegun(m) \/ UnderWay(m)
  PROVE  UnderWay(Begun(m)) \/ ProposedBy(Begun(m), T)
<1>1. CASE Unbegun(m)
  BY <1>1, GameBegins
<1>2. CASE UnderWay(m)
  <2>1. Begun(m) = m
    BY <1>2 DEF Begun, UnderWay, Playable
  <2> QED
    BY <1>2, <2>1
<1> QED
  BY <1>1, <1>2

LEMMA ProposalIsResult ==
  ASSUME NEW m, NEW T, ProposedBy(m, T)
  PROVE  m.result # NoResult
<1>1. m.result.status \in {"cancelled", "completed"}
  BY DEF ProposedBy, Proposed
<1> QED
  BY <1>1, ResultFields

LEMMA MoveHonoured ==
  ASSUME NEW m, NEW T \in Nat, Held(m, T), NEW p \in Players, NEW cell \in Cells,
         CanMove(m, p, cell, T)
  PROVE  Held(Move(m, p, cell, T), T) /\ Honoured(Move(m, p, cell, T), m, T)
<1> DEFINE k == Settle(m, T)
           b == Begun(m)
           due == b.session.turnDeadline
           n == Move(m, p, cell, T)
<1>1. m.session.state = "running"
  <2>1. k.session.state = "running"
    BY DEF CanMove
  <2>2. m.session.state # "running" => k = m
    BY DEF Settle
  <2> HIDE DEF k
  <2> QED
    BY <2>1, <2>2
<1>2. Running(m, T) /\ (Unbegun(m) \/ UnderWay(m)) /\ (Unbegun(m) \/ Leaving(m))
  <2>1. UnderWay(m) => Leaving(m)
    BY DEF UnderWay, Leaving, Playable
  <2> QED
    BY <1>1, <2>1, RunningMatch DEF Held
<1>3. Judged(m) = b /\ b.game.board = m.game.board
  BY <1>1, <1>2, BegunIs DEF Judged
<1>4. CASE k.result # NoResult
  <2>1. n = Committed(k)
    BY <1>4 DEF Move
  <2>2. /\ Held(Committed(k), T) /\ Committed(k).game.board = m.game.board
        /\ Committed(k).result.reason = "turnTimeout" => T >= due /\ due # NoTime
    BY <1>2, SettledKept
  <2> HIDE DEF b, k, n
  <2> QED
    BY <1>3, <2>1, <2>2 DEF Honoured, n
<1>5. CASE k.result = NoResult
  <2>1. Settled(k, m, T, T)
    BY <1>2, SettleIs
  <2>2. /\ k.session.players[p].state = "playing" /\ CanApplyMove(k.game, p, cell)
    BY <1>5 DEF CanMove
  <2> DEFINE at == LaterOf(T, k.session.updatedAt)
             c == ApplyTurnOutcome(k, ApplyMove(k.game, p, cell, at), at)
  <2>3. n = Committed(c)
    BY <1>5 DEF Move
  <2>4. CASE ~UnderWay(b)
    <3>1. b.result # NoResult
      BY <1>2, <2>4, BegunMatch, ProposalIsResult
    <3>2. k = b
      BY <1>1, <3>1 DEF Settle
    <3> HIDE DEF k, b
    <3> QED
      BY <1>5, <3>1, <3>2
  <2>5. CASE UnderWay(b)
    <3> HIDE DEF k, b
    <3>1. /\ Running(k, T) /\ k.game = b.game
          /\ UnderWay(k) /\ T < due
      <4>1. ~ProposedBy(k, T)
        BY <1>5, ProposalIsResult
      <4> QED
        BY <2>1, <4>1 DEF Settled, b
    <3>2. at = T
      <4>1. k.session.updatedAt \in Nat /\ k.session.updatedAt <= T
        BY <3>1, SessionTimes DEF Running
      <4> QED
        BY <4>1 DEF LaterOf
    <3> HIDE DEF at
    <3>3. /\ Running(c, T) /\ c.game.board = [k.game.board EXCEPT ![cell] = p]
          /\ UnderWay(c) \/ ProposedBy(c, T)
          /\ c.result.reason # "turnTimeout"
      <4>1. T >= k.session.updatedAt
        BY <3>1 DEF Running
      <4>2. T \in Nat /\ T <= T /\ CanApplyMove(k.game, p, cell)
        BY <2>2
      <4> DEFINE d == ApplyTurnOutcome(k, ApplyMove(k.game, p, cell, T), T)
      <4>3. MarkedBy(d, k, p, cell, T)
        BY <3>1, <4>1, <4>2, ApplyMoveIs
      <4>4. c = d
        BY <3>2
      <4> QED
        BY <4>3, <4>4 DEF MarkedBy
    <3> HIDE DEF c
    <3>4. /\ Held(n, T) /\ n.game = c.game /\ n.result = c.result
      <4>1. CASE UnderWay(c)
        <5>1. n = c
          BY <2>3, <4>1, NothingToCommit DEF UnderWay, Playable
        <5> QED
          BY <3>3, <4>1, <5>1 DEF Held, MatchInv, Running
      <4>2. CASE ProposedBy(c, T)
        <5>1. Ended(n, T) /\ n.game = c.game /\ n.result = c.result
          BY <2>3, <3>3, <4>2, ProposalCommitted
        <5> QED
          BY <5>1 DEF Held, MatchInv, Ended
      <4> QED
        BY <3>3, <4>1, <4>2
    <3>5. Late(b.game) = p /\ b.game.board[cell] = Nobody
      BY <2>2, <3>1 DEF CanApplyMove
    <3>6. b.session.players[p].state = "playing"
      <4>1. b.game.turn \in 1..2
        BY <2>5 DEF UnderWay, Playable, Seating, Games
      <4>2. p = b.game.seats[b.game.turn]
        BY <3>5 DEF Late
      <4> QED
        BY <2>5, <4>1, <4>2 DEF UnderWay, Playable
    <3> HIDE DEF n
    <3>7. n.game.board = [b.game.board EXCEPT ![cell] = Late(b.game)]
      BY <3>1, <3>3, <3>4, <3>5
    <3>8. n.game.board \in {[b.game.board EXCEPT ![x] = Late(b.game)] :
                              x \in {x \in Cells : b.game.board[x] = Nobody}}
      BY <3>5, <3>7
    <3>9. Honoured(n, m, T)
      BY <1>3, <3>1, <3>3, <3>4, <3>5, <3>6, <3>8 DEF Honoured
    <3> QED
      BY <3>4, <3>9 DEF n
  <2> QED
    BY <2>4, <2>5
<1> QED
  BY <1>4, <1>5

-----------------------------------------------------------------------------
(***************************************************************************)
(* Streams, rooms and the history of commands.                             *)
(***************************************************************************)

LEMMA SeqGrows ==
  ASSUME NEW A, NEW B, A \subseteq B, NEW q, q \in Seq(A)
  PROVE  q \in Seq(B)
<1>1. Len(q) \in Nat /\ q \in [1..Len(q) -> A]
  BY LenProperties
<1>2. q \in [1..Len(q) -> B]
  BY <1>1
<1> QED
  BY <1>1, <1>2, SeqDef

LEMMA QueueLaws ==
  ASSUME NEW A, NEW q, q \in Seq(A), NEW a, a \in A
  PROVE  /\ <<>> \in Seq(A) /\ Len(<<>>) = 0
         /\ <<a>> \in Seq(A) /\ Len(<<a>>) = 1
         /\ Len(q) \in Nat
         /\ Append(q, a) \in Seq(A) /\ Len(Append(q, a)) = Len(q) + 1
BY EmptySeq, LenProperties, AppendProperties

LEMMA QueueTail ==
  ASSUME NEW A, NEW q, q \in Seq(A), q # <<>>
  PROVE  Head(q) \in A /\ Tail(q) \in Seq(A) /\ Len(Tail(q)) <= Len(q)
<1>1. Head(q) \in A /\ Tail(q) \in Seq(A) /\ Len(Tail(q)) = Len(q) - 1 /\ Len(q) \in Nat
  BY HeadTailProperties, LenProperties
<1> QED
  BY <1>1

\* What only grows leaves streams and rooms as they should be.
LEMMA StreamsGrow ==
  ASSUME NEW E, NEW F, E \subseteq F, NEW str, StreamsIn(str, E)
  PROVE  StreamsIn(str, F)
<1>1. str \in [Instances -> [unread : Seq(E), pending : SUBSET E]]
  BY DEF StreamsIn
<1>2. ASSUME NEW r \in [unread : Seq(E), pending : SUBSET E]
      PROVE  r \in [unread : Seq(F), pending : SUBSET F]
  <2>1. r.unread \in Seq(F) /\ r.pending \in SUBSET F
    BY SeqGrows
  <2>2. r = [unread |-> r.unread, pending |-> r.pending]
    OBVIOUS
  <2> QED
    BY <2>1, <2>2
<1> QED
  BY <1>1, <1>2 DEF StreamsIn

LEMMA RoomGrows ==
  ASSUME NEW E, NEW F, E \subseteq F, NEW T \in Nat, NEW U \in Nat, T <= U,
         NEW r, RoomIn(r, E, T)
  PROVE  RoomIn(r, F, U)
<1>1. /\ r.queue \in Seq(E) /\ r.snapshot \in Session /\ Len(r.queue) <= QueueSize
      /\ r.snapshot.updatedAt <= T /\ r = [queue |-> r.queue, snapshot |-> r.snapshot]
  BY DEF RoomIn
<1>2. r.queue \in Seq(F)
  BY <1>1, SeqGrows
<1>3. r.snapshot.updatedAt \in Nat
  BY <1>1 DEF Session, Time
<1>4. r.snapshot.updatedAt <= U
  BY <1>1, <1>3
<1>5. r \in [queue : Seq(F), snapshot : Session]
  BY <1>1, <1>2
<1> QED
  BY <1>1, <1>4, <1>5 DEF RoomIn

LEMMA RoomsGrow ==
  ASSUME NEW E, NEW F, E \subseteq F, NEW T \in Nat, NEW U \in Nat, T <= U,
         NEW rs, RoomsIn(rs, E, T)
  PROVE  RoomsIn(rs, F, U)
BY RoomGrows DEF RoomsIn

LEMMA RoomChanged ==
  ASSUME NEW rs, NEW E, NEW T, RoomsIn(rs, E, T), NEW i \in Instances,
         NEW r, r # Nowhere => RoomIn(r, E, T)
  PROVE  RoomsIn([rs EXCEPT ![i] = r], E, T)
BY DEF RoomsIn

LEMMA StreamChanged ==
  ASSUME NEW str, NEW E, StreamsIn(str, E), NEW i \in Instances,
         NEW unread \in Seq(E), NEW pending \in SUBSET E
  PROVE  StreamsIn([str EXCEPT ![i] = [unread |-> unread, pending |-> pending]], E)
BY DEF StreamsIn

LEMMA StreamTypes ==
  ASSUME NEW str, NEW E, StreamsIn(str, E), NEW i \in Instances
  PROVE  /\ str[i].unread \in Seq(E) /\ str[i].pending \in SUBSET E
         /\ str[i] = [unread |-> str[i].unread, pending |-> str[i].pending]
BY DEF StreamsIn

LEMMA UnreadChanged ==
  ASSUME NEW str, NEW E, StreamsIn(str, E), NEW i \in Instances, NEW q \in Seq(E)
  PROVE  StreamsIn([str EXCEPT ![i].unread = q], E)
<1> DEFINE w == str[i].pending
           r == [unread |-> q, pending |-> w]
<1>1. w \in SUBSET E /\ str[i] = [unread |-> str[i].unread, pending |-> w]
  BY StreamTypes
<1>2. [str EXCEPT ![i].unread = q] = [str EXCEPT ![i] = [@ EXCEPT !.unread = q]]
  OBVIOUS
<1>3. [str[i] EXCEPT !.unread = q] = r
  BY <1>1
<1>4. StreamsIn([str EXCEPT ![i] = r], E)
  <2> HIDE DEF w
  <2> QED
    BY <1>1, StreamChanged
<1> HIDE DEF r
<1>5. [str EXCEPT ![i].unread = q] = [str EXCEPT ![i] = r]
  BY <1>2, <1>3
<1> QED
  BY <1>4, <1>5

LEMMA PendingChanged ==
  ASSUME NEW str, NEW E, StreamsIn(str, E), NEW i \in Instances, NEW w \in SUBSET E
  PROVE  StreamsIn([str EXCEPT ![i].pending = w], E)
<1> DEFINE q == str[i].unread
           r == [unread |-> q, pending |-> w]
<1>1. q \in Seq(E) /\ str[i] = [unread |-> q, pending |-> str[i].pending]
  BY StreamTypes
<1>2. [str EXCEPT ![i].pending = w] = [str EXCEPT ![i] = [@ EXCEPT !.pending = w]]
  OBVIOUS
<1>3. [str[i] EXCEPT !.pending = w] = r
  BY <1>1
<1>4. StreamsIn([str EXCEPT ![i] = r], E)
  <2> HIDE DEF q
  <2> QED
    BY <1>1, StreamChanged
<1> HIDE DEF r
<1>5. [str EXCEPT ![i].pending = w] = [str EXCEPT ![i] = r]
  BY <1>2, <1>3
<1> QED
  BY <1>4, <1>5

LEMMA AppendedStream ==
  ASSUME NEW str, NEW E, StreamsIn(str, E), NEW i \in Instances, NEW e \in E
  PROVE  StreamsIn([str EXCEPT ![i].unread = Append(@, e)], E)
<1> DEFINE q == Append(str[i].unread, e)
<1>1. q \in Seq(E)
  BY StreamTypes, QueueLaws
<1> HIDE DEF q
<1>2. StreamsIn([str EXCEPT ![i].unread = q], E)
  BY <1>1, UnreadChanged
<1> QED
  BY <1>2 DEF q

LEMMA AcknowledgedStream ==
  ASSUME NEW str, NEW E, StreamsIn(str, E), NEW i \in Instances, NEW e
  PROVE  StreamsIn(Unacknowledged(str, i, e), E)
<1> DEFINE w == str[i].pending \ {e}
<1>1. w \in SUBSET E
  BY StreamTypes
<1> HIDE DEF w
<1>2. StreamsIn([str EXCEPT ![i].pending = w], E)
  BY <1>1, PendingChanged
<1> QED
  BY <1>2 DEF w, Unacknowledged

LEMMA RoomTypes ==
  ASSUME NEW rs, NEW E, NEW T, RoomsIn(rs, E, T), NEW i \in Instances, rs[i] # Nowhere
  PROVE  /\ rs[i].queue \in Seq(E) /\ Len(rs[i].queue) <= QueueSize
         /\ rs[i].snapshot \in Session /\ rs[i].snapshot.updatedAt <= T
         /\ rs[i] = [queue |-> rs[i].queue, snapshot |-> rs[i].snapshot]
         /\ RoomIn(rs[i], E, T)
BY DEF RoomsIn, RoomIn

LEMMA QueueChanged ==
  ASSUME NEW rs, NEW E, NEW T, RoomsIn(rs, E, T), NEW i \in Instances, rs[i] # Nowhere,
         NEW q \in Seq(E), Len(q) <= QueueSize
  PROVE  RoomsIn([rs EXCEPT ![i].queue = q], E, T)
<1> DEFINE s == rs[i].snapshot
           r == [queue |-> q, snapshot |-> s]
<1>1. /\ s \in Session /\ s.updatedAt <= T
      /\ rs[i] = [queue |-> rs[i].queue, snapshot |-> s]
  BY RoomTypes
<1>2. [rs EXCEPT ![i].queue = q] = [rs EXCEPT ![i] = [@ EXCEPT !.queue = q]]
  OBVIOUS
<1>3. [rs[i] EXCEPT !.queue = q] = r
  BY <1>1
<1>4. RoomIn(r, E, T)
  BY <1>1 DEF RoomIn
<1> HIDE DEF r
<1>5. [rs EXCEPT ![i].queue = q] = [rs EXCEPT ![i] = r]
  BY <1>2, <1>3
<1> QED
  BY <1>4, <1>5, RoomChanged

LEMMA SnapshotChanged ==
  ASSUME NEW rs, NEW E, NEW T, RoomsIn(rs, E, T), NEW i \in Instances, rs[i] # Nowhere,
         NEW s \in Session, s.updatedAt <= T
  PROVE  RoomsIn([rs EXCEPT ![i].snapshot = s], E, T)
<1> DEFINE q == rs[i].queue
           r == [queue |-> q, snapshot |-> s]
<1>1. /\ q \in Seq(E) /\ Len(q) <= QueueSize
      /\ rs[i] = [queue |-> q, snapshot |-> rs[i].snapshot]
  BY RoomTypes
<1>2. [rs EXCEPT ![i].snapshot = s] = [rs EXCEPT ![i] = [@ EXCEPT !.snapshot = s]]
  OBVIOUS
<1>3. [rs[i] EXCEPT !.snapshot = s] = r
  BY <1>1
<1>4. RoomIn(r, E, T)
  BY <1>1 DEF RoomIn
<1> HIDE DEF r
<1>5. [rs EXCEPT ![i].snapshot = s] = [rs EXCEPT ![i] = r]
  BY <1>2, <1>3
<1> QED
  BY <1>4, <1>5, RoomChanged

\* A command names its player and its place in the player's script.
LEMMA CommandIs ==
  ASSUME SentOK
  PROVE  /\ \A c \in Commands : /\ c[1] \in Players /\ c[2] \in Nat
                                /\ Request(c) \in Requests /\ c = <<c[1], c[2]>>
         /\ \A p \in Players : sent[p] < Len(scene.commands[p]) => <<p, sent[p] + 1>> \in Commands
<1>1. scene.commands \in [Players -> Seq(Requests)]
  BY StreamAssumption DEF SentOK
<1>2. \A p \in Players : /\ scene.commands[p] \in Seq(Requests)
                         /\ Len(scene.commands[p]) \in Nat
                         /\ DOMAIN scene.commands[p] = 1..Len(scene.commands[p])
  BY <1>1, LenProperties
<1>3. ASSUME NEW c \in Commands
      PROVE  /\ c[1] \in Players /\ c[2] \in Nat
             /\ Request(c) \in Requests /\ c = <<c[1], c[2]>>
  <2>1. PICK p \in Players : c \in {<<p, n>> : n \in DOMAIN scene.commands[p]}
    BY DEF Commands
  <2>2. PICK n \in DOMAIN scene.commands[p] : c = <<p, n>>
    BY <2>1
  <2>3. n \in 1..Len(scene.commands[p])
    BY <1>2, <2>2
  <2>4. scene.commands[p][n] \in Requests
    BY <1>2, <2>3, ElementOfSeq
  <2> QED
    BY <1>2, <2>2, <2>3, <2>4 DEF Request
<1>4. ASSUME NEW p \in Players, sent[p] < Len(scene.commands[p])
      PROVE  <<p, sent[p] + 1>> \in Commands
  <2>1. sent[p] \in Nat
    BY DEF SentOK
  <2>2. sent[p] + 1 \in DOMAIN scene.commands[p]
    BY <1>2, <1>4, <2>1
  <2> QED
    BY <2>2 DEF Commands
<1> QED
  BY <1>3, <1>4

\* The scripts stay, commands are sent and entries made.
Grows ==
  /\ scene' = scene
  /\ sent' \in [Players -> Nat] /\ \A p \in Players : sent[p] <= sent'[p]
  /\ copies' \in [Commands -> Nat] /\ \A c \in Commands : copies[c] <= copies'[c]

LEMMA EntriesGrow ==
  ASSUME SentOK, Grows
  PROVE  Commands' = Commands /\ Sent \subseteq Sent' /\ Entries \subseteq Entries'
<1>1. Commands' = Commands
  BY DEF Grows, Commands
<1>2. Sent \subseteq Sent'
  <2> SUFFICES ASSUME NEW c \in Commands, c[2] <= sent[c[1]] PROVE c[2] <= sent'[c[1]]
    BY <1>1 DEF Sent
  <2>1. c[1] \in Players /\ c[2] \in Nat
    BY CommandIs
  <2>2. sent[c[1]] \in Nat /\ sent'[c[1]] \in Nat /\ sent[c[1]] <= sent'[c[1]]
    BY <2>1 DEF SentOK, Grows
  <2> QED
    BY <2>1, <2>2
<1>3. Entries \subseteq Entries'
  <2> SUFFICES ASSUME NEW e \in Entries PROVE e \in Entries'
    OBVIOUS
  <2>1. e \in [command : Sent, copy : Nat] /\ e.copy \in 1..copies[e.command]
    BY DEF Entries
  <2>2. e.command \in Sent' /\ e.command \in Commands /\ e \in [command : Sent', copy : Nat]
    BY <1>2, <2>1 DEF Sent
  <2>3. copies[e.command] \in Nat /\ copies'[e.command] \in Nat
        /\ copies[e.command] <= copies'[e.command]
    BY <2>2 DEF SentOK, Grows
  <2>4. e.copy \in 1..copies'[e.command]
    BY <2>1, <2>3
  <2> QED
    BY <2>2, <2>4 DEF Entries
<1> QED
  BY <1>1, <1>2, <1>3

\* The history of what was applied stays true while commands are sent.
LEMMA HistoryGrows ==
  ASSUME SentOK, HistoryOK, Grows, UNCHANGED <<receipts, applied>>
  PROVE  HistoryOK'
<1>1. Sent \subseteq Sent'
  BY EntriesGrow
<1>2. applied' \in Seq(Sent')
  BY <1>1, SeqGrows DEF HistoryOK
<1> QED
  BY <1>1, <1>2 DEF HistoryOK

LEMMA NothingSent ==
  ASSUME SentOK, UNCHANGED <<scene, sent, copies>>
  PROVE  Grows /\ SentOK' /\ Sent' = Sent /\ Entries' = Entries
<1>1. Commands' = Commands
  BY DEF Commands
<1>2. Sent' = Sent
  BY <1>1 DEF Sent
<1>3. Entries' = Entries
  BY <1>2 DEF Entries
<1>4. Grows
  BY DEF Grows, SentOK
<1>5. SentOK'
  BY <1>1 DEF SentOK
<1> QED
  BY <1>2, <1>3, <1>4, <1>5

\* A new entry of a command.
LEMMA NewEntry ==
  ASSUME SentOK, NEW c \in Commands, scene' = scene, sent' \in [Players -> Nat],
         \A p \in Players : sent[p] <= sent'[p] /\ sent'[p] <= Len(scene.commands[p]),
         c \in Sent', copies' = [copies EXCEPT ![c] = @ + 1]
  PROVE  Grows /\ SentOK' /\ Entry(c, copies[c] + 1) \in Entries'
<1>1. copies \in [Commands -> Nat] /\ Commands' = Commands
  BY DEF SentOK, Commands
<1>2. copies' \in [Commands -> Nat] /\ copies'[c] = copies[c] + 1 /\ copies[c] \in Nat
      /\ \A d \in Commands : copies[d] <= copies'[d]
  BY <1>1
<1>3. Grows
  BY <1>2 DEF Grows
<1>4. SentOK'
  BY <1>1, <1>2 DEF SentOK
<1>5. Entry(c, copies[c] + 1) \in Entries'
  <2> DEFINE n == copies[c] + 1
             e == Entry(c, n)
  <2>1. n \in Nat /\ n \in 1..copies'[c]
    BY <1>2
  <2>2. e = [command |-> c, copy |-> n]
    BY DEF Entry
  <2> HIDE DEF n, e
  <2>3. e \in [command : Sent', copy : Nat] /\ e.copy \in 1..copies'[e.command]
    BY <2>1, <2>2
  <2>4. e \in Entries'
    BY <2>3 DEF Entries
  <2> QED
    BY <2>4 DEF e, n
<1> QED
  BY <1>3, <1>4, <1>5

LEMMA WorldSame ==
  ASSUME WorldOK, UNCHANGED <<match, clock>>, members' \subseteq members
  PROVE  WorldOK'
BY DEF WorldOK

\* A room opened now.
LEMMA NewRoom ==
  ASSUME WorldOK, NEW E
  PROVE  /\ RoomIn(Room(match.session), E, clock)
         /\ \A e \in E : RoomIn([Room(match.session) EXCEPT !.queue = <<e>>], E, clock)
<1> DEFINE s == match.session
<1>1. s \in Session /\ s.updatedAt <= clock
  BY SessionTime DEF WorldOK, Held, MatchInv
<1>2. <<>> \in Seq(E) /\ Len(<<>>) = 0 /\ QueueSize \in Nat /\ QueueSize >= 1
  BY EmptySeq, StreamAssumption
<1> HIDE DEF s
<1>3. RoomIn([queue |-> <<>>, snapshot |-> s], E, clock)
  BY <1>1, <1>2 DEF RoomIn
<1>4. ASSUME NEW e \in E
      PROVE  RoomIn([queue |-> <<e>>, snapshot |-> s], E, clock)
  <2>1. <<e>> \in Seq(E) /\ Len(<<e>>) = 1
    BY <1>2, QueueLaws
  <2> QED
    BY <1>1, <1>2, <2>1 DEF RoomIn
<1> QED
  BY <1>3, <1>4 DEF Room, s

-----------------------------------------------------------------------------
(* Every step keeps the invariant and honours the turns *)

LEMMA SelfHonoured ==
  ASSUME NEW m, NEW T \in Nat, Held(m, T)
  PROVE  Honoured(m, m, T)
<1>1. Judged(m).game.board = m.game.board
  <2>1. CASE m.session.state = "running"
    <3>1. Running(m, T) /\ (Unbegun(m) \/ UnderWay(m))
      BY <2>1, RunningMatch DEF Held
    <3>2. Unbegun(m) \/ Leaving(m)
      BY <3>1 DEF UnderWay, Leaving, Playable
    <3> QED
      BY <2>1, <3>1, <3>2, BegunIs DEF Judged
  <2>2. CASE m.session.state # "running"
    BY <2>2 DEF Judged
  <2> QED
    BY <2>1, <2>2
<1>2. ~(m.result.reason = "turnTimeout" /\ m.result = NoResult)
  BY ResultFields
<1> QED
  BY <1>1, <1>2 DEF Honoured

LEMMA PublishedOK ==
  ASSUME NEW str, NEW E, StreamsIn(str, E), NEW i \in Instances, NEW c,
         Entry(c, copies[c] + 1) \in E
  PROVE  StreamsIn(Published(str, i, c), E)
BY AppendedStream DEF Published

LEMMA DispatchKeeps ==
  ASSUME StreamInv, NEW g \in Instances, NEW c \in Commands, Dispatch(g, c),
         sent' \in [Players -> Nat],
         \A p \in Players : sent[p] <= sent'[p] /\ sent'[p] <= Len(scene.commands[p]),
         c \in Sent'
  PROVE  StreamInv'
<1>1. /\ WorldOK /\ SentOK /\ HistoryOK /\ owner \in Instances \cup {Nowhere}
      /\ StreamsIn(stream, Entries) /\ RoomsIn(rooms, Entries, clock)
  BY DEF StreamInv
<1>2. /\ copies' = [copies EXCEPT ![c] = @ + 1]
      /\ scene' = scene /\ clock' = clock /\ match' = match /\ members' = members
      /\ receipts' = receipts /\ applied' = applied
  BY DEF Dispatch
<1>3. Grows /\ SentOK' /\ Entry(c, copies[c] + 1) \in Entries'
  BY <1>1, <1>2, NewEntry
<1>4. Entries \subseteq Entries' /\ clock \in Nat
  BY <1>1, <1>3, EntriesGrow DEF WorldOK
<1>5. StreamsIn(stream, Entries') /\ RoomsIn(rooms, Entries', clock)
  BY <1>1, <1>4, StreamsGrow, RoomsGrow
<1>6. ASSUME NEW i \in Instances
      PROVE  StreamsIn(Published(stream, i, c), Entries')
  BY <1>3, <1>5, PublishedOK
<1>7. /\ owner' \in Instances \cup {Nowhere}
      /\ StreamsIn(stream', Entries') /\ RoomsIn(rooms', Entries', clock)
  <2>1. CASE owner # Nowhere /\ stream' = Published(stream, owner, c) /\ UNCHANGED <<owner, rooms>>
    BY <1>1, <1>5, <1>6, <2>1
  <2>2. CASE owner' = g /\ rooms' = [rooms EXCEPT ![g] = Room(match.session)]
             /\ stream' = Published(stream, g, c)
    <3>1. RoomsIn([rooms EXCEPT ![g] = Room(match.session)], Entries', clock)
      BY <1>1, <1>5, NewRoom, RoomChanged
    <3> QED
      BY <1>6, <2>2, <3>1
  <2>3. CASE stream' = Published(stream, g, c) /\ UNCHANGED <<owner, rooms>>
    BY <1>1, <1>5, <1>6, <2>3
  <2> QED
    BY <2>1, <2>2, <2>3 DEF Dispatch
<1>8. WorldOK' /\ HistoryOK'
  BY <1>1, <1>2, <1>3, WorldSame, HistoryGrows
<1> QED
  BY <1>2, <1>3, <1>7, <1>8 DEF StreamInv

LEMMA SendKeeps ==
  ASSUME StreamInv, NEW p \in Players, Send(p)
  PROVE  StreamInv' /\ UNCHANGED <<match, clock>>
<1> DEFINE c == <<p, sent[p] + 1>>
<1>1. SentOK /\ sent[p] < Len(scene.commands[p]) /\ sent' = [sent EXCEPT ![p] = @ + 1]
  BY DEF StreamInv, Send
<1>2. PICK g \in Instances : Dispatch(g, c)
  BY DEF Send
<1>3. c \in Commands
  BY <1>1, CommandIs
<1>4. sent \in [Players -> Nat] /\ \A q \in Players : sent[q] <= Len(scene.commands[q])
  BY <1>1 DEF SentOK
<1>5. /\ sent' \in [Players -> Nat] /\ sent'[p] = sent[p] + 1
      /\ \A q \in Players : q # p => sent'[q] = sent[q]
  BY <1>1, <1>4
<1>6. Len(scene.commands[p]) \in Nat
  <2>1. scene.commands[p] \in Seq(Requests)
    BY <1>1, StreamAssumption DEF SentOK
  <2> QED
    BY <2>1, LenProperties
<1>7. \A q \in Players : sent[q] <= sent'[q] /\ sent'[q] <= Len(scene.commands[q])
  <2> SUFFICES ASSUME NEW q \in Players
               PROVE  sent[q] <= sent'[q] /\ sent'[q] <= Len(scene.commands[q])
    OBVIOUS
  <2>1. CASE q = p
    BY <1>1, <1>4, <1>5, <1>6, <2>1
  <2>2. CASE q # p
    BY <1>4, <1>5, <2>2
  <2> QED
    BY <2>1, <2>2
<1>8. c \in Sent' /\ UNCHANGED <<match, clock>>
  <2>1. scene' = scene /\ UNCHANGED <<match, clock>>
    BY <1>2 DEF Dispatch
  <2>2. Commands' = Commands
    BY <2>1 DEF Commands
  <2>3. c[2] <= sent'[c[1]]
    BY <1>4, <1>5
  <2> HIDE DEF c
  <2> QED
    BY <1>3, <2>1, <2>2, <2>3 DEF Sent
<1> HIDE DEF c
<1> QED
  BY <1>2, <1>3, <1>5, <1>7, <1>8, DispatchKeeps

LEMMA ResendKeeps ==
  ASSUME StreamInv, NEW c \in Commands, Resend(c)
  PROVE  StreamInv' /\ UNCHANGED <<match, clock>>
<1>1. SentOK /\ c \in Sent /\ sent' = sent
  BY DEF StreamInv, Resend
<1>2. PICK g \in Instances : Dispatch(g, c)
  BY DEF Resend
<1>3. scene' = scene /\ UNCHANGED <<match, clock>>
  BY <1>2 DEF Dispatch
<1>4. c \in Sent'
  <2>1. Commands' = Commands
    BY <1>3 DEF Commands
  <2> QED
    BY <1>1, <2>1 DEF Sent
<1>5. sent' \in [Players -> Nat]
      /\ \A q \in Players : sent[q] <= sent'[q] /\ sent'[q] <= Len(scene.commands[q])
  BY <1>1 DEF SentOK
<1> QED
  BY <1>2, <1>3, <1>4, <1>5, DispatchKeeps

LEMMA RouteKeeps ==
  ASSUME StreamInv, NEW i \in Instances, NEW e \in Entries, NEW str, StreamsIn(str, Entries),
         Route(i, e, str), UNCHANGED <<scene, clock, match, members, receipts, sent, applied>>
  PROVE  StreamInv'
<1>1. /\ WorldOK /\ SentOK /\ HistoryOK /\ owner \in Instances \cup {Nowhere}
      /\ RoomsIn(rooms, Entries, clock) /\ clock \in Nat
  BY DEF StreamInv, WorldOK
<1>2. e.command \in Commands /\ e.command \in Sent
  BY DEF Entries, Sent
<1>3. CASE UNCHANGED copies
  <2>1. Grows /\ SentOK' /\ Entries' = Entries
    BY <1>1, <1>3, NothingSent
  <2>2. /\ owner' \in Instances \cup {Nowhere}
        /\ StreamsIn(stream', Entries) /\ RoomsIn(rooms', Entries, clock)
    <3>1. CASE rooms[i] # Nowhere /\ Queued(i, e, str) /\ UNCHANGED owner
      <4>1. CASE Len(rooms[i].queue) < QueueSize
        <5> DEFINE q == Append(rooms[i].queue, e)
        <5>1. rooms[i].queue \in Seq(Entries)
          BY <1>1, <3>1, RoomTypes
        <5>2. q \in Seq(Entries) /\ Len(q) = Len(rooms[i].queue) + 1 /\ Len(rooms[i].queue) \in Nat
          BY <5>1, QueueLaws
        <5>3. Len(q) <= QueueSize
          BY <4>1, <5>2, StreamAssumption
        <5>4. rooms' = [rooms EXCEPT ![i].queue = q] /\ stream' = str
          BY <3>1, <4>1 DEF Queued
        <5> HIDE DEF q
        <5>5. RoomsIn([rooms EXCEPT ![i].queue = q], Entries, clock)
          BY <1>1, <3>1, <5>2, <5>3, QueueChanged
        <5> QED
          BY <1>1, <3>1, <5>4, <5>5
      <4>2. CASE ~(Len(rooms[i].queue) < QueueSize)
        BY <1>1, <3>1, <4>2 DEF Queued
      <4> QED
        BY <4>1, <4>2
    <3>2. CASE /\ owner' = i /\ stream' = str
               /\ rooms' = [rooms EXCEPT ![i] = [Room(match.session) EXCEPT !.queue = <<e>>]]
      <4>1. RoomIn([Room(match.session) EXCEPT !.queue = <<e>>], Entries, clock)
        BY <1>1, NewRoom
      <4>2. RoomsIn([rooms EXCEPT ![i] = [Room(match.session) EXCEPT !.queue = <<e>>]], Entries, clock)
        BY <1>1, <4>1, RoomChanged
      <4> QED
        BY <3>2, <4>2
    <3>3. CASE owner' = Nowhere /\ stream' = Unacknowledged(str, i, e) /\ UNCHANGED rooms
      BY <1>1, <3>3, AcknowledgedStream
    <3>4. CASE copies' = [copies EXCEPT ![e.command] = @ + 1]
      <4>1. copies[e.command] \in Nat /\ copies'[e.command] = copies[e.command] + 1
        BY <1>1, <1>2, <3>4 DEF SentOK
      <4> QED
        BY <1>3, <4>1
    <3> QED
      BY <3>1, <3>2, <3>3, <3>4 DEF Route
  <2>3. WorldOK' /\ HistoryOK'
    BY <1>1, <2>1, WorldSame, HistoryGrows
  <2> QED
    BY <2>1, <2>2, <2>3 DEF StreamInv
<1>4. CASE /\ owner \notin {Nowhere, i} /\ copies' = [copies EXCEPT ![e.command] = @ + 1]
           /\ \/ stream' = Published(Unacknowledged(str, i, e), owner, e.command)
              \/ stream' = Published(str, owner, e.command)
           /\ UNCHANGED <<owner, rooms>>
  <2>0. /\ sent' \in [Players -> Nat] /\ e.command \in Sent'
        /\ \A p \in Players : sent[p] <= sent'[p] /\ sent'[p] <= Len(scene.commands[p])
    <3>1. Commands' = Commands
      BY DEF Commands
    <3> QED
      BY <1>1, <1>2, <3>1 DEF SentOK, Sent
  <2>1. Grows /\ SentOK' /\ Entry(e.command, copies[e.command] + 1) \in Entries'
    BY <1>1, <1>2, <1>4, <2>0, NewEntry
  <2>2. Entries \subseteq Entries'
    BY <1>1, <2>1, EntriesGrow
  <2>3. StreamsIn(str, Entries') /\ RoomsIn(rooms, Entries', clock)
    BY <1>1, <2>2, StreamsGrow, RoomsGrow
  <2>4. StreamsIn(Unacknowledged(str, i, e), Entries')
    BY <2>3, AcknowledgedStream
  <2>5. owner \in Instances
    BY <1>1, <1>4
  <2>6. StreamsIn(stream', Entries')
    BY <1>4, <2>1, <2>3, <2>4, <2>5, PublishedOK
  <2>7. WorldOK' /\ HistoryOK'
    BY <1>1, <2>1, WorldSame, HistoryGrows
  <2> QED
    BY <1>1, <1>4, <2>1, <2>3, <2>6, <2>7 DEF StreamInv
<1> QED
  BY <1>3, <1>4 DEF Route

LEMMA ReadKeeps ==
  ASSUME StreamInv, NEW i \in Instances, Read(i)
  PROVE  StreamInv' /\ UNCHANGED <<match, clock>>
<1> DEFINE e == Head(stream[i].unread)
           str == [stream EXCEPT ![i] = [unread |-> Tail(@.unread), pending |-> @.pending \cup {e}]]
<1>1. StreamsIn(stream, Entries)
  BY DEF StreamInv
<1>2. stream[i].unread \in Seq(Entries) /\ stream[i].unread # <<>>
      /\ stream[i].pending \in SUBSET Entries
  BY <1>1, StreamTypes DEF Read
<1>3. e \in Entries /\ Tail(stream[i].unread) \in Seq(Entries)
  BY <1>2, QueueTail
<1>4. Route(i, e, str) /\ UNCHANGED <<scene, clock, match, members, receipts, sent, applied>>
  BY DEF Read
<1>5. StreamsIn(str, Entries)
  <2> DEFINE u == Tail(stream[i].unread)
             w == stream[i].pending \cup {e}
  <2>1. u \in Seq(Entries) /\ w \in SUBSET Entries
    BY <1>2, <1>3
  <2>2. str = [stream EXCEPT ![i] = [unread |-> u, pending |-> w]]
    OBVIOUS
  <2> HIDE DEF u, w, str
  <2> QED
    BY <1>1, <2>1, <2>2, StreamChanged
<1> HIDE DEF str, e
<1> QED
  BY <1>3, <1>4, <1>5, RouteKeeps

LEMMA RedeliverKeeps ==
  ASSUME StreamInv, NEW i \in Instances, NEW e, Redeliver(i, e)
  PROVE  StreamInv' /\ UNCHANGED <<match, clock>>
<1>1. StreamsIn(stream, Entries)
  BY DEF StreamInv
<1>2. e \in Entries
  BY <1>1, StreamTypes DEF Redeliver
<1>3. Route(i, e, stream) /\ UNCHANGED <<scene, clock, match, members, receipts, sent, applied>>
  BY DEF Redeliver
<1> QED
  BY <1>1, <1>2, <1>3, RouteKeeps

\* A command changes the match as its game's rules and clock allow.
LEMMA ResultHonoured ==
  ASSUME WorldOK, SentOK, NEW c \in Commands, Accepted(c)
  PROVE  Held(Result(c), clock) /\ Honoured(Result(c), match, clock)
<1> DEFINE p == c[1]
           r == Request(c)
<1>1. /\ Held(match, clock) /\ clock \in Nat /\ p \in Players /\ r \in Requests
  BY CommandIs DEF WorldOK
<1>2. r.kind \in {"ready", "unready", "leave", "cancel", "move"} /\ r.cell \in Cells
  BY <1>1 DEF Requests
<1>3. CASE r.kind = "ready"
  <2>1. Result(c) = ReadyUp(match, p, TRUE, clock) /\ CanReadyUp(match, p, clock)
    BY <1>3 DEF Result, Accepted
  <2> HIDE DEF p, r
  <2>2. Honest(ReadyUp(match, p, TRUE, clock), match, clock)
    BY <1>1, <2>1, ReadyUpHonest
  <2> QED
    BY <2>1, <2>2, HonestHonoured
<1>4. CASE r.kind = "unready"
  <2>1. Result(c) = ReadyUp(match, p, FALSE, clock) /\ CanReadyUp(match, p, clock)
    BY <1>4 DEF Result, Accepted
  <2> HIDE DEF p, r
  <2>2. Honest(ReadyUp(match, p, FALSE, clock), match, clock)
    BY <1>1, <2>1, ReadyUpHonest
  <2> QED
    BY <2>1, <2>2, HonestHonoured
<1>5. CASE r.kind = "leave"
  <2>1. Result(c) = LeaveMatch(match, p, clock) /\ CanLeaveMatch(match, p, clock)
    BY <1>5 DEF Result, Accepted
  <2> HIDE DEF p, r
  <2>2. Honest(LeaveMatch(match, p, clock), match, clock)
    BY <1>1, <2>1, LeaveMatchHonest
  <2> QED
    BY <2>1, <2>2, HonestHonoured
<1>6. CASE r.kind = "cancel"
  <2>1. Result(c) = CancelMatch(match, clock) /\ CanCancelMatch(match, clock)
    BY <1>6 DEF Result, Accepted
  <2>2. Honest(CancelMatch(match, clock), match, clock)
    BY <1>1, <2>1, CancelMatchHonest
  <2> QED
    BY <2>1, <2>2, HonestHonoured
<1>7. CASE r.kind = "move"
  <2>1. Result(c) = Move(match, p, r.cell, clock) /\ CanMove(match, p, r.cell, clock)
    BY <1>7 DEF Result, Accepted
  <2> HIDE DEF p, r
  <2> QED
    BY <1>1, <1>2, <2>1, MoveHonoured
<1> QED
  BY <1>2, <1>3, <1>4, <1>5, <1>6, <1>7

\* Receipts and history take a command once.
LEMMA AppliedOnce ==
  ASSUME NEW S, NEW a, a \in Seq(S), IsInjective(a), NEW c \in S, c \notin ToSet(a)
  PROVE  /\ Append(a, c) \in Seq(S) /\ IsInjective(Append(a, c))
         /\ ToSet(Append(a, c)) = ToSet(a) \cup {c}
<1> DEFINE n == Len(a)
           b == Append(a, c)
<1>1. n \in Nat /\ DOMAIN a = 1..n
  BY LenProperties
<1>2. /\ b \in Seq(S) /\ DOMAIN b = 1..(n + 1) /\ b[n + 1] = c
      /\ \A k \in 1..n : b[k] = a[k]
  <2>1. b \in Seq(S) /\ Len(b) = n + 1 /\ b[n + 1] = c /\ \A k \in 1..n : b[k] = a[k]
    BY AppendProperties
  <2>2. DOMAIN b = 1..Len(b)
    BY <2>1, LenProperties
  <2> QED
    BY <2>1, <2>2
<1> HIDE DEF n, b
<1>3. \A k \in 1..n : a[k] \in ToSet(a) /\ a[k] # c
  BY <1>1 DEF ToSet
<1>4. IsInjective(b)
  <2> SUFFICES ASSUME NEW j \in DOMAIN b, NEW k \in DOMAIN b, b[j] = b[k]
               PROVE  j = k
    BY DEF IsInjective
  <2>1. j \in 1..n \/ j = n + 1
    BY <1>1, <1>2
  <2>2. k \in 1..n \/ k = n + 1
    BY <1>1, <1>2
  <2>3. CASE j \in 1..n /\ k \in 1..n
    BY <1>1, <1>2, <2>3 DEF IsInjective
  <2>4. CASE j \in 1..n /\ k = n + 1
    BY <1>2, <1>3, <2>4
  <2>5. CASE j = n + 1 /\ k \in 1..n
    BY <1>2, <1>3, <2>5
  <2>6. CASE j = n + 1 /\ k = n + 1
    BY <2>6
  <2> QED
    BY <2>1, <2>2, <2>3, <2>4, <2>5, <2>6
<1>5. ToSet(b) = ToSet(a) \cup {c}
  <2>1. \A k \in DOMAIN b : b[k] \in ToSet(a) \cup {c}
    <3> SUFFICES ASSUME NEW k \in DOMAIN b PROVE b[k] \in ToSet(a) \cup {c}
      OBVIOUS
    <3>1. k \in 1..n \/ k = n + 1
      BY <1>1, <1>2
    <3> QED
      BY <1>2, <1>3, <3>1
  <2>2. \A x \in ToSet(a) : x \in ToSet(b)
    <3> SUFFICES ASSUME NEW x \in ToSet(a) PROVE x \in ToSet(b)
      OBVIOUS
    <3>1. PICK k \in 1..n : a[k] = x
      BY <1>1 DEF ToSet
    <3>2. k \in DOMAIN b /\ b[k] = x
      BY <1>1, <1>2, <3>1
    <3> QED
      BY <3>2 DEF ToSet
  <2>3. c \in ToSet(b)
    <3>1. n + 1 \in DOMAIN b
      BY <1>1, <1>2
    <3> QED
      BY <1>2, <3>1 DEF ToSet
  <2>4. \A x \in ToSet(b) : x \in ToSet(a) \cup {c}
    BY <2>1 DEF ToSet
  <2> QED
    BY <2>2, <2>3, <2>4
<1> QED
  BY <1>2, <1>4, <1>5 DEF b

LEMMA HandledKeeps ==
  ASSUME WorldOK, SentOK, HistoryOK, NEW c \in Sent, Handled(c),
         UNCHANGED <<scene, clock, members, sent, copies>>
  PROVE  WorldOK' /\ HistoryOK' /\ Honoured(match', match, clock)
<1>1. Sent' = Sent /\ c \in Commands
  BY NothingSent DEF Sent
<1>2. CASE UNCHANGED <<match, receipts, applied>>
  <2>1. Honoured(match', match, clock)
    BY <1>2, SelfHonoured DEF WorldOK
  <2> QED
    BY <1>1, <1>2, <2>1 DEF WorldOK, HistoryOK
<1>3. CASE /\ ~Processed(c) /\ Accepted(c) /\ match' = Result(c)
           /\ receipts' = receipts \cup {c} /\ applied' = Append(applied, c)
  <2>1. Held(match', clock) /\ Honoured(match', match, clock)
    BY <1>1, <1>3, ResultHonoured
  <2>2. WorldOK'
    BY <2>1 DEF WorldOK
  <2>3. c \notin ToSet(applied)
    BY <1>3 DEF HistoryOK, Processed
  <2>4. /\ applied' \in Seq(Sent) /\ IsInjective(applied')
        /\ ToSet(applied') = ToSet(applied) \cup {c}
    BY <1>3, <2>3, AppliedOnce DEF HistoryOK
  <2>5. receipts' \subseteq Sent /\ ToSet(applied') = receipts'
    BY <1>3, <2>4 DEF HistoryOK
  <2> QED
    BY <1>1, <2>1, <2>2, <2>4, <2>5 DEF HistoryOK
<1> QED
  BY <1>2, <1>3 DEF Handled

\* What becomes of a room with the rest of its queue.
LEMMA AfterKeeps ==
  ASSUME NEW i \in Instances, owner \in Instances \cup {Nowhere},
         RoomsIn(rooms, Entries, clock), NEW q \in Seq(Entries), Len(q) <= QueueSize,
         NEW s \in Session, s.updatedAt <= clock, After(i, q, s)
  PROVE  owner' \in Instances \cup {Nowhere} /\ RoomsIn(rooms', Entries, clock)
<1>1. CASE rooms' = [rooms EXCEPT ![i] = [queue |-> q, snapshot |-> s]] /\ UNCHANGED owner
  <2>1. RoomIn([queue |-> q, snapshot |-> s], Entries, clock)
    BY DEF RoomIn
  <2> QED
    BY <1>1, <2>1, RoomChanged
<1>2. CASE rooms' = [rooms EXCEPT ![i] = Nowhere] /\ owner' \in {owner, Nowhere}
  <2>1. RoomsIn([rooms EXCEPT ![i] = Nowhere], Entries, clock)
    BY RoomChanged
  <2> QED
    BY <1>2, <2>1
<1> QED
  BY <1>1, <1>2 DEF After

LEMMA ProcessKeeps ==
  ASSUME StreamInv, NEW i \in Instances, Process(i)
  PROVE  StreamInv' /\ Honoured(match', match, clock)
<1> DEFINE e == Head(rooms[i].queue)
           c == e.command
           q == Tail(rooms[i].queue)
<1>1. /\ WorldOK /\ SentOK /\ HistoryOK /\ owner \in Instances \cup {Nowhere}
      /\ StreamsIn(stream, Entries) /\ RoomsIn(rooms, Entries, clock)
  BY DEF StreamInv
<1>2. rooms[i] # Nowhere /\ rooms[i].queue # <<>>
  BY DEF Process
<1>3. /\ rooms[i].queue \in Seq(Entries) /\ Len(rooms[i].queue) <= QueueSize
      /\ rooms[i].snapshot \in Session /\ rooms[i].snapshot.updatedAt <= clock
  BY <1>1, <1>2, RoomTypes
<1>4. e \in Entries /\ q \in Seq(Entries) /\ Len(q) <= QueueSize
  <2>1. e \in Entries /\ q \in Seq(Entries) /\ Len(q) <= Len(rooms[i].queue)
    BY <1>2, <1>3, QueueTail
  <2>2. Len(q) \in Nat /\ Len(rooms[i].queue) \in Nat /\ QueueSize \in Nat
    BY <1>3, <2>1, LenProperties, StreamAssumption
  <2> QED
    BY <1>3, <2>1, <2>2
<1>5. c \in Sent
  BY <1>4 DEF Entries
<1>6. UNCHANGED <<scene, clock, members, sent, copies>> /\ Handled(c)
  BY DEF Process
<1>7. WorldOK' /\ HistoryOK' /\ Honoured(match', match, clock)
  BY <1>1, <1>5, <1>6, HandledKeeps
<1>8. Entries' = Entries /\ SentOK'
  BY <1>1, <1>6, NothingSent
<1>9. match'.session \in Session /\ match'.session.updatedAt <= clock
  BY <1>6, <1>7, SessionTime DEF WorldOK, Held, MatchInv
<1>10. After(i, q, match'.session) \/ After(i, q, rooms[i].snapshot)
  BY DEF Process
<1>11. stream' = stream \/ stream' = Unacknowledged(stream, i, e)
  BY DEF Process
<1> HIDE DEF q, e, c
<1>12. owner' \in Instances \cup {Nowhere} /\ RoomsIn(rooms', Entries, clock)
  <2>1. CASE After(i, q, match'.session)
    <3> DEFINE s == match'.session
    <3>1. s \in Session /\ s.updatedAt <= clock /\ After(i, q, s)
      BY <1>9, <2>1
    <3> HIDE DEF s
    <3> QED
      BY <1>1, <1>4, <3>1, AfterKeeps
  <2>2. CASE After(i, q, rooms[i].snapshot)
    BY <1>1, <1>3, <1>4, <2>2, AfterKeeps
  <2> QED
    BY <1>10, <2>1, <2>2
<1>13. StreamsIn(stream', Entries)
  BY <1>1, <1>11, AcknowledgedStream
<1> QED
  BY <1>6, <1>7, <1>8, <1>12, <1>13 DEF StreamInv

LEMMA ProcessInVainKeeps ==
  ASSUME StreamInv, NEW i \in Instances, ProcessInVain(i)
  PROVE  StreamInv' /\ Honoured(match', match, clock)
<1> DEFINE e == Head(rooms[i].queue)
           c == e.command
           q == Tail(rooms[i].queue)
<1>1. /\ WorldOK /\ SentOK /\ HistoryOK /\ owner \in Instances \cup {Nowhere}
      /\ StreamsIn(stream, Entries) /\ RoomsIn(rooms, Entries, clock)
  BY DEF StreamInv
<1>2. rooms[i] # Nowhere /\ rooms[i].queue # <<>>
  BY DEF ProcessInVain
<1>3. rooms[i].queue \in Seq(Entries) /\ Len(rooms[i].queue) <= QueueSize
  BY <1>1, <1>2, RoomTypes
<1>4. e \in Entries /\ q \in Seq(Entries) /\ Len(q) <= QueueSize
  <2>1. e \in Entries /\ q \in Seq(Entries) /\ Len(q) <= Len(rooms[i].queue)
    BY <1>2, <1>3, QueueTail
  <2>2. Len(q) \in Nat /\ Len(rooms[i].queue) \in Nat /\ QueueSize \in Nat
    BY <1>3, <2>1, LenProperties, StreamAssumption
  <2> QED
    BY <1>3, <2>1, <2>2
<1>5. c \in Sent
  BY <1>4 DEF Entries
<1>6. UNCHANGED <<scene, clock, members, sent, copies, owner, stream>>
  BY DEF ProcessInVain
<1>7. WorldOK' /\ HistoryOK' /\ Honoured(match', match, clock)
  <2>1. CASE Handled(c)
    BY <1>1, <1>5, <1>6, <2>1, HandledKeeps
  <2>2. CASE UNCHANGED <<match, receipts, applied>>
    <3>1. Sent' = Sent
      BY <1>1, <1>6, NothingSent
    <3>2. Honoured(match', match, clock)
      BY <1>1, <2>2, SelfHonoured DEF WorldOK
    <3> QED
      BY <1>1, <1>6, <2>2, <3>1, <3>2 DEF WorldOK, HistoryOK
  <2> QED
    BY <2>1, <2>2 DEF ProcessInVain
<1>8. Entries' = Entries /\ SentOK'
  BY <1>1, <1>6, NothingSent
<1>9. rooms' = [rooms EXCEPT ![i].queue = q]
  BY DEF ProcessInVain
<1> HIDE DEF q, e, c
<1>10. RoomsIn([rooms EXCEPT ![i].queue = q], Entries, clock)
  BY <1>1, <1>2, <1>4, QueueChanged
<1> QED
  BY <1>1, <1>6, <1>7, <1>8, <1>9, <1>10 DEF StreamInv

\* What a room's snapshot tells its timer.
LEMMA SnapshotTimes ==
  ASSUME NEW s \in Session
  PROVE  /\ SessionDeadline(s, TRUE) \in Nat /\ s.updatedAt \in Nat
         /\ Revoked(s) \in SUBSET Players
<1>1. /\ s.readyWindowEndsAt \in Nat /\ s.countdownEndsAt \in Nat /\ s.startedAt \in Nat
      /\ s.turnDeadline \in Nat /\ s.updatedAt \in Nat
  BY DEF Session, Time
<1>2. SessionDeadline(s, TRUE) \in {s.readyWindowEndsAt, s.countdownEndsAt, s.startedAt,
                                   s.turnDeadline, NoTime}
  BY DEF SessionDeadline
<1>3. Revoked(s) \in SUBSET Players
  BY DEF Revoked, Current, InState
<1> DEFINE deadline == SessionDeadline(s, TRUE)
<1>4. deadline \in {s.readyWindowEndsAt, s.countdownEndsAt, s.startedAt, s.turnDeadline, NoTime}
  BY <1>2
<1> HIDE DEF deadline
<1>5. deadline \in Nat
  BY <1>1, <1>4 DEF NoTime
<1> QED
  BY <1>1, <1>3, <1>5 DEF deadline

\* The match changed, or the room's view of it, and nothing of the streams.
LEMMA RoomStep ==
  ASSUME StreamInv, NEW i \in Instances, rooms[i] # Nowhere,
         Held(match', clock), Honoured(match', match, clock),
         \/ After(i, rooms[i].queue, match'.session)
         \/ /\ rooms' = [rooms EXCEPT ![i].snapshot = match'.session]
            /\ UNCHANGED owner,
         UNCHANGED <<scene, clock, members, receipts, sent, copies, stream, applied>>
  PROVE  StreamInv' /\ Honoured(match', match, clock)
<1>1. /\ WorldOK /\ SentOK /\ HistoryOK /\ owner \in Instances \cup {Nowhere}
      /\ StreamsIn(stream, Entries) /\ RoomsIn(rooms, Entries, clock)
  BY DEF StreamInv
<1> DEFINE s == match'.session
           q == rooms[i].queue
<1>2. s \in Session /\ s.updatedAt <= clock
  BY SessionTime DEF Held, MatchInv
<1>3. q \in Seq(Entries) /\ Len(q) <= QueueSize
  BY <1>1, RoomTypes
<1>4. Entries' = Entries /\ SentOK' /\ Sent' = Sent
  BY <1>1, NothingSent
<1>5. WorldOK' /\ HistoryOK'
  BY <1>1, <1>4 DEF WorldOK, HistoryOK
<1>6. owner' \in Instances \cup {Nowhere} /\ RoomsIn(rooms', Entries, clock)
  <2>1. CASE After(i, q, s)
    <3> HIDE DEF s, q
    <3> QED
      BY <1>1, <1>2, <1>3, <2>1, AfterKeeps
  <2>2. CASE rooms' = [rooms EXCEPT ![i].snapshot = s] /\ UNCHANGED owner
    <3> HIDE DEF s
    <3>1. RoomsIn([rooms EXCEPT ![i].snapshot = s], Entries, clock)
      BY <1>1, <1>2, SnapshotChanged
    <3> QED
      BY <1>1, <2>2, <3>1
  <2> QED
    BY <2>1, <2>2
<1> QED
  BY <1>1, <1>4, <1>5, <1>6 DEF StreamInv

LEMMA HandleRoomDeadlineKeeps ==
  ASSUME StreamInv, NEW i \in Instances, HandleRoomDeadline(i)
  PROVE  StreamInv' /\ Honoured(match', match, clock)
<1> DEFINE s == rooms[i].snapshot
           deadline == SessionDeadline(s, TRUE)
           q == rooms[i].queue
<1>1. /\ Held(match, clock) /\ clock \in Nat /\ RoomsIn(rooms, Entries, clock)
      /\ rooms[i] # Nowhere
  BY DEF StreamInv, WorldOK, HandleRoomDeadline
<1>2. s \in Session /\ s.updatedAt <= clock
  BY <1>1, RoomTypes
<1>3. deadline \in Nat /\ deadline <= clock /\ s.updatedAt \in Nat /\ Revoked(s) \in SUBSET Players
  BY <1>2, SnapshotTimes DEF HandleRoomDeadline
<1>4. UNCHANGED <<scene, clock, members, receipts, sent, copies, stream, applied>>
  BY DEF HandleRoomDeadline
<1>5. CASE /\ match' = ExcludeMatch(match, Revoked(s), LaterOf(deadline, s.updatedAt))
           /\ After(i, q, match'.session)
  <2> DEFINE at == LaterOf(deadline, s.updatedAt)
  <2>1. at \in Nat /\ at <= clock
    BY <1>2, <1>3 DEF LaterOf
  <2>2. match' = ExcludeMatch(match, Revoked(s), at)
    BY <1>5
  <2> HIDE DEF at, s
  <2>3. Honest(ExcludeMatch(match, Revoked(s), at), match, clock)
    BY <1>1, <1>3, <2>1, ExcludeMatchHonest
  <2>4. Held(match', clock) /\ Honoured(match', match, clock)
    BY <2>2, <2>3, HonestHonoured
  <2> QED
    BY <1>1, <1>4, <1>5, <2>4, RoomStep
<1>6. CASE /\ CanAdvanceMatch(match, deadline) /\ match' = AdvanceMatch(match, deadline)
           /\ After(i, q, match'.session)
  <2> HIDE DEF deadline
  <2>1. Honest(AdvanceMatch(match, deadline), match, clock)
    BY <1>1, <1>3, <1>6, AdvanceMatchHonest
  <2>2. Held(match', clock) /\ Honoured(match', match, clock)
    BY <1>6, <2>1, HonestHonoured
  <2> QED
    BY <1>1, <1>4, <1>6, <2>2, RoomStep
<1>7. CASE UNCHANGED match
           /\ \/ After(i, q, match.session)
              \/ rooms' = [rooms EXCEPT ![i].snapshot = match.session] /\ UNCHANGED owner
  <2>1. Held(match', clock) /\ Honoured(match', match, clock)
    BY <1>1, <1>7, SelfHonoured
  <2>2. \/ After(i, q, match'.session)
        \/ rooms' = [rooms EXCEPT ![i].snapshot = match'.session] /\ UNCHANGED owner
    BY <1>7
  <2> QED
    BY <1>1, <1>4, <2>1, <2>2, RoomStep
<1> QED
  BY <1>5, <1>6, <1>7 DEF HandleRoomDeadline

LEMMA ReconcileRoomKeeps ==
  ASSUME StreamInv, NEW i \in Instances, ReconcileRoom(i)
  PROVE  StreamInv' /\ Honoured(match', match, clock)
<1> DEFINE s == rooms[i].snapshot
           deadline == SessionDeadline(s, TRUE)
           due == IF deadline # NoTime /\ deadline < clock THEN deadline ELSE clock
           at == LaterOf(due, s.updatedAt)
           q == rooms[i].queue
<1>1. /\ Held(match, clock) /\ clock \in Nat /\ RoomsIn(rooms, Entries, clock)
      /\ rooms[i] # Nowhere
  BY DEF StreamInv, WorldOK, ReconcileRoom
<1>2. s \in Session /\ s.updatedAt <= clock
  BY <1>1, RoomTypes
<1>3. deadline \in Nat /\ s.updatedAt \in Nat /\ Revoked(s) \in SUBSET Players
  BY <1>2, SnapshotTimes
<1>4. at \in Nat /\ at <= clock
  <2>1. due \in Nat /\ due <= clock
    <3> HIDE DEF deadline
    <3>1. CASE deadline # NoTime /\ deadline < clock
      BY <1>1, <1>3, <3>1
    <3>2. CASE ~(deadline # NoTime /\ deadline < clock)
      BY <1>1, <3>2
    <3> QED
      BY <3>1, <3>2
  <2> HIDE DEF due, s
  <2> QED
    BY <1>2, <1>3, <2>1 DEF LaterOf
<1>5. /\ match' = ExcludeMatch(match, Revoked(s), at) /\ After(i, q, match'.session)
      /\ UNCHANGED <<scene, clock, members, receipts, sent, copies, stream, applied>>
  BY DEF ReconcileRoom
<1> HIDE DEF at, s
<1>6. Honest(ExcludeMatch(match, Revoked(s), at), match, clock)
  BY <1>1, <1>3, <1>4, ExcludeMatchHonest
<1>7. Held(match', clock) /\ Honoured(match', match, clock)
  BY <1>5, <1>6, HonestHonoured
<1> QED
  BY <1>1, <1>5, <1>7, RoomStep

\* A step of the world that leaves the match and the scripts alone.
LEMMA WorldStep ==
  ASSUME StreamInv, UNCHANGED <<scene, match, receipts, sent, copies, stream, applied>>,
         clock' \in Nat, clock <= clock', members' \subseteq members,
         owner' \in {owner, Nowhere},
         rooms' = rooms \/ \E i \in Instances : rooms' = [rooms EXCEPT ![i] = Nowhere]
  PROVE  StreamInv'
<1>1. /\ WorldOK /\ SentOK /\ HistoryOK /\ owner \in Instances \cup {Nowhere}
      /\ StreamsIn(stream, Entries) /\ RoomsIn(rooms, Entries, clock) /\ clock \in Nat
  BY DEF StreamInv, WorldOK
<1>2. Entries' = Entries /\ SentOK' /\ Sent' = Sent
  BY <1>1, NothingSent
<1>3. WorldOK' /\ HistoryOK'
  <2>1. match.session.updatedAt \in Nat /\ match.session.updatedAt <= clock
    BY <1>1, SessionTime DEF WorldOK, Held, MatchInv
  <2>2. match.session.updatedAt <= clock'
    BY <1>1, <2>1
  <2> QED
    BY <1>1, <1>2, <2>2 DEF WorldOK, Held, HistoryOK
<1>4. RoomsIn(rooms', Entries, clock')
  <2>1. RoomsIn(rooms', Entries, clock)
    BY <1>1, RoomChanged
  <2> DEFINE T == clock
             U == clock'
             rs == rooms'
  <2>2. T \in Nat /\ U \in Nat /\ T <= U /\ RoomsIn(rs, Entries, T)
    BY <1>1, <2>1
  <2> HIDE DEF T, U, rs
  <2>3. RoomsIn(rs, Entries, U)
    BY <2>2, RoomsGrow
  <2> QED
    BY <2>3 DEF rs, U
<1> QED
  BY <1>1, <1>2, <1>3, <1>4 DEF StreamInv

LEMMA StreamStep == StreamInv /\ [StreamNext]_streamVars => StreamInv' /\ Honoured(match', match, clock)
<1> SUFFICES ASSUME StreamInv, [StreamNext]_streamVars
             PROVE  StreamInv' /\ Honoured(match', match, clock)
  OBVIOUS
<1>0. Held(match, clock) /\ clock \in Nat /\ (match' = match => Honoured(match', match, clock))
  BY SelfHonoured DEF StreamInv, WorldOK
<1>1. ASSUME NEW p \in Players, Send(p)
      PROVE  StreamInv' /\ Honoured(match', match, clock)
  BY <1>0, <1>1, SendKeeps
<1>2. ASSUME NEW p \in Players, Revoke(p)
      PROVE  StreamInv' /\ Honoured(match', match, clock)
  <2>1. /\ UNCHANGED <<scene, match, receipts, sent, copies, stream, applied>>
        /\ clock' \in Nat /\ clock <= clock' /\ members' \subseteq members
        /\ owner' = owner /\ rooms' = rooms
    BY <1>0, <1>2 DEF Revoke
  <2> QED
    BY <1>0, <2>1, WorldStep
<1>3. ASSUME NEW c \in Commands, Resend(c)
      PROVE  StreamInv' /\ Honoured(match', match, clock)
  BY <1>0, <1>3, ResendKeeps
<1>4. ASSUME NEW i \in Instances, Read(i)
      PROVE  StreamInv' /\ Honoured(match', match, clock)
  BY <1>0, <1>4, ReadKeeps
<1>5. ASSUME NEW i \in Instances, Process(i) \/ ProcessInVain(i)
      PROVE  StreamInv' /\ Honoured(match', match, clock)
  BY <1>5, ProcessKeeps, ProcessInVainKeeps
<1>6. ASSUME NEW i \in Instances, HandleRoomDeadline(i) \/ ReconcileRoom(i)
      PROVE  StreamInv' /\ Honoured(match', match, clock)
  BY <1>6, HandleRoomDeadlineKeeps, ReconcileRoomKeeps
<1>7. ASSUME NEW i \in Instances, Stop(i) \/ Crash(i)
      PROVE  StreamInv' /\ Honoured(match', match, clock)
  <2>1. /\ UNCHANGED <<scene, match, receipts, sent, copies, stream, applied>>
        /\ clock' \in Nat /\ clock <= clock' /\ members' \subseteq members
        /\ owner' = owner /\ rooms' = [rooms EXCEPT ![i] = Nowhere]
    BY <1>0, <1>7 DEF Stop, Crash
  <2> QED
    BY <1>0, <2>1, WorldStep
<1>8. ASSUME NEW i \in Instances, NEW e, Redeliver(i, e)
      PROVE  StreamInv' /\ Honoured(match', match, clock)
  BY <1>0, <1>8, RedeliverKeeps
<1>9. CASE Elapse \/ Lapse \/ Expiry
  <2>1. /\ UNCHANGED <<scene, match, receipts, sent, copies, stream, applied>>
        /\ clock' \in Nat /\ clock <= clock' /\ members' \subseteq members
        /\ owner' \in {owner, Nowhere} /\ rooms' = rooms
    BY <1>0, <1>9 DEF Elapse, Lapse, Expiry
  <2> QED
    BY <1>0, <2>1, WorldStep
<1>10. CASE UNCHANGED streamVars
  <2>1. /\ UNCHANGED <<scene, match, receipts, sent, copies, stream, applied>>
        /\ clock' \in Nat /\ clock <= clock' /\ members' \subseteq members
        /\ owner' \in {owner, Nowhere} /\ rooms' = rooms
    BY <1>0, <1>10 DEF streamVars
  <2> QED
    BY <1>0, <2>1, WorldStep
<1> QED
  BY <1>1, <1>2, <1>3, <1>4, <1>5, <1>6, <1>7, <1>8, <1>9, <1>10 DEF StreamNext

-----------------------------------------------------------------------------
(* The room at the beginning *)

LEMMA EverybodyJoined ==
  /\ ToSet(JoinOrder) \subseteq Players
  /\ Cardinality(ToSet(JoinOrder)) = Len(JoinOrder) /\ Len(JoinOrder) \in Nat
  /\ MinPlayers <= Len(JoinOrder) /\ Len(JoinOrder) <= MaxPlayers
<1> DEFINE n == Len(JoinOrder)
           S == ToSet(JoinOrder)
<1>1. /\ JoinOrder \in Seq(Players) /\ IsInjective(JoinOrder) /\ n \in MinPlayers..MaxPlayers
      /\ MinPlayers \in Nat /\ MaxPlayers \in Nat
  BY TurnAssumption, RulesAssumption
<1>2. n \in Nat /\ DOMAIN JoinOrder = 1..n /\ JoinOrder \in [1..n -> Players]
  BY <1>1, LenProperties
<1>3. S \subseteq Players /\ \A k \in 1..n : JoinOrder[k] \in S
  BY <1>2 DEF ToSet
<1>4. JoinOrder \in [1..n -> S]
  BY <1>2, <1>3
<1>5. \A x \in S : \E k \in 1..n : JoinOrder[k] = x
  BY <1>2 DEF ToSet
<1> HIDE DEF n, S
<1>6. JoinOrder \in Surjection(1..n, S)
  BY <1>4, <1>5, Fun_IsSurj
<1>7. JoinOrder \in Injection(1..n, S)
  <2>1. \A a \in 1..n, b \in 1..n : JoinOrder[a] = JoinOrder[b] => a = b
    BY <1>1, <1>2 DEF IsInjective
  <2> QED
    BY <1>4, <2>1, Fun_IsInj
<1>8. IsFiniteSet(1..n) /\ Cardinality(1..n) = n
  <2>1. 1 \in Int /\ n \in Int
    BY <1>2
  <2>2. IsFiniteSet(1..n) /\ Cardinality(1..n) = IF 1 > n THEN 0 ELSE n - 1 + 1
    BY <2>1, FS_Interval
  <2> QED
    BY <1>2, <2>2
<1>9. Cardinality(S) = n
  BY <1>6, <1>7, <1>8, FS_Surjection
<1> QED
  BY <1>1, <1>2, <1>3, <1>9 DEF n, S

\* Everybody who joined is in the lobby, all waiting or all ready.
LEMMA JoinedLobby ==
  ASSUME NEW player \in Player, player.state \in {"waiting", "ready"}
  PROVE  /\ Sound(Joined(player)) /\ Fresh(Joined(player))
         /\ Joined(player).state = "lobby" /\ Joined(player).updatedAt = 1
         /\ player.state = "ready" => EnoughReady(Joined(player))
<1> DEFINE S == ToSet(JoinOrder)
           players == [p \in Players |-> IF p \in S THEN player ELSE NoPlayer]
           n == Len(JoinOrder)
           s == Joined(player)
<1>1. /\ S \subseteq Players /\ Cardinality(S) = n /\ n \in Nat
      /\ MinPlayers <= n /\ n <= MaxPlayers
  BY EverybodyJoined
<1>2. s = [[NewGameSession(1) EXCEPT !.players = players] EXCEPT !.version = @ + n, !.updatedAt = 1]
  BY DEF Joined, Recorded
<1>3. NoPlayer \in Player /\ NoPlayer.state = "absent"
  BY DEF NoPlayer, Player, PlayerStates, Time, NoTime
<1>4. players \in [Players -> Player]
  BY <1>3
<1>5. /\ \A p \in S : players[p] = player
      /\ \A p \in Players : p \notin S => players[p].state = "absent"
  BY <1>1, <1>3
<1> HIDE DEF players, n, S, s
<1>6. s = [state |-> "lobby", players |-> players, turnStored |-> FALSE, turnDeadline |-> NoTime,
           updatedAt |-> 1, readyWindowEndsAt |-> NoTime, countdownEndsAt |-> NoTime,
           startedAt |-> NoTime, endedAt |-> NoTime, endReason |-> NoReason, version |-> 1 + n]
  BY <1>2 DEF NewGameSession
<1>7. s \in Session
  BY <1>1, <1>4, <1>6 DEF Session, SessionStates, Time, NoTime, EndReasons, NoReason
<1>8. InState(s, {"playing", "finished"}) = {}
  <2>1. \A p \in Players : players[p].state \notin {"playing", "finished"}
    BY <1>5
  <2> QED
    BY <1>6, <2>1 DEF InState
<1>9. Current(s) = S
  <2>1. \A p \in Players : p \in S <=> players[p].state \in {"waiting", "ready", "playing", "finished"}
    BY <1>5
  <2> QED
    BY <1>1, <1>6, <2>1 DEF Current, InState
<1>10. player.state = "ready" => Ready(s) = S
  <2>1. player.state = "ready" => \A p \in Players : p \in S <=> players[p].state \in {"ready"}
    BY <1>5
  <2> QED
    BY <1>1, <1>6, <2>1 DEF Ready, InState
<1>11. s.state = "lobby" /\ s.version >= 1 /\ s.updatedAt = 1
  BY <1>1, <1>6
<1>12. Sound(s)
  BY <1>1, <1>7, <1>8, <1>9, <1>11 DEF Sound, CurrentPlayerCount, TimesAcceptable, Terminal, NoTime
<1>13. Fresh(s)
  BY <1>6 DEF Fresh
<1>14. player.state = "ready" => EnoughReady(s)
  BY <1>1, <1>10 DEF EnoughReady, ReadyPlayerCount
<1> QED
  BY <1>11, <1>12, <1>13, <1>14 DEF s

LEMMA LobbyMatch == MatchInv(Lobby)
<1> DEFINE s == Joined(Waiting)
<1>1. Waiting \in Player /\ Waiting.state = "waiting"
  BY DEF Waiting, Player, PlayerStates, Time, NoTime
<1>2. Sound(s) /\ Fresh(s) /\ s.state = "lobby"
  BY <1>1, JoinedLobby
<1> HIDE DEF s
<1>3. Good(s)
  BY <1>2 DEF Good, Balanced
<1>4. /\ Lobby = [session |-> s, game |-> NoGame, result |-> NoResult]
  BY DEF Lobby, s
<1> QED
  BY <1>2, <1>3, <1>4 DEF MatchInv, IsMatch, Unbegun

LEMMA BegunMatchAtStart == MatchInv(Begin)
<1> DEFINE player == [Waiting EXCEPT !.state = "ready", !.readyAt = 1]
           n == Len(JoinOrder)
           j == Joined(player)
           ready == Recorded(j, n, 1)
           opened == OpenReadyWindow(ready, 1)
           counting == StartCountdown(opened, 1)
           m == [Lobby EXCEPT !.session = counting]
           T == 1 + Countdown
<1>1. player \in Player /\ player.state = "ready"
  BY DEF Waiting, Player, PlayerStates, Time, NoTime
<1> HIDE DEF player
<1>2. Sound(j) /\ Fresh(j) /\ j.state = "lobby" /\ j.updatedAt = 1 /\ EnoughReady(j)
  BY <1>1, JoinedLobby
<1>3. n \in Nat
  BY EverybodyJoined
<1> HIDE DEF j, n
<1>4. Sound(ready) /\ Fresh(ready) /\ ready.state = "lobby" /\ EnoughReady(ready)
  <2>1. j \in Session
    BY <1>2 DEF Sound
  <2>2. /\ ready \in Session /\ ready.version = j.version + n /\ ready.updatedAt = 1
        /\ ready.state = j.state /\ ready.players = j.players
        /\ ready.turnStored = j.turnStored /\ ready.turnDeadline = j.turnDeadline
        /\ ready.startedAt = j.startedAt /\ ready.endedAt = j.endedAt
        /\ ready.endReason = j.endReason
    <3>1. 1 \in Nat
      OBVIOUS
    <3>2. /\ ready \in Session /\ ready.version = j.version + n /\ ready.updatedAt = 1
          /\ ready.state = j.state /\ ready.players = j.players
          /\ ready.startedAt = j.startedAt /\ ready.endedAt = j.endedAt
          /\ ready.endReason = j.endReason
      BY <1>3, <2>1, <3>1, RecordedSession
    <3>3. ready.turnStored = j.turnStored /\ ready.turnDeadline = j.turnDeadline
      BY <2>1 DEF Recorded, Session
    <3> QED
      BY <3>2, <3>3
  <2> HIDE DEF ready
  <2>3. ready.version >= 1
    <3>1. j.version \in Nat /\ j.version >= 1
      BY <1>2, <2>1 DEF Sound, Session
    <3> QED
      BY <1>3, <2>2, <3>1
  <2>4. CurrentPlayerCount(ready) <= MaxPlayers
    BY <1>2, <2>2 DEF Sound, CurrentPlayerCount, Current, InState
  <2>5. InState(ready, {"playing", "finished"}) = {}
    BY <1>2, <2>2 DEF Sound, InState, AcceptsPlayers
  <2>6. Sound(ready)
    BY <1>2, <2>2, <2>3, <2>4, <2>5 DEF Sound, TimesAcceptable, Terminal, NoTime
  <2>7. EnoughReady(ready)
    BY <1>2, <2>2 DEF EnoughReady, ReadyPlayerCount, Ready, InState
  <2> QED
    BY <1>2, <2>2, <2>6, <2>7 DEF Fresh
<1> HIDE DEF ready
<1>5. Good(opened) /\ FreshBy(opened, 1) /\ opened.state = "readyWindow"
  <2>1. ready \in Session
    BY <1>4 DEF Sound
  <2> QED
    BY <1>4, <2>1, OpenReadyWindowGood, OpenReadyWindowFresh
<1> HIDE DEF opened
<1>6. Good(counting) /\ FreshBy(counting, 1) /\ counting.state = "countdown"
  <2>1. opened \in Session /\ Sound(opened) /\ EnoughReady(opened) /\ Fresh(opened)
    BY <1>5 DEF Good, Sound, Balanced, FreshBy
  <2> QED
    BY <1>5, <2>1, StartCountdownGood, StartCountdownFresh
<1> HIDE DEF counting
<1>7. IsMatch(m) /\ m.session = counting /\ m.game = NoGame /\ m.result = NoResult
  <2>1. IsMatch(Lobby) /\ Lobby.game = NoGame /\ Lobby.result = NoResult
    BY DEF Lobby, IsMatch
  <2> QED
    BY <2>1, WithSession
<1>8. Begin = AdvanceMatch(m, T)
  BY DEF Begin, counting, opened, ready, j, n, player
<1> HIDE DEF m
<1>9. T \in Nat /\ 1 <= T
  BY RulesAssumption
<1>10. Held(m, T)
  <2>1. m.session.updatedAt <= T
    BY <1>6, <1>7, <1>9 DEF FreshBy
  <2> QED
    BY <1>6, <1>7, <2>1 DEF Held, MatchInv, Unbegun, FreshBy
<1>11. CanAdvanceMatch(m, T)
  <2>1. T > NoTime /\ T >= m.session.updatedAt
    BY <1>6, <1>7, <1>9 DEF FreshBy, NoTime
  <2> QED
    BY <1>6, <1>7, <2>1 DEF CanAdvanceMatch, CanAdvance, InOrder, Terminal
<1> HIDE DEF T
<1>12. T <= T
  BY <1>9
<1>13. Honest(AdvanceMatch(m, T), m, T)
  BY <1>9, <1>10, <1>11, <1>12, AdvanceMatchHonest
<1> QED
  BY <1>8, <1>13 DEF Honest, Held

LEMMA InitStreamInv == StreamInit => StreamInv
<1> SUFFICES ASSUME StreamInit PROVE StreamInv
  OBVIOUS
<1>1. /\ scene \in Scenes /\ members = Players /\ clock = match.session.updatedAt
      /\ receipts = {} /\ applied = <<>> /\ owner = Nowhere
      /\ sent = [p \in Players |-> 0] /\ copies = [c \in Commands |-> 0]
      /\ stream = [i \in Instances |-> [unread |-> <<>>, pending |-> {}]]
      /\ rooms = [i \in Instances |-> Nowhere]
  BY DEF StreamInit
<1>2. MatchInv(match)
  BY LobbyMatch, BegunMatchAtStart DEF StreamInit
<1>3. WorldOK
  <2>1. match.session.updatedAt \in Nat
    BY <1>2, SessionTime DEF MatchInv
  <2> QED
    BY <1>1, <1>2, <2>1 DEF WorldOK, Held
<1>4. SentOK
  <2>1. \A p \in Players : Len(scene.commands[p]) \in Nat
    <3>1. scene.commands \in [Players -> Seq(Requests)]
      BY <1>1, StreamAssumption
    <3> QED
      BY <3>1, LenProperties
  <2> QED
    BY <1>1, <2>1 DEF SentOK
<1>5. HistoryOK
  <2>1. <<>> \in Seq(Sent) /\ DOMAIN <<>> = {}
    <3>1. <<>> \in Seq(Sent) /\ Len(<<>>) = 0
      BY EmptySeq
    <3>2. DOMAIN <<>> = 1..Len(<<>>)
      BY <3>1, LenProperties
    <3>3. 1..0 = {}
      OBVIOUS
    <3> QED
      BY <3>1, <3>2, <3>3
  <2>2. ToSet(<<>>) = {} /\ IsInjective(<<>>)
    BY <2>1 DEF ToSet, IsInjective
  <2> QED
    BY <1>1, <2>1, <2>2 DEF HistoryOK
<1>6. StreamsIn(stream, Entries) /\ RoomsIn(rooms, Entries, clock)
  <2>1. <<>> \in Seq(Entries)
    BY EmptySeq
  <2> QED
    BY <1>1, <2>1 DEF StreamsIn, RoomsIn
<1> QED
  BY <1>1, <1>3, <1>4, <1>5, <1>6 DEF StreamInv

-----------------------------------------------------------------------------
(* Theorems about CommandStream *)

\* Between any two steps of clients, streams, rooms and the clock, the match is
\* one that has not begun, that two play and nobody has won, or that is over
\* with an earned result, and every receipt belongs to one command that was sent.
THEOREM StreamInvHolds == StreamSpec => []StreamInv
<1>1. StreamInv /\ [StreamNext]_streamVars => StreamInv'
  BY StreamStep
<1> QED
  BY <1>1, InitStreamInv, PTL DEF StreamSpec

\* A command that is sent twice, delivered again, forwarded between instances
\* or handled by two rooms takes effect once.
THEOREM EffectsHappenOnce == StreamSpec => []EffectsOnce
<1>1. StreamInv => EffectsOnce
  <2> SUFFICES ASSUME StreamInv PROVE EffectsOnce
    OBVIOUS
  <2>1. /\ WorldOK /\ SentOK /\ HistoryOK /\ owner \in Instances \cup {Nowhere}
        /\ StreamsIn(stream, Entries) /\ RoomsIn(rooms, Entries, clock)
    BY DEF StreamInv
  <2>2. match.session \in Session /\ Acceptable(match.session)
    BY <2>1 DEF WorldOK, Held, MatchInv, Good, Sound, Balanced, Acceptable, RosterAcceptable
  <2>3. ASSUME NEW i \in Instances
        PROVE  /\ \A e \in ToSet(stream[i].unread) \cup stream[i].pending :
                    e.command \in Sent /\ e.copy \in 1..copies[e.command]
               /\ rooms[i] # Nowhere => Len(rooms[i].queue) <= QueueSize
    <3>1. stream[i].unread \in Seq(Entries) /\ stream[i].pending \in SUBSET Entries
      BY <2>1, StreamTypes
    <3>2. \A e \in ToSet(stream[i].unread) : e \in Entries
      <4>1. DOMAIN stream[i].unread = 1..Len(stream[i].unread)
            /\ \A k \in 1..Len(stream[i].unread) : stream[i].unread[k] \in Entries
        BY <3>1, LenProperties, ElementOfSeq
      <4> QED
        BY <4>1 DEF ToSet
    <3>3. \A e \in Entries : e.command \in Sent /\ e.copy \in 1..copies[e.command]
      BY DEF Entries
    <3>4. rooms[i] # Nowhere => Len(rooms[i].queue) <= QueueSize
      BY <2>1, RoomTypes
    <3> QED
      BY <3>1, <3>2, <3>3, <3>4
  <2> QED
    BY <2>1, <2>2, <2>3 DEF EffectsOnce, StreamTypeOK, HistoryOK
<1> QED
  BY <1>1, StreamInvHolds, PTL

\* The stored result is the one the board, the turn and the roster call for,
\* and it is there exactly if a started session ended.
THEOREM ResultsAreEarned == StreamSpec => []ResultIsEarned
<1>1. StreamInv => ResultIsEarned
  <2> SUFFICES ASSUME MatchInv(match) PROVE ResultIsEarned
    BY DEF StreamInv, WorldOK, Held
  <2>1. NoResult.status = "none" /\ NoResult.reason = "none"
    BY ResultFields
  <2>2. CASE Unbegun(match)
    <3>1. /\ match.result = NoResult
          /\ ~(Terminal(match.session) /\ match.session.startedAt # NoTime)
          /\ ~(match.session.state = "cancelled" /\ match.session.startedAt # NoTime)
      BY <2>2 DEF Unbegun, Fresh, Terminal
    <3> QED
      BY <2>1, <3>1 DEF ResultIsEarned
  <2>3. CASE UnderWay(match)
    <3>1. match.result = NoResult /\ ~Terminal(match.session) /\ match.session.state # "cancelled"
      BY <2>3 DEF UnderWay, Playable, Terminal
    <3> QED
      BY <2>1, <3>1 DEF ResultIsEarned
  <2>4. CASE Over(match)
    BY <2>4 DEF Over, Earned, ResultIsEarned
  <2> QED
    BY <2>2, <2>3, <2>4 DEF MatchInv
<1> QED
  BY <1>1, StreamInvHolds, PTL

\* A mark is placed only by the player to move and in time, and a turn is
\* forfeited only when its deadline has passed, whatever a room's snapshot says.
THEOREM TurnsHonoured == StreamSpec => TurnsAreHonoured
<1> DEFINE Step ==
      LET m == IF match.session.state = "running" THEN Begun(match) ELSE match
          g == m.game
          s == m.session
      IN  /\ match'.game.board # g.board =>
               /\ match'.game.board \in {[g.board EXCEPT ![c] = Late(g)] : c \in {c \in Cells : g.board[c] = Nobody}}
               /\ clock < s.turnDeadline
               /\ s.players[Late(g)].state = "playing"
          /\ match'.result.reason = "turnTimeout" /\ match.result = NoResult =>
               clock >= s.turnDeadline
<1>1. StreamInv /\ [StreamNext]_streamVars => Step
  BY StreamStep DEF Honoured, Judged
<1>2. TurnsAreHonoured <=> [][Step]_streamVars
  BY DEF TurnsAreHonoured
<1> HIDE DEF Step
<1> QED
  BY <1>1, <1>2, StreamInvHolds, PTL DEF StreamSpec
=============================================================================
