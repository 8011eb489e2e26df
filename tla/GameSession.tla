----------------------------- MODULE GameSession -----------------------------
(***************************************************************************)
(* One durable game session driven by everything that changes it: players' *)
(* join, ready and leave commands, a cancellation, the owning room's       *)
(* deadline timer and its reconciliation of unavailable players, the game's*)
(* state updates and its result.  Each command is atomic here; SessionStore*)
(* opens up the read-modify-write of concurrent handlers.                  *)
(***************************************************************************)
EXTENDS SessionDomain

CONSTANTS
  TurnBased,      \* Mode = turnBased: the game keeps its state in the session
  TurnDuration,   \* how long a turn may take
  Horizon,        \* bound: last time at which anybody but the room acts
  MaxVersion      \* bound: no client command beyond this version

ASSUME BoundsAssumption ==
  /\ TurnBased \in BOOLEAN
  /\ TurnDuration \in Nat /\ Horizon \in Nat /\ MaxVersion \in Nat

VARIABLES
  session,   \* the stored session
  now,       \* the servers' clock
  locked     \* history: who was ready when the countdown began

vars == <<session, now, locked>>

CreatedAt == 1

\* The clock runs on after the horizon until every lobby deadline has passed.
EndOfTime == Horizon + ReadyWindow + Countdown

Init ==
  /\ session = NewGameSession(CreatedAt)
  /\ now = CreatedAt
  /\ locked = {}

-----------------------------------------------------------------------------
(* Actions                                                                 *)

InMatch(s) == InState(s, {"ready", "playing"})

\* session becomes s; the roster is remembered when the lobby closes.
Becomes(s) ==
  /\ session' = s
  /\ locked' = IF AcceptsPlayers(session) /\ s.state \in {"countdown", "running"}
                 THEN InMatch(s) ELSE locked
  /\ UNCHANGED now

Acting == now <= Horizon /\ session.version < MaxVersion

Join(p) == Acting /\ CanJoin(session, p, now) /\ Becomes(JoinPlayer(session, p, now))

ChangeReady(p, ready) ==
  /\ Acting
  /\ CanSetReady(session, p, ready, now)
  /\ Becomes(SetReady(session, p, ready, now))

Leave(p) == Acting /\ CanLeave(session, p, now) /\ Becomes(LeavePlayer(session, p, now))

Deadline == SessionDeadline(session, TurnBased)

LobbyDeadlineDue ==
  /\ session.state \in {"readyWindow", "countdown"}
  /\ now >= Deadline

\* The time reconcilePlayers writes: an overdue deadline comes first, and a
\* stored update later than that wins over both.
ReconcileTime ==
  LET at == IF Deadline # NoTime /\ Deadline < now THEN Deadline ELSE now
  IN  IF at < session.updatedAt THEN session.updatedAt ELSE at

\* Revoked members and silent players leave, on the reconcile ticker or when
\* the deadline timer fires.
Reconcile(P) ==
  /\ Acting
  /\ CanExclude(session, P, ReconcileTime)
  /\ Becomes(ExcludePlayers(session, P, ReconcileTime))

\* handleDeadline once nobody is left to exclude: AdvanceAt is the deadline.
HandleDeadline ==
  /\ LobbyDeadlineDue
  /\ CanAdvance(session, Deadline)
  /\ Becomes(AdvanceDeadlines(session, Deadline))

\* A turn game stores its first state and every move; a tick game never does.
Play(deadline) ==
  /\ Acting
  /\ TurnBased
  /\ CanUpdateGameState(session, now)
  /\ Becomes(UpdateGameState(session, deadline, now))

\* A match result ends the session at a time no earlier than its last change.
Complete ==
  /\ Acting
  /\ CanFinish(session, now)
  /\ Becomes(Finish(session, "gameOver", now))

CancelByUser ==
  /\ Acting
  /\ CanCancel(session, now)
  /\ Becomes(Cancelled(session, "cancelledByUser", now))

Tick == now < EndOfTime /\ now' = now + 1 /\ UNCHANGED <<session, locked>>

Next ==
  \/ \E p \in Players : Join(p) \/ Leave(p)
  \/ \E p \in Players, ready \in BOOLEAN : ChangeReady(p, ready)
  \/ \E P \in SUBSET Players : Reconcile(P)
  \/ HandleDeadline
  \/ \E deadline \in {NoTime, now + TurnDuration} : Play(deadline)
  \/ Complete
  \/ CancelByUser
  \/ Tick

Spec == Init /\ [][Next]_vars

\* The room's timer fires on an overdue deadline, and the recovery scanner
\* reopens the room of every session past its lobby; clients owe nothing.
FairSpec == Spec /\ WF_vars(HandleDeadline) /\ WF_vars(Tick)

-----------------------------------------------------------------------------
(* Properties                                                              *)

\* Every variable has its type.
TypeOK ==
  /\ session \in Session
  /\ now \in Time
  /\ locked \in SUBSET Players

\* Whatever sequence of commands and deadlines produced it, the session passes
\* the validation of the next load; a session that did not could never be
\* opened, changed or ended again and would hold its house's slot.
SnapshotAcceptable == TypeOK /\ Acceptable(session)

\* Nobody is in a match who was not ready when its countdown began; and a room
\* that recovers a running match from the snapshot alone finds every
\* player of the locked roster, those who left during the countdown or the
\* match included, and nobody else but players who left in the very instant
\* the countdown began.
RosterIsFrozen ==
  /\ session.state \in {"countdown", "running", "finished"} => Current(session) \subseteq locked
  /\ session.state = "running" =>
    /\ locked \subseteq FrozenRoster(session)
    /\ \A p \in FrozenRoster(session) \ locked :
         session.players[p].leftAt = session.startedAt - Countdown

\* Every change gets a new version, the fence of concurrent writers, and a
\* timestamp that neither goes back nor lies in the future, although the room
\* picks it between the clock, an overdue deadline and the last change; and the
\* window closes only when it is over or every place is taken by a ready player.
ChangesAreOrdered ==
  [][session' # session =>
       /\ session'.version > session.version
       /\ session'.updatedAt >= session.updatedAt
       /\ session'.updatedAt <= now
       /\ session.state = "readyWindow" /\ session'.state \in {"countdown", "running"} =>
            now >= session.readyWindowEndsAt \/ Cardinality(InMatch(session')) = MaxPlayers]_vars

\* A stored change never passes a deadline that is still pending.
NoOverrun ==
  session.state \in {"readyWindow", "countdown"} => session.updatedAt <= Deadline

\* An opened ready window ends: it closes, falls back to the lobby, or the
\* session is over.
WindowEnds == (session.state = "readyWindow") ~> (session.state # "readyWindow")
CountdownEnds == (session.state = "countdown") ~> (session.state # "countdown")

\* Where no command overruns a pending deadline, the lobby always moves on.
LobbyMovesOn == []NoOverrun => WindowEnds /\ CountdownEnds

-----------------------------------------------------------------------------
(* The session implements the lifecycle its players rely on.               *)

LifecyclePhase ==
  CASE AcceptsPlayers(session) -> "open"
    [] session.state = "countdown" -> "locked"
    [] session.state = "running" -> "playing"
    [] session.state = "finished" -> "ended"
    [] session.state = "cancelled" -> "void"

LifecycleRoster ==
  IF session.state \in {"countdown", "running", "finished"} THEN Current(session) ELSE {}

Lifecycle == INSTANCE MatchLifecycle WITH phase <- LifecyclePhase, roster <- LifecycleRoster

ImplementsLifecycle == Lifecycle!Spec
=============================================================================
