------------------------------ MODULE TurnGame ------------------------------
(***************************************************************************)
(* The turn engine with the pilot turn game: what a command, a deadline or *)
(* an exclusion makes of a match, as operators.                            *)
(*                                                                         *)
(* A match is the session, the state the game keeps in it and the result   *)
(* stored with its end.  The engine keeps game and session in step inside  *)
(* the command that changed the session; a command that fails changes      *)
(* nothing, so each operation has a Can... predicate.                      *)
(*                                                                         *)
(* The board is any set of cells with any winning lines; a cell holds the  *)
(* player whose mark it carries.  JSON, marks and the result's payload are *)
(* not told apart.                                                         *)
(***************************************************************************)
EXTENDS SessionDomain, Sequences, SequencesExt

CONSTANTS
  Cells,        \* the fields of the board
  Lines,        \* sets of cells that win
  JoinOrder,    \* the players who joined, in that order: enough for a match
  TurnTimeout,  \* the settings' turn timeout
  Nobody        \* no player

ASSUME TurnAssumption ==
  /\ IsFiniteSet(Cells) /\ Lines \subseteq SUBSET Cells /\ {} \notin Lines
  /\ JoinOrder \in Seq(Players) /\ IsInjective(JoinOrder)
  /\ Len(JoinOrder) \in MinPlayers..MaxPlayers
  /\ TurnTimeout \in Nat \ {0}
  /\ Nobody \notin Players

NoGame == [seats |-> <<>>, board |-> [c \in Cells |-> Nobody], turn |-> 1]
NoResult == [status |-> "none", reason |-> "none", winner |-> Nobody, endedAt |-> NoTime]

LaterOf(t, u) == IF t < u THEN u ELSE t

Completed(reason, winner, at) ==
  [status |-> "completed", reason |-> reason, winner |-> winner, endedAt |-> at]

CancelledResult(reason, at) ==
  [status |-> "cancelled", reason |-> reason, winner |-> Nobody, endedAt |-> at]

-----------------------------------------------------------------------------
(* The game's rules                                                        *)

\* The playing players take their seats in join order; the first moves first.
NewState(s) ==
  LET playing == {k \in DOMAIN JoinOrder : s.players[JoinOrder[k]].state = "playing"}
      Place(n) == CHOOSE k \in playing : Cardinality({j \in playing : j < k}) = n - 1
  IN  [NoGame EXCEPT !.seats = [n \in 1..Cardinality(playing) |-> JoinOrder[Place(n)]]]

Seated(game) == ToSet(game.seats)
Opponent(game, p) == game.seats[IF game.seats[1] = p THEN 2 ELSE 1]
Late(game) == game.seats[game.turn]

Winner(game, p) == \E line \in Lines : \A c \in line : game.board[c] = p
BoardFull(game) == \A c \in Cells : game.board[c] # Nobody

Outcome(game, deadline, result) == [game |-> game, deadline |-> deadline, result |-> result]

Start(s, at) ==
  LET game == NewState(s)
  IN  IF Len(game.seats) = 2
        THEN Outcome(game, at + TurnTimeout, NoResult)
        ELSE Outcome(game, NoTime, CancelledResult("insufficientPlayers", at))

CanApplyMove(game, p, cell) ==
  /\ p \in Seated(game)
  /\ Late(game) = p
  /\ game.board[cell] = Nobody

ApplyMove(game, p, cell, at) ==
  LET next == [game EXCEPT !.board[cell] = p, !.turn = 3 - @]
  IN  CASE Winner(next, p) -> Outcome(next, NoTime, Completed("threeInARow", p, at))
        [] ~Winner(next, p) /\ BoardFull(next) -> Outcome(next, NoTime, Completed("boardFull", Nobody, at))
        [] OTHER -> Outcome(next, at + TurnTimeout, NoResult)

\* Mutant: the turn that ran out is awarded to the player who let it run out.
ExpireForTheLate(game, at) ==
  Outcome(game, NoTime, Completed("turnTimeout", Late(game), at))

\* The player who let the turn run out forfeits.
Expire(game, at) ==
  Outcome(game, NoTime, Completed("turnTimeout", Opponent(game, Late(game)), at))

\* The match goes to the player who stayed.
ReconcileTurn(s, game, at) ==
  LET staying == {p \in Seated(game) : s.players[p].state = "playing"}
  IN  CASE Cardinality(staying) = 2 -> Outcome(game, s.turnDeadline, NoResult)
        [] Cardinality(staying) = 1 ->
             Outcome(game, NoTime, Completed("opponentLeft", CHOOSE p \in staying : TRUE, at))
        [] OTHER -> Outcome(game, NoTime, CancelledResult("insufficientPlayers", at))

-----------------------------------------------------------------------------
(* The engine                                                              *)

\* applyTurnOutcome: an unchanged state adds no version.
ApplyTurnOutcome(m, outcome, at) ==
  LET deadline == IF outcome.result = NoResult THEN outcome.deadline ELSE NoTime
      changed == outcome.game # m.game \/ ~m.session.turnStored \/ deadline # m.session.turnDeadline
  IN  [ session |-> IF changed THEN UpdateGameState(m.session, deadline, at) ELSE m.session,
        game    |-> outcome.game,
        result  |-> outcome.result ]

Begun(m) ==
  LET at == LaterOf(m.session.startedAt, m.session.updatedAt)
  IN  IF m.session.turnStored THEN m ELSE ApplyTurnOutcome(m, Start(m.session, at), at)

Overdue(s, now) == s.turnDeadline # NoTime /\ now >= s.turnDeadline

\* Mutant: nobody looks at the clock.
SettleUntimed(m, now) ==
  IF m.session.state # "running" THEN m
  ELSE LET begun == Begun(m)
           at == LaterOf(now, begun.session.updatedAt)
       IN  IF begun.result # NoResult THEN begun
           ELSE ApplyTurnOutcome(begun, ReconcileTurn(begun.session, begun.game, at), at)

\* settle: start what began running, resolve a turn that ran out at its own
\* time, drop who stopped playing.  The loop's bound is never met, since the
\* pilot game ends with its first expired turn.
Settle(m, now) ==
  IF m.session.state # "running" THEN m
  ELSE LET begun == Begun(m)
           s == begun.session
           expiredAt == LaterOf(s.turnDeadline, s.updatedAt)
           at == LaterOf(now, s.updatedAt)
       IN  CASE begun.result # NoResult -> begun
             [] begun.result = NoResult /\ Overdue(s, now) ->
                  ApplyTurnOutcome(begun, Expire(begun.game, expiredAt), expiredAt)
             [] OTHER -> ApplyTurnOutcome(begun, ReconcileTurn(s, begun.game, at), at)

\* commit with endSession: a proposed result ends the session in the same save.
\* The result of a match that ended before is not proposed again.
Committed(m) ==
  CASE m.session.state = "running" /\ m.result.status = "completed" ->
         [m EXCEPT !.session = Finish(@, "gameOver", m.result.endedAt)]
    [] m.session.state = "running" /\ m.result.status = "cancelled" ->
         [m EXCEPT !.session = Cancelled(@, m.result.reason, m.result.endedAt)]
    [] OTHER -> m

-----------------------------------------------------------------------------
(* What the command handlers make of a match                               *)

CanMove(m, p, cell, now) ==
  LET settled == Settle(m, now)
  IN  /\ settled.session.state = "running"
      /\ \/ settled.result # NoResult
         \/ /\ settled.session.players[p].state = "playing"
            /\ CanApplyMove(settled.game, p, cell)

Move(m, p, cell, now) ==
  LET settled == Settle(m, now)
      at == LaterOf(now, settled.session.updatedAt)
  IN  IF settled.result # NoResult THEN Committed(settled)
      ELSE Committed(ApplyTurnOutcome(settled, ApplyMove(settled.game, p, cell, at), at))

\* Leaving twice is accepted and changes nothing.
CanLeaveMatch(m, p, now) ==
  /\ InOrder(m.session, now) /\ ~Terminal(m.session)
  /\ m.session.players[p].state # "absent"

LeaveMatch(m, p, now) ==
  LET s == IF p \in Current(m.session) THEN LeavePlayer(m.session, p, now) ELSE m.session
  IN  Committed(Settle([m EXCEPT !.session = s], now))

\* cancel does not settle: the result is the cancellation whatever the clock says.
CanCancelMatch(m, now) ==
  IF m.session.state = "running" THEN TRUE ELSE CanCancel(m.session, now)

CancelMatch(m, now) ==
  LET at == LaterOf(now, m.session.updatedAt)
  IN  IF m.session.state = "running"
        THEN Committed([m EXCEPT !.result = CancelledResult("cancelledByUser", at)])
        ELSE [m EXCEPT !.session = Cancelled(@, "cancelledByUser", now)]

CanReadyUp(m, p, now) ==
  /\ InOrder(m.session, now)
  /\ AcceptsPlayers(m.session)
  /\ m.session.players[p].state \in {"waiting", "ready"}

\* Setting the readiness a player already has changes nothing.
ReadyUp(m, p, ready, now) ==
  IF CanSetReady(m.session, p, ready, now)
    THEN [m EXCEPT !.session = SetReady(@, p, ready, now)]
    ELSE m

\* A running session has no lobby deadline left to advance.
CanAdvanceMatch(m, deadline) ==
  m.session.state = "running" \/ CanAdvance(m.session, deadline)

AdvanceMatch(m, deadline) ==
  LET s == IF m.session.state = "running" THEN m.session ELSE AdvanceDeadlines(m.session, deadline)
  IN  Committed(Settle([m EXCEPT !.session = s], deadline))

\* Excluding players who are gone already, or from a session that ended, is
\* accepted and changes nothing.
ExcludeMatch(m, P, at) ==
  LET then == LaterOf(at, m.session.updatedAt)
      s == IF CanExclude(m.session, P, then) THEN ExcludePlayers(m.session, P, then) ELSE m.session
  IN  Committed(Settle([m EXCEPT !.session = s], then))
=============================================================================
