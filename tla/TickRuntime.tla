---------------------------- MODULE TickRuntime ----------------------------
(***************************************************************************)
(* What the runtimes of the two tick games have in common: the bounded     *)
(* channels through which frames, grants and the proposed result leave     *)
(* (one coalesced frame, a queue of events, one result), the checkpoint    *)
(* that goes with every publication, and the controls.  A runtime is one   *)
(* record that operators transform: every one of them runs under the       *)
(* runtime's mutex.                                                        *)
(***************************************************************************)
EXTENDS TankMatch, RocketSimulation, SequencesExt

IsTanks(world) == world.game = "houseTanks"
Ended(world) == IF IsTanks(world) THEN MatchEnded(world) ELSE world.outcome # None

CancelWorld(world, reason) ==
  IF IsTanks(world) THEN CancelMatch(world, reason) ELSE CancelSimulation(world, reason)

\* The result of a world that has ended.
ResultOf(world) ==
  IF IsTanks(world) THEN MatchResult(world, world.status, world.endReason) ELSE SimulationResult(world)

ValidResult(world, r) == IF IsTanks(world) THEN ValidTankResult(r) ELSE ValidRocketResult(r)
CancellationResult(world, reason) ==
  IF IsTanks(world) THEN TankCancellation(reason) ELSE RocketCancellation(reason)

\* A player nobody plays for. A generation is the epoch and a fresh number; the
\* queue holds a tank's presses or the newest heading of a rocket.
Unbound == [connection |-> None, generation |-> None, lastSeen |-> 0, highest |-> 0,
            processed |-> 0, queue |-> <<>>, graceEndsAt |-> 0]

RuntimeShell(world, epoch, now, sequence, controls) ==
  [world |-> world, epoch |-> epoch, grants |-> 0, controls |-> controls, commands |-> <<>>,
   frames |-> <<>>, events |-> <<>>, results |-> <<>>, proposed |-> None,
   resultProposed |-> FALSE, lastAdvance |-> now, sequence |-> sequence, terminal |-> FALSE, restored |-> FALSE, eliminations |-> {}]

-----------------------------------------------------------------------------
(* Checkpoints                                                             *)

SavedControl(control) ==
  [connection |-> control.connection, generation |-> control.generation, lastSeen |-> control.lastSeen,
   graceEndsAt |-> control.graceEndsAt, highest |-> control.highest, processed |-> control.processed]

Checkpoint(rt) ==
  [epoch |-> rt.epoch, sequence |-> rt.sequence, capturedAt |-> rt.lastAdvance, world |-> rt.world,
   controls |-> [p \in Players |-> SavedControl(rt.controls[p])], proposed |-> rt.proposed]

\* What a lost checkpoint would show: a handover of control, a leave, an
\* elimination, a vote, a change of round, the outcome.
CriticalKey(c) ==
  LET holders == [p \in Players |-> <<c.controls[p].connection, c.controls[p].generation>>]
      w == c.world
  IN IF IsTanks(w)
     THEN <<holders, w.hasLeft, w.won, [p \in Players |-> w.tanks[p].active], w.roundReady,
            w.roundPhase, w.roundNumber, w.windowEndsAt # None, w.status, w.endReason, w.champion>>
     ELSE <<holders, Alive(w), w.outcome>>

-----------------------------------------------------------------------------
(* Publication                                                             *)

Numbered(rt) == [rt EXCEPT !.sequence = @ + 1]
FrameOf(rt) == [kind |-> "frame", checkpoint |-> Checkpoint(rt)]
Rejection == [kind |-> "rejection", checkpoint |-> None]

\* The result of an ended match is proposed once and never computed again.
Propose(rt) ==
  LET result == IF rt.proposed = None THEN ResultOf(rt.world) ELSE rt.proposed
  IN IF rt.terminal /\ ~rt.resultProposed /\ Ended(rt.world)
     THEN [rt EXCEPT !.proposed = result, !.results = <<result>>, !.resultProposed = TRUE]
     ELSE rt

\* Mutant: the frame is built before the result is proposed.
PublishFrameUnproposed(rt) ==
  LET built == Numbered(rt) IN [Propose(built) EXCEPT !.frames = <<FrameOf(built)>>]

\* An unread frame is replaced by the newer one.
PublishFrame(rt) ==
  LET built == Numbered(Propose(rt)) IN [built EXCEPT !.frames = <<FrameOf(built)>>]

Terminate(rt, reason) ==
  PublishFrame([rt EXCEPT !.world = CancelWorld(@, reason), !.terminal = TRUE])

\* An event that does not fit ends the match.
Emit(rt, event) ==
  IF Len(rt.events) < RuntimeQueueSize THEN [rt EXCEPT !.events = Append(@, event)]
  ELSE Terminate(rt, "runtimeOverloaded")

\* A rejection of an input that never reached the runtime is dropped instead.
NotifyRejected(rt) ==
  IF Len(rt.events) < RuntimeQueueSize THEN [rt EXCEPT !.events = Append(@, Rejection)] ELSE rt

\* The runtime's Cancel; a match that has ended refuses it, except that rockets
\* cancelled for the same reason show themselves again.
Cancel(rt, reason) ==
  IF Ended(rt.world) /\ (IsTanks(rt.world) \/ rt.world.outcome # Cancelled(reason)) THEN rt
  ELSE Terminate(rt, reason)

-----------------------------------------------------------------------------
(* Controls                                                                *)

Holds(rt, c) ==
  /\ rt.controls[c.player].connection = c.connection
  /\ rt.controls[c.player].generation = c.generation

\* An input of the player's controlling connection is acceptable.
InControl(rt, p, now) ==
  LET control == rt.controls[p]
  IN control.generation # None /\ control.graceEndsAt = 0 /\ now - control.lastSeen < ControlTimeout

\* A new connection, or one that lost control, gets a generation of its own and
\* starts with no input; a repeated bind keeps what it has.
TakesOver(rt, c) ==
  rt.controls[c.player].connection # c.connection \/ rt.controls[c.player].generation = None

Bind(rt, c) ==
  LET held == rt.controls[c.player]
      fresh == IF TakesOver(rt, c)
                 THEN [held EXCEPT !.connection = c.connection, !.generation = <<rt.epoch, rt.grants + 1>>,
                                   !.highest = 0, !.processed = 0, !.queue = <<>>]
                 ELSE held
  IN [rt EXCEPT !.controls[c.player] = [fresh EXCEPT !.lastSeen = c.receivedAt, !.graceEndsAt = 0],
                !.grants = IF TakesOver(rt, c) THEN @ + 1 ELSE @]

Unheld(control) == [control EXCEPT !.connection = None, !.generation = None, !.queue = <<>>]

SendGrant(rt, p) ==
  LET granted == Numbered(rt)
  IN Emit(granted, [kind |-> "grant", player |-> p, generation |-> granted.controls[p].generation,
                    checkpoint |-> Checkpoint(granted)])

\* A queued input is still young enough.
Fresh(input, now) == now - input.receivedAt <= InputLifetime

SeenSince(rt, p, now) == [rt EXCEPT !.controls[p].lastSeen = now]

\* One player's next message of a kind the runtime queues.
Message(kind, rt, p, connection, now) ==
  [kind |-> kind, player |-> p, connection |-> connection, receivedAt |-> now,
   generation |-> IF kind = "bind" THEN None ELSE rt.controls[p].generation]

Enqueue(rt, c) == [rt EXCEPT !.commands = Append(@, c)]

RequestSnapshot(rt) == LET built == Numbered(rt) IN Emit(built, FrameOf(built))

-----------------------------------------------------------------------------
(* Restoring a checkpoint                                                  *)

\* validCheckpointHeader, and what both restoreRuntime functions ask of every
\* control
SoundHeader(c, epoch) ==
  /\ c.epoch > 0 /\ epoch > c.epoch /\ c.sequence > 0 /\ c.capturedAt # 0
  /\ \A p \in Players :
       LET saved == c.controls[p]
       IN /\ saved.highest >= saved.processed /\ saved.processed >= 0
          /\ (saved.generation = None) = (saved.connection = None)
          /\ saved.lastSeen <= c.capturedAt + CatchUp

\* An ended match comes with the result it proposed, and only such a match does.
SoundProposal(c) ==
  IF Ended(c.world) THEN c.proposed # None /\ c.proposed = ResultOf(c.world) ELSE c.proposed = None

\* ValidateCheckpointSession: the result the match would have if it ended now
ValidCheckpointSession(c) ==
  LET ending == IF IsTanks(c.world) THEN MatchResult(c.world, "cancelled", "recoveryFailed")
                ELSE SimulationResult([c.world EXCEPT !.outcome = Cancelled("recoveryFailed")])
  IN ValidResult(c.world, IF c.proposed # None THEN c.proposed ELSE ending)

\* A restored runtime announces itself; one that had ended proposes again.
Resume(c, rt) ==
  PublishFrame([rt EXCEPT !.restored = TRUE, !.terminal = Ended(c.world), !.proposed = c.proposed])
=============================================================================
