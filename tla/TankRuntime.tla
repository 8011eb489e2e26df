---------------------------- MODULE TankRuntime ----------------------------
(***************************************************************************)
(* The runtime of a House Tanks match (houseTanks/runtime.go,              *)
(* runtimeCheckpoint.go): presses wait in a queue per player, one of them  *)
(* is applied per tick, and a player without control is a stationary       *)
(* target.                                                                 *)
(***************************************************************************)
EXTENDS TickRuntime

NewTankRuntime(epoch, now) ==
  PublishFrame(RuntimeShell(NewMatch, epoch, now, 0, [p \in Players |-> Unbound]))

\* Submit of a press: the tank must still stand while a round is played, and
\* the queue has room for one more than its size.
TankAcceptsPress(rt, p) ==
  /\ Playing(rt.world) => rt.world.tanks[p].active
  /\ Len(rt.controls[p].queue) < PlayerQueueSize

TankTakesPress(rt, p, pressed, now) ==
  LET control == rt.controls[p]
      press == [generation |-> control.generation, sequence |-> control.highest + 1,
                receivedAt |-> now, pressed |-> pressed]
  IN [rt EXCEPT !.controls[p] = [control EXCEPT !.highest = press.sequence, !.lastSeen = now,
                                                !.queue = Append(@, press)]]

TankTakesVote(rt, p, ready, now) ==
  [SeenSince(rt, p, now) EXCEPT !.world = SetReady(@, p, ready)]

-----------------------------------------------------------------------------
(* Advance                                                                 *)

\* Mutant: the tank keeps the control its player has lost.
DropTankRolling(rt, p) == [rt EXCEPT !.controls[p] = Unheld(@)]

DropTank(rt, p) ==
  [rt EXCEPT !.controls[p] = Unheld(@), !.world = SetControl(@, p, FALSE)]

BindTank(rt, c) ==
  LET bound == Bind(rt, c)
  IN IF TakesOver(rt, c) THEN [bound EXCEPT !.world = SetControl(@, c.player, TRUE)] ELSE bound

TankCommand(rt, c, now) ==
  IF ~Fresh(c, now) \/ rt.world.hasLeft[c.player] THEN Emit(rt, Rejection)
  ELSE IF c.kind = "bind" THEN SendGrant(BindTank(rt, c), c.player)
  ELSE IF Holds(rt, c) THEN DropTank(rt, c.player)
  ELSE rt

DropSilentTanks(rt, now) ==
  LET silent == {p \in Players : /\ rt.controls[p].connection # None
                                 /\ now - rt.controls[p].lastSeen >= ControlTimeout}
  IN FoldSet(LAMBDA p, r : DropTank(r, p), rt, silent)

\* The oldest press that is not too old is taken from every queue.  Outside a
\* round it is acknowledged and ignored.
ApplyInputs(rt, now) ==
  LET young == [p \in Players |-> SelectSeq(rt.controls[p].queue, LAMBDA x : Fresh(x, now))]
      taken == {p \in Players : young[p] # <<>>}
  IN [rt EXCEPT
        !.controls = [p \in Players |->
          IF p \in taken
          THEN [rt.controls[p] EXCEPT !.queue = Tail(young[p]), !.processed = Head(young[p]).sequence]
          ELSE [rt.controls[p] EXCEPT !.queue = <<>>]],
        !.world.tanks = [p \in Players |->
          IF p \in taken /\ Playing(rt.world)
          THEN IF Head(young[p]).pressed THEN Press(@[p]) ELSE Release(@[p])
          ELSE @[p]]]

TankTick(rt, fallen, now) ==
  IF MatchEnded(rt.world) THEN rt
  ELSE [ApplyInputs(rt, now) EXCEPT !.world = AdvanceMatch(@, fallen)]

\* falls are the tanks destroyed in each of the elapsed ticks.  A frame is due
\* with every step, as if a tick were as long as the interval between frames; one
\* that is not yet due differs in nothing from one that nobody reads in time.
AdvanceTank(rt, now, falls) ==
  LET drained == FoldLeft(LAMBDA r, c : TankCommand(r, c, now),
                          [rt EXCEPT !.commands = <<>>], rt.commands)
      handled == [DropSilentTanks(drained, now) EXCEPT !.lastAdvance = now]
      played == FoldLeft(LAMBDA r, fallen : TankTick(r, fallen, now), handled, falls)
      done == [played EXCEPT !.terminal = @ \/ MatchEnded(played.world)]
  IN CASE rt.terminal -> IF rt.resultProposed THEN rt ELSE PublishFrame(rt)
       [] ~rt.terminal /\ now - rt.lastAdvance > CatchUp -> Terminate(rt, "runtimeOverloaded")
       [] ~rt.terminal /\ now - rt.lastAdvance <= CatchUp -> PublishFrame(done)

\* Reconcile: whoever left the session or the house never plays again.
ReconcileTanks(rt, gone) ==
  LET leaving == {p \in gone : ~rt.world.hasLeft[p]}
      Leaving(p, r) == [DropTank(r, p) EXCEPT !.world = Leave(@, p)]
  IN IF rt.terminal THEN rt ELSE FoldSet(Leaving, rt, leaving)

-----------------------------------------------------------------------------
\* restoreRuntime: no old control survives, and everyone counts as present until
\* they had time to bind again.
RestorableTank(c, epoch) == SoundHeader(c, epoch) /\ SoundProposal(c) /\ ValidCheckpointSession(c)

RestoreTank(c, epoch, now) ==
  LET uncontrolled == FoldSet(LAMBDA p, m : SetControl(m, p, FALSE), c.world, Players)
      world == IF MatchEnded(c.world) THEN c.world
               ELSE AwaitPlayers(uncontrolled, c.world.tick + PresenceGraceTicks)
  IN Resume(c, RuntimeShell(world, epoch, now, c.sequence, [p \in Players |-> Unbound]))
=============================================================================
