--------------------------- MODULE RocketRuntime ---------------------------
(***************************************************************************)
(* The runtime of a House Rockets match (houseRockets/runtime.go,          *)
(* runtimeCheckpoint.go): only a player's newest heading waits, a player   *)
(* without control has a deadline to come back, and whoever misses it or   *)
(* left is eliminated with the next step, all of them in one tick.         *)
(***************************************************************************)
EXTENDS TickRuntime

NewRocketRuntime(epoch, now) ==
  PublishFrame(RuntimeShell(NewSimulation, epoch, now, 0,
    [p \in Players |-> [Unbound EXCEPT !.graceEndsAt = now + PresenceDeadline]]))

\* Submit of a heading: the one that was waiting is overwritten.
RocketTakesHeading(rt, p, now) ==
  LET control == rt.controls[p]
      steer == [generation |-> control.generation, sequence |-> control.highest + 1, receivedAt |-> now]
  IN [rt EXCEPT !.controls[p] = [control EXCEPT !.highest = steer.sequence, !.lastSeen = now,
                                                !.queue = <<steer>>]]

Excluded(rt, p) == p \in rt.eliminations

-----------------------------------------------------------------------------
(* Advance                                                                 *)

ReturnDeadline(control) ==
  IF control.graceEndsAt = 0 THEN control.lastSeen + PresenceDeadline ELSE control.graceEndsAt

RocketCommand(rt, c, now) ==
  LET p == c.player
      late == now >= ReturnDeadline(rt.controls[p])
      released == [Unheld(rt.controls[p]) EXCEPT !.graceEndsAt = c.receivedAt + ReconnectGrace]
  IN IF ~Fresh(c, now) \/ Excluded(rt, p) \/ ~IsAlive(rt.world, p) \/ (c.kind = "bind" /\ late)
       THEN Emit(rt, Rejection)
     ELSE IF c.kind = "bind" THEN SendGrant(Bind(rt, c), p)
     ELSE IF Holds(rt, c) THEN [rt EXCEPT !.controls[p] = released]
     ELSE rt

DropExcluded(rt) ==
  [rt EXCEPT !.controls = [p \in Players |->
     IF Excluded(rt, p) THEN Unheld(rt.controls[p]) ELSE rt.controls[p]]]

DropSilentRockets(rt, now) ==
  LET Silent(control) == control.graceEndsAt = 0 /\ now - control.lastSeen >= ControlTimeout
  IN [rt EXCEPT !.controls = [p \in Players |->
        IF Silent(rt.controls[p])
          THEN [Unheld(rt.controls[p]) EXCEPT !.graceEndsAt = rt.controls[p].lastSeen + PresenceDeadline]
          ELSE rt.controls[p]]]

\* Those excluded and those who missed their deadline go in one batch.
EliminateAbsent(rt, now) ==
  LET Missed(control) == control.graceEndsAt # 0 /\ now >= control.graceEndsAt
      gone == {p \in Alive(rt.world) : Excluded(rt, p) \/ Missed(rt.controls[p])}
      why == [p \in Players |-> IF Excluded(rt, p) THEN "forfeit" ELSE "connectionExpired"]
  IN [rt EXCEPT !.world = EliminateBatch(@, gone, why), !.eliminations = {}]

\* A heading counts only under the control it was sent with.
ApplyHeadings(rt, now) ==
  LET Counts(p) == \E x \in {rt.controls[p].queue[i] : i \in DOMAIN rt.controls[p].queue} :
                      /\ Fresh(x, now) /\ x.generation = rt.controls[p].generation
                      /\ IsAlive(rt.world, p) /\ rt.world.outcome = None
  IN [rt EXCEPT !.controls = [p \in Players |->
        [rt.controls[p] EXCEPT !.queue = <<>>,
                               !.processed = IF Counts(p) THEN Head(rt.controls[p].queue).sequence ELSE @]]]

RocketTick(rt, behind) ==
  IF rt.world.outcome # None THEN rt ELSE [rt EXCEPT !.world = Step(@, behind)]

\* falls are the rockets the camera leaves behind in each of the elapsed ticks; a
\* frame is due with every step.
AdvanceRocket(rt, now, falls) ==
  LET drained == FoldLeft(LAMBDA r, c : RocketCommand(r, c, now),
                          [DropExcluded(rt) EXCEPT !.commands = <<>>], rt.commands)
      handled == EliminateAbsent(DropSilentRockets(drained, now), now)
      steered == [ApplyHeadings(handled, now) EXCEPT !.lastAdvance = now]
      played == FoldLeft(RocketTick, steered, falls)
      done == [played EXCEPT !.terminal = @ \/ played.world.outcome # None]
  IN CASE rt.terminal -> IF rt.resultProposed THEN rt ELSE PublishFrame(rt)
       [] ~rt.terminal /\ now - rt.lastAdvance > CatchUp -> Terminate(rt, "runtimeOverloaded")
       [] ~rt.terminal /\ now - rt.lastAdvance <= CatchUp -> PublishFrame(done)

\* Reconcile only notes who has to go, even after the match ended.
ReconcileRockets(rt, gone) == [rt EXCEPT !.eliminations = @ \cup gone]

\* Run: a player never seen has the whole deadline from here, unless a restored
\* match has already spent part of it.
StartRocketClock(rt, now) ==
  [rt EXCEPT !.lastAdvance = now, !.controls = [p \in Players |->
     IF rt.controls[p].lastSeen = 0 /\ ~rt.restored
       THEN [rt.controls[p] EXCEPT !.graceEndsAt = now + PresenceDeadline] ELSE rt.controls[p]]]

-----------------------------------------------------------------------------
\* restoreRuntime: what was left of everyone's deadline starts again now.
RestorableRocket(c, epoch) ==
  /\ SoundHeader(c, epoch) /\ RestorableSimulation(c.world)
  /\ \A p \in Players : ReturnDeadline(c.controls[p]) - c.capturedAt <= PresenceDeadline + CatchUp
  /\ SoundProposal(c) /\ ValidCheckpointSession(c)

RestoreRocket(c, epoch, now) ==
  LET Remaining(p) == LargestOf(0, ReturnDeadline(c.controls[p]) - c.capturedAt)
  IN Resume(c, RuntimeShell(c.world, epoch, now, c.sequence,
       [p \in Players |-> [Unbound EXCEPT !.graceEndsAt = now + Remaining(p)]]))
=============================================================================
