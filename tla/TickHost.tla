------------------------------ MODULE TickHost ------------------------------
(***************************************************************************)
(* The one room that plays a tick game (tickHost.go, tickCheckpoint.go,    *)
(* roomCompletion.go) around the runtime of the game the session chose:    *)
(* inputs come in, the scheduler advances, a publisher protects what it is *)
(* about to announce in a checkpoint, the lifecycle loop commits the       *)
(* proposed result, and a crash hands the match to the next owner.         *)
(*                                                                         *)
(* Who may own the room is RoomOwnership's subject: here there is one      *)
(* owner at a time and its lease is good.                                  *)
(* Inputs the runtime refuses change nothing and are left out, which makes *)
(* the rate limit an input that may arrive.  Time passes in ticks of the   *)
(* frame rate; what happens between two ticks happens in any order.        *)
(***************************************************************************)
EXTENDS TankRuntime, RocketRuntime

CONSTANTS
  Scenes,         \* the game, who left in the countdown and who waits in it, and
                  \* bounds: when the clock stops, how many votes may come and how
                  \* many disturbances (other inputs, leaves, cancels, crashes,
                  \* lost checkpoints)
  Connections,    \* connections a player may use
  FirstConnection,
  RecoveryMaxAge  \* age at which a checkpoint's match is cancelled

ASSUME HostAssumption ==
  /\ Scenes \subseteq [game : {"houseTanks", "houseRockets"}, gone : SUBSET Players,
                      waiting : SUBSET Players, horizon : Nat, votes : Nat, disturbances : Nat]
  /\ RecoveryMaxAge \in Nat
  /\ None \notin Connections /\ FirstConnection \in Connections

VARIABLES
  game,        \* the session's game
  now,         \* the clock
  rt,          \* the owner's runtime, None while nobody runs it
  barrier,     \* checkpointState: sequence and critical key saved last
  saved,       \* Redis: the checkpoint
  epoch,       \* MongoDB: the runtime owner's generation
  trigger,     \* MongoDB: a member's cancel is stored with the owner
  gone,        \* MongoDB: players who left the session or the house
  stored,      \* MongoDB: the committed result
  announced,   \* history: what published frames have shown
  scene        \* what may still come

room == <<rt, barrier>>
durable == <<saved, epoch, trigger, gone, stored>>
vars == <<game, now, room, durable, announced, scene>>

FreshBarrier == [sequence |-> 0, critical |-> None]

Init ==
  /\ scene \in Scenes /\ game = scene.game /\ gone = scene.gone
  /\ now = 1 /\ rt = None /\ barrier = FreshBarrier
  /\ saved = None /\ epoch = 0 /\ trigger = FALSE /\ stored = None /\ announced = None

-----------------------------------------------------------------------------
(* The game's module                                                       *)

Advanced(r, falls) ==
  IF game = "houseTanks" THEN AdvanceTank(r, now, falls) ELSE AdvanceRocket(r, now, falls)

Reconciled(r) == IF game = "houseTanks" THEN ReconcileTanks(r, gone) ELSE ReconcileRockets(r, gone)

\* Mutant: a checkpoint is not restored after the age at which its match is cancelled.
RestorableRecent(c, e) ==
  /\ now - c.capturedAt <= RecoveryMaxAge
  /\ IF game = "houseTanks" THEN RestorableTank(c, e) ELSE RestorableRocket(c, e)

Restorable(c, e) == IF game = "houseTanks" THEN RestorableTank(c, e) ELSE RestorableRocket(c, e)
Restored(c, e) == IF game = "houseTanks" THEN RestoreTank(c, e, now) ELSE RestoreRocket(c, e, now)

\* The player has not left, or is alive and not about to be eliminated.
MayPlay(p) ==
  IF game = "houseTanks" THEN ~rt.world.hasLeft[p] ELSE IsAlive(rt.world, p) /\ p \notin rt.eliminations

-----------------------------------------------------------------------------
(* Checkpoints and frames                                                  *)

\* protectCheckpoint: nothing to do for a checkpoint whose change is covered,
\* refused when a newer one with another critical key was saved.
Covered(c) == c.sequence <= barrier.sequence /\ CriticalKey(c) = barrier.critical
OutOfOrder(c) == c.sequence <= barrier.sequence /\ CriticalKey(c) # barrier.critical
Newer(c) == c.sequence > barrier.sequence

Save(c) == saved' = c /\ barrier' = [sequence |-> c.sequence, critical |-> CriticalKey(c)]
Keep == UNCHANGED <<saved, barrier>>

\* Mutant: every change waits unless it is forced.
ProtectForced(c, force) ==
  IF Newer(c) /\ force THEN Save(c) ELSE ~OutOfOrder(c) /\ Keep

\* A change that is not critical waits for the interval between saves, which is
\* taken to be longer than the match: the most a crash can take back.
Protect(c, force) ==
  LET due == force \/ CriticalKey(c) # barrier.critical
  IN IF Newer(c) /\ due THEN Save(c) ELSE ~OutOfOrder(c) /\ Keep

\* What a frame shows that nothing may take back: who left, rounds won, tanks
\* destroyed in the round, rockets eliminated, the result.
Facts(w) ==
  IF game = "houseTanks"
  THEN [left |-> {p \in Players : w.hasLeft[p]}, won |-> w.won, round |-> w.roundNumber,
        destroyed |-> {p \in Players : ~w.tanks[p].active},
        result |-> IF Ended(w) THEN ResultOf(w) ELSE None]
  ELSE [eliminated |-> {<<p, w.eliminatedAt[p], w.reason[p]>> : p \in Players \ Alive(w)},
        outcome |-> w.outcome]

-----------------------------------------------------------------------------
(* Starting, crashing, recovering                                          *)

\* Whoever left in the countdown stays on the roster and never plays; those who
\* wait in it bind before the first step.
Start ==
  /\ epoch = 0 /\ epoch' = 1
  /\ LET r == IF game = "houseTanks" THEN NewTankRuntime(1, now)
              ELSE StartRocketClock(NewRocketRuntime(1, now), now)
     IN /\ Save(Checkpoint(r))
        /\ rt' = FoldSet(LAMBDA p, x : Enqueue(x, Message("bind", x, p, FirstConnection, now)),
                        Reconciled(r), scene.waiting)
  /\ UNCHANGED <<game, now, trigger, gone, stored, announced, scene>>

Stop == rt' = None /\ barrier' = FreshBarrier
Disturb == scene.disturbances > 0 /\ scene' = [scene EXCEPT !.disturbances = @ - 1]

Crash ==
  /\ rt # None /\ Disturb /\ Stop
  /\ UNCHANGED <<game, now, durable, announced>>

\* Redis is reset while nobody owns the room, or the checkpoint's TTL ends.
LoseCheckpoint ==
  /\ rt = None /\ saved # None /\ Disturb
  /\ saved' = None
  /\ UNCHANGED <<game, now, room, epoch, trigger, gone, stored, announced>>

\* The intent of a member's cancel, or age, ends a restored match that had not
\* ended.
RecoveryReason ==
  IF trigger THEN "cancelledByUser"
  ELSE IF now - saved.capturedAt > RecoveryMaxAge THEN "recoveryFailed" ELSE None

\* restoreRuntime, startRuntimeLocked and announceRecovery: leaves are applied
\* before the recovered state is shown, and no time is spent.
RecoverRuntime ==
  LET restored == Restored(saved, epoch + 1)
      ended == IF RecoveryReason # None /\ saved.proposed = None
                 THEN Cancel(restored, RecoveryReason) ELSE restored
      reconciled == Reconciled(Numbered(ended))
      shown == Numbered(Advanced(reconciled, <<>>))
  IN /\ saved # None /\ Restorable(saved, epoch + 1)
     /\ rt' = shown /\ Save(Checkpoint(shown)) /\ announced' = Facts(shown.world)
     /\ UNCHANGED stored

\* A missing or refused checkpoint never spawns new physics: the match ends
\* with what the session alone can tell.
RecoverFailed ==
  /\ ~(saved # None /\ Restorable(saved, epoch + 1))
  /\ stored' = CancellationResult([game |-> game], IF trigger THEN "cancelledByUser" ELSE "recoveryFailed")
  /\ saved' = None
  /\ UNCHANGED <<room, announced>>

Recover ==
  /\ rt = None /\ epoch > 0 /\ stored = None
  /\ epoch' = epoch + 1
  /\ RecoverRuntime \/ RecoverFailed
  /\ UNCHANGED <<game, now, trigger, gone, scene>>

-----------------------------------------------------------------------------
(* Time and the scheduler                                                  *)

\* The scheduler may miss its turn until the pause is too long; nobody needs
\* time to pass for a match that has ended or outlived its recovery.
Pass ==
  /\ stored = None /\ now < scene.horizon
  /\ \/ rt # None /\ ~rt.terminal /\ now - rt.lastAdvance <= CatchUp
     \/ rt = None /\ saved # None /\ now - saved.capturedAt <= RecoveryMaxAge
  /\ now' = now + 1
  /\ UNCHANGED <<game, room, durable, announced, scene>>

Elapsed == now - rt.lastAdvance

\* Who can be destroyed or left behind
Standing == IF game = "houseTanks" THEN {p \in Players : Playing(rt.world) /\ rt.world.tanks[p].active}
            ELSE Alive(rt.world)

Advance ==
  /\ rt # None /\ ~rt.terminal /\ Elapsed > 0
  /\ \E falls \in [1 .. (IF Elapsed <= CatchUp THEN Elapsed ELSE 0) -> SUBSET Standing] :
       rt' = Advanced(rt, falls)
  /\ UNCHANGED <<game, now, barrier, durable, announced, scene>>

-----------------------------------------------------------------------------
(* Inputs                                                                  *)

\* A client is heard whatever the scheduler does: also in a pause that is already
\* too long, which only the next Advance notices.
Heard ==
  /\ rt # None
  /\ UNCHANGED <<game, now, barrier, durable, announced>>
Arrives == Heard /\ Disturb

SubmitSnapshot == Arrives /\ rt' = RequestSnapshot(rt)

\* An input of a remote connection that submitGameplay refuses
RejectRemoteInput == Arrives /\ rt' = NotifyRejected(rt)

SubmitBind(p, connection) ==
  /\ Arrives /\ ~rt.terminal /\ MayPlay(p) /\ Len(rt.commands) < RuntimeQueueSize
  /\ rt' = Enqueue(rt, Message("bind", rt, p, connection, now))

\* The player's controlling connection sends something under its grant.
Acceptable(p) == ~rt.terminal /\ MayPlay(p) /\ InControl(rt, p, now)
Controlling(p) == Arrives /\ Acceptable(p)

SubmitDisconnect(p) ==
  /\ Controlling(p) /\ Len(rt.commands) < RuntimeQueueSize
  /\ rt' = Enqueue(rt, Message("disconnect", rt, p, rt.controls[p].connection, now))

SubmitHeartbeat(p) == Controlling(p) /\ rt' = SeenSince(rt, p, now)

SubmitPress(p, pressed) ==
  /\ Controlling(p) /\ game = "houseTanks" /\ TankAcceptsPress(rt, p)
  /\ rt' = TankTakesPress(rt, p, pressed, now)

SubmitReady(p, ready) ==
  /\ Heard /\ Acceptable(p) /\ game = "houseTanks" /\ MayVote(rt.world, p)
  /\ scene.votes > 0 /\ scene' = [scene EXCEPT !.votes = @ - 1]
  /\ rt' = TankTakesVote(rt, p, ready, now)

SubmitSteer(p) ==
  /\ Controlling(p) /\ game = "houseRockets"
  /\ rt' = RocketTakesHeading(rt, p, now)

Submit(p) ==
  \/ \E connection \in Connections : SubmitBind(p, connection)
  \/ SubmitDisconnect(p) \/ SubmitHeartbeat(p) \/ SubmitSteer(p)
  \/ \E pressed \in BOOLEAN : SubmitPress(p, pressed)
  \/ \E ready \in BOOLEAN : SubmitReady(p, ready)

-----------------------------------------------------------------------------
(* The session's roster                                                    *)

\* A player leaves the session or loses the house; the lifecycle loop hears of
\* it at its next reconciliation.
LeaveSession(p) ==
  /\ p \notin gone /\ stored = None /\ epoch > 0 /\ Disturb
  /\ gone' = gone \cup {p}
  /\ UNCHANGED <<game, now, room, saved, epoch, trigger, stored, announced>>

\* captureResult comes first: a proposed result stops the handlers of the loop.
Unproposed == rt # None /\ rt.results = <<>>

Reconcile ==
  /\ Unproposed
  /\ rt' = Reconciled(rt)
  /\ UNCHANGED <<game, now, barrier, durable, announced, scene>>

UserCancel ==
  /\ Unproposed /\ ~trigger /\ Disturb
  /\ trigger' = TRUE /\ rt' = Cancel(rt, "cancelledByUser")
  /\ UNCHANGED <<game, now, barrier, saved, epoch, gone, stored, announced>>

-----------------------------------------------------------------------------
(* The publisher and the completion                                        *)

\* NextUpdate, and the room after it
Frame == [update |-> rt.frames[1], rest |-> [rt EXCEPT !.frames = <<>>]]
Event == [update |-> rt.events[1], rest |-> [rt EXCEPT !.events = Tail(@)]]
NextUpdate == {x \in {IF rt.frames # <<>> THEN Frame ELSE None,
                      IF rt.events # <<>> THEN Event ELSE None} : x # None}

\* An update is protected and published; one that a saved checkpoint contradicts
\* is dropped.
PublishUpdate ==
  /\ rt # None
  /\ \E next \in NextUpdate :
       LET c == next.update.checkpoint
       IN /\ rt' = next.rest
          /\ \/ c = None /\ Keep /\ UNCHANGED announced
             \/ c # None /\ OutOfOrder(c) /\ Keep /\ UNCHANGED announced
             \/ c # None /\ Protect(c, next.update.kind = "grant") /\ announced' = Facts(c.world)
  /\ UNCHANGED <<game, now, epoch, trigger, gone, stored, scene>>

\* The update is protected, and then the room stops before it is published.
PublishFails ==
  /\ rt # None /\ Disturb /\ Stop
  /\ \E next \in NextUpdate :
       LET c == next.update.checkpoint
       IN c # None /\ Newer(c) /\ CriticalKey(c) # barrier.critical /\ saved' = c
  /\ UNCHANGED <<game, now, epoch, trigger, gone, stored, announced>>

\* protectFinalCheckpoint
FinalCheckpoint == IF OutOfOrder(Checkpoint(rt)) \/ Covered(Checkpoint(rt)) THEN saved ELSE Checkpoint(rt)

\* captureResult and completeMatch: FinalizeResult accepts only a valid result;
\* the checkpoint is deleted after the commit and the room closes.
Complete ==
  /\ rt # None /\ rt.results # <<>> /\ ValidResult(rt.world, rt.results[1])
  /\ stored' = rt.results[1] /\ saved' = None
  /\ Stop
  /\ UNCHANGED <<game, now, epoch, trigger, gone, announced, scene>>

\* The proposal is protected, and then the room stops before it is committed.
CompleteFails ==
  /\ rt # None /\ rt.results # <<>> /\ Disturb
  /\ saved' = FinalCheckpoint
  /\ Stop
  /\ UNCHANGED <<game, now, epoch, trigger, gone, stored, announced>>

-----------------------------------------------------------------------------
Next ==
  \/ Start \/ Crash \/ LoseCheckpoint \/ Recover \/ Pass \/ Advance
  \/ SubmitSnapshot \/ RejectRemoteInput
  \/ \E p \in Players : Submit(p) \/ LeaveSession(p)
  \/ Reconcile \/ UserCancel
  \/ PublishUpdate \/ PublishFails \/ Complete \/ CompleteFails

Spec == Init /\ [][Next]_vars

-----------------------------------------------------------------------------
(* Correctness                                                             *)

Worlds == IF game = "houseTanks" THEN Matches ELSE Simulations

\* Every variable has its type.
TypeOK ==
  /\ game \in {"houseTanks", "houseRockets"} /\ {now, epoch} \subseteq Nat /\ trigger \in BOOLEAN
  /\ gone \subseteq Players
  /\ saved # None => saved.world \in Worlds
  /\ rt # None => /\ rt.world \in Worlds
                  /\ Len(rt.frames) <= 1 /\ Len(rt.results) <= 1
                  /\ Len(rt.events) <= RuntimeQueueSize /\ Len(rt.commands) <= RuntimeQueueSize

\* Everything shown is also in w, or was outlived by a later round.
StillTrue(shown, w) ==
  LET f == Facts(w)
  IN IF game = "houseTanks"
     THEN /\ shown.left \subseteq f.left /\ \A p \in Players : shown.won[p] <= f.won[p]
          /\ shown.round < f.round \/ (shown.round = f.round /\ shown.destroyed \subseteq f.destroyed)
          /\ shown.result # None => f.result = shown.result
     ELSE /\ shown.eliminated \subseteq f.eliminated
          /\ shown.outcome # None => f.outcome = shown.outcome

\* What players have been shown is in the checkpoint the next owner starts from
\* and in the running match: as long as the match goes on, a crash never takes back
\* an announced elimination, leave, won round or outcome.
AnnouncedIsKept ==
  /\ announced # None /\ saved # None => StillTrue(announced, saved.world)
  /\ announced # None /\ rt # None => StillTrue(announced, rt.world)

\* A player was heard more than maximumCatchUp after the scheduler's last step, as
\* the checkpoint has it.
HeardInStall(c) == \E p \in Players : c.controls[p].lastSeen > c.capturedAt + CatchUp

\* Whatever was protected, the next owner can resume: no checkpoint the runtime
\* writes is refused by restoreRuntime, with one exception: a checkpoint written
\* after a player was heard in a pause of the scheduler that was too long is
\* refused (ProposalSurvives shows what that costs).
EveryCheckpointRestores ==
  saved # None => HeardInStall(saved) \/ Restorable(saved, epoch + 1)

\* A tank drives only while its player is in control, presses of an older
\* control never wait for a newer one, and whoever left controls nothing.
StationaryTarget ==
  /\ TypeOK
  /\ rt # None /\ game = "houseTanks" => \A p \in Players :
      LET control == rt.controls[p]
      IN /\ rt.world.tanks[p].driving => control.generation # None
         /\ ~Ended(rt.world) => rt.world.controlled[p] = (control.generation # None)
         /\ rt.world.hasLeft[p] => control.generation = None /\ control.queue = <<>>
         /\ \A i \in DOMAIN control.queue : control.queue[i].generation = control.generation

\* The step keeps a protected proposal or commits it.
KeepsProposal ==
  \/ saved' # None /\ saved'.proposed = saved.proposed /\ stored' = None
  \/ stored' = saved.proposed

\* A protected proposal is what gets committed, however often the room changes
\* hands in between, unless the checkpoint is lost or the next owner refuses it
\* because a player was heard in a pause that was too long.
ProposalKept ==
  [][saved # None /\ saved.proposed # None =>
       KeepsProposal \/ LoseCheckpoint \/ (Recover /\ HeardInStall(saved))]_vars

\* What completeMatch says of protectFinalCheckpoint: "The proposal must survive
\* this owner's crash before it is committed."  This does not hold when a player was
\* heard in the pause that ended the match: restoreRuntime refuses the checkpoint,
\* and the match is stored as one that could not be recovered.
ProposalSurvives ==
  [][saved # None /\ saved.proposed # None => KeepsProposal \/ LoseCheckpoint]_vars
=============================================================================
