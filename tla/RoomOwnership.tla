---------------------------- MODULE RoomOwnership ----------------------------
(***************************************************************************)
(* Who runs the one match of a tick game's session.  Instances compete for *)
(* the room's Redis lease, claim the durable runtime owner in MongoDB by   *)
(* compare and set, spawn the physics once or restore it from the Redis    *)
(* checkpoint, and commit one result.                                      *)
(*                                                                         *)
(* Local lease validity is not a variable: a room may notice the loss of   *)
(* its lease at any time after it happened, or be stopped before it does.  *)
(* A lapse covers expiry under a slow renewal and a reset of Redis.        *)
(***************************************************************************)
EXTENDS Naturals, FiniteSets

CONSTANTS
  Instances,  \* API processes
  LeaseIds,   \* lease identifiers; an acquisition takes one nobody remembers
  Outcomes,   \* ends the simulation itself can reach
  Cancels,    \* message identifiers of authorised gameSession.cancel commands
  None,
  MaxTicks,   \* bound: frames of one runtime before the match must end
  MaxDisturbances \* bound: deliveries of cancels, crashes, lapses of a lease in
                  \* use, lost checkpoints, lost replies

ASSUME BoundsAssumption == MaxTicks \in Nat /\ MaxDisturbances \in Nat
CancelledByUser == "cancelledByUser"
RecoveryFailed == "recoveryFailed"

\* A proposed result: how the match ended and the generation that proposed it.
Results == [kind : Outcomes \cup {CancelledByUser, RecoveryFailed}, by : Nat]
Frames == [sequence : Nat, end : Results \cup {None}]
Owners == [generation : Nat, lease : LeaseIds \cup {None}, started : BOOLEAN,
           trigger : Cancels \cup {None}, completed : BOOLEAN]
Leases == [holder : Instances, id : LeaseIds]
Checkpoints == [epoch : Nat, sequence : Nat, end : Results \cup {None}, world : Nat]

\* Go's nil is no value of any of these.
ASSUME NoneAssumption ==
  /\ None \notin LeaseIds \cup Cancels
  /\ None \notin Results /\ None \notin Frames
  /\ None \notin Leases /\ None \notin Checkpoints

\* The positions of an instance with respect to the room: the durable
\* generation was read, the lease acquired, the owner claimed; the room is
\* open; its runtime is being started; it plays; a cancel is between its two
\* writes; the result is being committed, is committed, is cleaned up.
Positions == {"idle", "read", "leased", "claimed", "open", "spawned", "restored",
              "playing", "cancelling", "committing", "committed", "closing"}

Rooms == [at : Positions, expected : Nat, lease : LeaseIds \cup {None},
          generation : Nat, started : BOOLEAN, trigger : Cancels \cup {None},
          physics : BOOLEAN, world : Nat, sequence : Nat, end : Results \cup {None},
          frame : Frames \cup {None}, update : Frames \cup {None},
          saved : Frames \cup {None}, released : BOOLEAN,
          cancel : Cancels \cup {None}, held : Cancels \cup {None}]

VARIABLES
  session,    \* the stored session: countdown, running or ended
  result,     \* gameMatchResults: the committed result
  owner,      \* gameRuntimeOwners: the session's document
  lease,      \* Redis: the room's lease, [holder, id]
  checkpoint, \* Redis: the runtime checkpoint
  rooms,      \* each instance's room
  disturbances, \* cancels delivered and faults so far
  worlds,     \* history: spawns whose frames were published
  announced,  \* history: ends shown in published frames
  lost        \* history: Redis lost a checkpoint

mongo == <<session, result, owner>>
redis == <<lease, checkpoint>>
history == <<worlds, announced, lost>>
vars == <<mongo, redis, rooms, disturbances, history>>

Idle == [at |-> "idle", expected |-> 0, lease |-> None,
         generation |-> 0, started |-> FALSE, trigger |-> None,
         physics |-> FALSE, world |-> 0, sequence |-> 0, end |-> None,
         frame |-> None, update |-> None, saved |-> None, released |-> FALSE,
         cancel |-> None, held |-> None]

Init ==
  /\ session = "countdown"
  /\ result = None
  /\ owner = [generation |-> 0, lease |-> None, started |-> FALSE,
              trigger |-> None, completed |-> FALSE]
  /\ lease = None
  /\ checkpoint = None
  /\ rooms = [i \in Instances |-> Idle]
  /\ disturbances = 0
  /\ worlds = {} /\ announced = {} /\ lost = FALSE

-----------------------------------------------------------------------------
(* Building blocks                                                         *)

At(i, position) == rooms[i].at = position
GoTo(i, position) == rooms' = [rooms EXCEPT ![i].at = position]

\* The scripts of Redis compare the whole lease value.
HoldsLease(i) == lease = [holder |-> i, id |-> rooms[i].lease]

\* The filter of the owner document's conditional writes.
OwnsGeneration(i) == owner.generation = rooms[i].generation /\ owner.lease = rooms[i].lease

\* The room is gone: its context is cancelled and its lease released.
Close(i) ==
  /\ rooms' = [rooms EXCEPT ![i] = Idle]
  /\ lease' = IF HoldsLease(i) THEN None ELSE lease

Disturb == disturbances < MaxDisturbances /\ disturbances' = disturbances + 1

\* The room's goroutines run: scheduler, publisher and lifecycle loop.
Running(i) == rooms[i].at \in {"playing", "cancelling", "committing", "committed", "closing"}

\* saveRuntimeCheckpointScript; the epoch of a room is its generation
InOrder(i, f) ==
  checkpoint # None =>
    \/ checkpoint.epoch < rooms[i].generation
    \/ checkpoint.epoch = rooms[i].generation /\ checkpoint.sequence < f.sequence

Stored(i, f) == [epoch |-> rooms[i].generation, sequence |-> f.sequence,
                 end |-> f.end, world |-> rooms[i].world]

CurrentFrame(i) == [sequence |-> rooms[i].sequence, end |-> rooms[i].end]

-----------------------------------------------------------------------------
(* Activation: the generation is read BEFORE the lease is requested.       *)

Read(i) ==
  /\ At(i, "idle")
  /\ rooms' = [rooms EXCEPT ![i].at = "read", ![i].expected = owner.generation]
  /\ UNCHANGED <<mongo, redis, disturbances, history>>

\* A new uuid is one that no room and no document remembers; which one it is makes
\* no difference.
Unused == LeaseIds \ ({rooms[i].lease : i \in Instances} \cup {owner.lease})
NewLease == CHOOSE id \in Unused : TRUE

\* A lease this instance still holds is a leftover: it is released first.
Available(i) == lease \in [holder : {i}, id : LeaseIds] \cup {None}

Acquire(i) ==
  /\ At(i, "read")
  /\ Available(i)
  /\ Unused # {}
  /\ lease' = [holder |-> i, id |-> NewLease]
  /\ rooms' = [rooms EXCEPT ![i].at = "leased", ![i].lease = NewLease]
  /\ UNCHANGED <<mongo, checkpoint, disturbances, history>>

\* Another instance owns the room.
NotAcquired(i) ==
  /\ At(i, "read")
  /\ ~Available(i)
  /\ rooms' = [rooms EXCEPT ![i] = Idle]
  /\ UNCHANGED <<mongo, redis, disturbances, history>>

\* Mutant: the generation is reloaded when the claim is made.
ClaimableNow(i) == ~owner.completed

\* The compare and set of ClaimRuntimeOwner.
Claimable(i) == owner.generation = rooms[i].expected /\ ~owner.completed

Claim(i) ==
  /\ At(i, "leased")
  /\ session # "ended" /\ Claimable(i)
  /\ owner' = [owner EXCEPT !.generation = @ + 1, !.lease = rooms[i].lease]
  /\ rooms' = [rooms EXCEPT ![i].at = "claimed", ![i].expected = 0,
                            ![i].generation = owner.generation + 1,
                            ![i].started = owner.started,
                            ![i].trigger = owner.trigger]
  /\ UNCHANGED <<session, result, redis, disturbances, history>>

\* A terminal session, or a claim that lost the compare and set.
ClaimFails(i) ==
  /\ At(i, "leased")
  /\ session = "ended" \/ ~Claimable(i)
  /\ Close(i)
  /\ UNCHANGED <<mongo, checkpoint, disturbances, history>>

\* The lease must be renewed before the room opens (else LoseRoom).
Open(i) ==
  /\ At(i, "claimed")
  /\ HoldsLease(i)
  /\ GoTo(i, "open")
  /\ UNCHANGED <<mongo, redis, disturbances, history>>

-----------------------------------------------------------------------------
(* Starting the match                                                      *)

\* The countdown's deadline: a versioned write no lease fences.
StartSession(i) ==
  /\ At(i, "open")
  /\ session = "countdown"
  /\ session' = "running"
  /\ UNCHANGED <<result, owner, redis, rooms, disturbances, history>>

Spawned(i) == [rooms[i] EXCEPT !.at = "spawned", !.physics = TRUE, !.world = rooms[i].generation,
                               !.sequence = 1, !.saved = [sequence |-> 1, end |-> None]]

\* The first checkpoint is protected before the start is recorded.
Spawn(i) ==
  /\ At(i, "open")
  /\ session = "running" /\ ~rooms[i].started
  /\ HoldsLease(i)
  /\ rooms' = [rooms EXCEPT ![i] = Spawned(i)]
  /\ checkpoint' = [epoch |-> rooms[i].generation, sequence |-> 1, end |-> None,
                    world |-> rooms[i].generation]
  /\ UNCHANGED <<mongo, lease, disturbances, history>>

MayMarkStarted(i) == OwnsGeneration(i) /\ ~owner.started

MarkStarted(i) ==
  /\ At(i, "spawned")
  /\ MayMarkStarted(i)
  /\ owner' = [owner EXCEPT !.started = TRUE]
  /\ GoTo(i, "playing")
  /\ UNCHANGED <<session, result, redis, disturbances, history>>

\* ErrRuntimeRecoveryRequired
MarkFails(i) ==
  /\ At(i, "spawned")
  /\ ~MayMarkStarted(i)
  /\ Close(i)
  /\ UNCHANGED <<mongo, checkpoint, disturbances, history>>

\* A match that should have started long ago is cancelled without physics.
Abandon(i) ==
  /\ At(i, "open")
  /\ session = "running" /\ ~rooms[i].started
  /\ MayMarkStarted(i)
  /\ owner' = [owner EXCEPT !.started = TRUE]
  /\ rooms' = [rooms EXCEPT ![i].at = "playing",
                            ![i].end = [kind |-> RecoveryFailed, by |-> rooms[i].generation]]
  /\ UNCHANGED <<session, result, redis, disturbances, history>>

-----------------------------------------------------------------------------
(* Recovering a match a previous owner started                             *)

\* Mutant: a started match without a checkpoint is spawned again.
RespawnedWithout(i) ==
  [rooms[i] EXCEPT !.at = "playing", !.physics = TRUE, !.world = rooms[i].generation,
                   !.sequence = 1]

\* Missing state never spawns: the match ends with a cancellation.
RecoveredWithout(i) ==
  [rooms[i] EXCEPT !.at = "playing",
     !.end = [kind |-> IF rooms[i].trigger # None THEN CancelledByUser ELSE RecoveryFailed,
              by |-> rooms[i].generation]]

\* The end a restored runtime has: the checkpointed one stands, else a stored
\* cancel or an old capture time ends the match.
RestoredEnds(i) ==
  IF checkpoint.end # None THEN {checkpoint.end}
  ELSE IF rooms[i].trigger # None THEN {[kind |-> CancelledByUser, by |-> rooms[i].generation]}
  ELSE {None, [kind |-> RecoveryFailed, by |-> rooms[i].generation]}

Restore(i) ==
  /\ At(i, "open")
  /\ session = "running" /\ rooms[i].started
  /\ HoldsLease(i)
  /\ IF checkpoint = None
       THEN rooms' = [rooms EXCEPT ![i] = RecoveredWithout(i)]
       ELSE \E end \in RestoredEnds(i) :
              rooms' = [rooms EXCEPT ![i].at = "restored", ![i].physics = TRUE,
                                     ![i].world = checkpoint.world, ![i].sequence = 1,
                                     ![i].end = end]
  /\ UNCHANGED <<mongo, redis, disturbances, history>>

\* The restored state is checkpointed under the new epoch before it runs.
Resume(i) ==
  /\ At(i, "restored")
  /\ HoldsLease(i)
  /\ InOrder(i, CurrentFrame(i))
  /\ checkpoint' = Stored(i, CurrentFrame(i))
  /\ rooms' = [rooms EXCEPT ![i].at = "playing", ![i].saved = CurrentFrame(i),
                            ![i].frame = CurrentFrame(i)]
  /\ UNCHANGED <<mongo, lease, disturbances, history>>

-----------------------------------------------------------------------------
(* The scheduler: it plays on beside the lifecycle loop and keeps the      *)
(* latest frame for the publisher.                                         *)

\* Mutant: only a spawned runtime is scheduled.
SimulatesSpawned(i) ==
  /\ Running(i) /\ rooms[i].physics /\ rooms[i].end = None
  /\ rooms[i].world = rooms[i].generation

Simulates(i) == Running(i) /\ rooms[i].physics /\ rooms[i].end = None

Advanced(i, end) ==
  LET f == [sequence |-> rooms[i].sequence + 1, end |-> end] IN
  [rooms[i] EXCEPT !.sequence = f.sequence, !.end = end, !.frame = f]

Tick(i) ==
  /\ Simulates(i)
  /\ rooms[i].sequence < MaxTicks
  /\ rooms' = [rooms EXCEPT ![i] = Advanced(i, None)]
  /\ UNCHANGED <<mongo, redis, disturbances, history>>

Finish(i) ==
  /\ Simulates(i)
  /\ \E kind \in Outcomes :
       rooms' = [rooms EXCEPT ![i] = Advanced(i, [kind |-> kind, by |-> rooms[i].generation])]
  /\ UNCHANGED <<mongo, redis, disturbances, history>>

\* A snapshot request gets a newer frame, also of a match that has ended.
Resync(i) ==
  /\ Running(i) /\ rooms[i].physics /\ rooms[i].end # None
  /\ rooms[i].sequence < MaxTicks
  /\ rooms' = [rooms EXCEPT ![i] = Advanced(i, rooms[i].end)]
  /\ UNCHANGED <<mongo, redis, disturbances, history>>

-----------------------------------------------------------------------------
(* The publisher: protectCheckpoint, then the publication                  *)

Outdated(i, f) == rooms[i].saved # None /\ f.sequence <= rooms[i].saved.sequence

\* Mutant: an end waits for the checkpoint interval like any frame.
CriticalNever(i, f) == rooms[i].saved = None

Critical(i, f) == rooms[i].saved # None => f.end # rooms[i].saved.end

Published(i, f) ==
  /\ worlds' = worlds \cup {rooms[i].world}
  /\ announced' = IF f.end = None THEN announced ELSE announced \cup {f.end}
  /\ UNCHANGED lost

\* The publisher takes the latest frame; newer ones may replace each other
\* while it stores and publishes this one.
NextUpdate(i) ==
  /\ Running(i) /\ rooms[i].frame # None /\ rooms[i].update = None
  /\ rooms' = [rooms EXCEPT ![i].update = rooms[i].frame, ![i].frame = None]
  /\ UNCHANGED <<mongo, redis, disturbances, history>>

\* Nothing to store: the checkpoint was released, is as new, or is recent.
\* A frame only local sockets need skips Redis, so that no lease fences it.
PublishUnsaved(i) ==
  /\ Running(i) /\ rooms[i].update # None
  /\ rooms[i].released \/ ~Critical(i, rooms[i].update)
  /\ rooms' = [rooms EXCEPT ![i].update = None]
  /\ Published(i, rooms[i].update)
  /\ UNCHANGED <<mongo, redis, disturbances>>

PublishSaved(i) ==
  LET f == rooms[i].update IN
  /\ Running(i) /\ f # None
  /\ HoldsLease(i)
  /\ ~rooms[i].released /\ ~Outdated(i, f) /\ InOrder(i, f)
  /\ checkpoint' = Stored(i, f)
  /\ rooms' = [rooms EXCEPT ![i].update = None, ![i].saved = f]
  /\ Published(i, f)
  /\ UNCHANGED <<mongo, lease, disturbances>>

\* ErrCheckpointOrder: a newer state with another end is already stored.
DropFrame(i) ==
  LET f == rooms[i].update IN
  /\ Running(i) /\ f # None
  /\ ~rooms[i].released /\ Outdated(i, f) /\ Critical(i, f)
  /\ rooms' = [rooms EXCEPT ![i].update = None]
  /\ UNCHANGED <<mongo, redis, disturbances, history>>

-----------------------------------------------------------------------------
(* Cancelling the running match                                            *)

\* The intent is stored before the runtime is touched.
SaveTrigger(i, c) ==
  /\ At(i, "playing") /\ rooms[i].physics /\ rooms[i].end = None
  /\ Disturb
  /\ OwnsGeneration(i) /\ owner.started /\ ~owner.completed
  /\ owner.trigger \in {None, c}
  /\ owner' = [owner EXCEPT !.trigger = c]
  /\ rooms' = [rooms EXCEPT ![i].at = "cancelling", ![i].trigger = c, ![i].cancel = c]
  /\ UNCHANGED <<session, result, redis, history>>

\* The simulation may have ended in between: then the cancel is rejected.
CancelRuntime(i) ==
  /\ At(i, "cancelling")
  /\ LET end == [kind |-> CancelledByUser, by |-> rooms[i].generation] IN
     rooms' = [rooms EXCEPT ![i] =
       IF rooms[i].end = None
         THEN [Advanced(i, end) EXCEPT !.at = "playing", !.cancel = None, !.held = rooms[i].cancel]
         ELSE [rooms[i] EXCEPT !.at = "playing", !.cancel = None]]
  /\ UNCHANGED <<mongo, redis, disturbances, history>>

\* A cancel that is delivered again during finalization waits for the commit.
HoldCancel(i, c) ==
  /\ rooms[i].at \in {"playing", "committing"} /\ rooms[i].end # None
  /\ rooms[i].held = None /\ rooms[i].trigger = c
  /\ Disturb
  /\ rooms' = [rooms EXCEPT ![i].held = c]
  /\ UNCHANGED <<mongo, redis, history>>

-----------------------------------------------------------------------------
(* Completing the match                                                    *)

\* protectFinalCheckpoint: the proposal must survive a crash of its owner.
ProtectFinal(i) ==
  LET f == CurrentFrame(i) IN
  /\ At(i, "playing") /\ rooms[i].end # None
  /\ IF ~rooms[i].physics \/ Outdated(i, f)
       THEN GoTo(i, "committing") /\ UNCHANGED checkpoint
       ELSE /\ HoldsLease(i) /\ InOrder(i, f)
            /\ checkpoint' = Stored(i, f)
            /\ rooms' = [rooms EXCEPT ![i].at = "committing", ![i].saved = f]
  /\ UNCHANGED <<mongo, lease, disturbances, history>>

\* cancellationCommand: the user cancel the completion names.
CancellationCommand(i) ==
  IF rooms[i].held # None THEN rooms[i].held
  ELSE IF rooms[i].end.kind = CancelledByUser THEN rooms[i].trigger
  ELSE None

\* cancellationDescriptor rejects a named cancel of a match that was played out.
Describable(i) == CancellationCommand(i) # None => rooms[i].end.kind = CancelledByUser

\* The fence of the completing transaction.
MayComplete(i) ==
  /\ result = None
  /\ OwnsGeneration(i) /\ owner.started /\ ~owner.completed
  /\ session = "running"

Completed(i) ==
  /\ result' = rooms[i].end
  /\ session' = "ended"
  /\ owner' = [owner EXCEPT !.completed = TRUE]

Commit(i) ==
  /\ At(i, "committing") /\ Describable(i)
  /\ \/ MayComplete(i) /\ Completed(i)
     \/ result = rooms[i].end /\ UNCHANGED mongo       \* already stored
  /\ GoTo(i, "committed")
  /\ UNCHANGED <<redis, disturbances, history>>

\* The transaction commits but the room does not learn it, and tries again.
CommitUnanswered(i) ==
  /\ At(i, "committing") /\ Describable(i)
  /\ Disturb
  /\ MayComplete(i) /\ Completed(i)
  /\ GoTo(i, "playing")
  /\ UNCHANGED <<redis, history>>

\* A newer owner, another result, or a rejection repeated to the end of
\* FinalizationTimeout: the room is left to the next owner.
CommitFails(i) ==
  /\ At(i, "committing")
  /\ ~Describable(i) \/ (~MayComplete(i) /\ result # rooms[i].end)
  /\ Close(i)
  /\ UNCHANGED <<mongo, checkpoint, disturbances, history>>

\* Mutant: a released checkpoint may be written again.
ClosedUnmarked(i) == [rooms[i] EXCEPT !.at = "closing"]

Closed(i) == [rooms[i] EXCEPT !.at = "closing", !.released = TRUE]

\* Frames still queued must not recreate the deleted checkpoint.
ReleaseCheckpoint(i) ==
  /\ At(i, "committed")
  /\ checkpoint' = IF HoldsLease(i) THEN None ELSE checkpoint
  /\ rooms' = [rooms EXCEPT ![i] = Closed(i)]
  /\ UNCHANGED <<mongo, lease, disturbances, history>>

\* The completion is announced and the room is done, or another instance
\* ended the session.
Leave(i) ==
  /\ At(i, "closing") \/ (rooms[i].at \in {"open", "claimed"} /\ session = "ended")
  /\ Close(i)
  /\ UNCHANGED <<mongo, checkpoint, disturbances, history>>

-----------------------------------------------------------------------------
(* Loss and failure                                                        *)

\* The room notices that its lease is gone: every publication, checkpoint,
\* renewal and local deadline check stops it.
LoseRoom(i) ==
  /\ rooms[i].at \notin {"idle", "read"}
  /\ ~HoldsLease(i)
  /\ rooms' = [rooms EXCEPT ![i] = Idle]
  /\ UNCHANGED <<mongo, redis, disturbances, history>>

\* A crash, an error on the way or a shutdown.  Its lease stays behind; where
\* the code releases it, it is as if it expired at once.
Crash(i) ==
  /\ ~At(i, "idle")
  /\ Disturb
  /\ rooms' = [rooms EXCEPT ![i] = Idle]
  /\ UNCHANGED <<mongo, redis, history>>

\* The lease of a room that is in use is lost.
Lapse ==
  /\ lease # None
  /\ Disturb
  /\ lease' = None
  /\ UNCHANGED <<mongo, checkpoint, rooms, history>>

\* Nobody renews the lease any more.
Expire ==
  /\ lease # None /\ \A i \in Instances : ~HoldsLease(i)
  /\ lease' = None
  /\ UNCHANGED <<mongo, checkpoint, rooms, disturbances, history>>

\* Redis loses the checkpoint (a reset, its expiry), or the restoration refuses it.
LoseCheckpoint ==
  /\ checkpoint # None
  /\ Disturb
  /\ checkpoint' = None
  /\ lost' = TRUE
  /\ UNCHANGED <<mongo, lease, rooms, worlds, announced>>

-----------------------------------------------------------------------------
Activate(i) == Read(i) \/ Acquire(i) \/ NotAcquired(i) \/ Claim(i) \/ ClaimFails(i) \/ Open(i)
Start(i) == \/ StartSession(i) \/ Spawn(i) \/ MarkStarted(i) \/ MarkFails(i) \/ Abandon(i)
            \/ Restore(i) \/ Resume(i)
Play(i) == \/ Tick(i) \/ Finish(i) \/ Resync(i) \/ NextUpdate(i) \/ PublishUnsaved(i)
           \/ PublishSaved(i) \/ DropFrame(i) \/ CancelRuntime(i)
Complete(i) == \/ ProtectFinal(i) \/ Commit(i) \/ CommitFails(i) \/ ReleaseCheckpoint(i)
               \/ Leave(i)
Step(i) == Activate(i) \/ Start(i) \/ Play(i) \/ Complete(i) \/ LoseRoom(i)

Next ==
  \/ \E i \in Instances : Step(i) \/ Crash(i) \/ CommitUnanswered(i)
  \/ \E i \in Instances, c \in Cancels : SaveTrigger(i, c) \/ HoldCancel(i, c)
  \/ Lapse \/ Expire \/ LoseCheckpoint

Spec == Init /\ [][Next]_vars

\* Every instance keeps scanning, ticking, publishing and retrying; Redis
\* expires what nobody renews.
FairSpec == Spec /\ WF_vars(Expire) /\ \A i \in Instances : WF_vars(Step(i))

-----------------------------------------------------------------------------
(* Properties                                                              *)

\* Every variable keeps its type.
TypeOK ==
  /\ session \in {"countdown", "running", "ended"}
  /\ result \in Results \cup {None}
  /\ owner \in Owners
  /\ lease \in Leases \cup {None}
  /\ checkpoint \in Checkpoints \cup {None}
  /\ rooms \in [Instances -> Rooms]
  /\ disturbances \in 0..MaxDisturbances
  /\ worlds \subseteq Nat /\ announced \subseteq Results /\ lost \in BOOLEAN

\* Clients see the physics of one spawn only, whatever is lost: a claim that
\* starts a match twice, or a recovery that spawns it again, would show two
\* (MarkRuntimeStarted, restoreRuntime).
OneWorld == TypeOK /\ Cardinality(worlds) <= 1

\* An end that clients were shown is the one that is stored, unless Redis
\* lost a checkpoint: it is checkpointed before it is published, restored by
\* the next owner and fenced at the commit (publishTickUpdates, Complete).
OutcomeStands ==
  ~lost =>
    /\ Cardinality(announced) <= 1
    /\ result # None => announced \subseteq {result}

\* A claim never displaces an owner that holds the lease: a claimant whose
\* lease lapsed lost the compare and set before (activateRoom).
OwnerNotDisplaced ==
  [][\A i \in Instances :
       (Running(i) /\ HoldsLease(i) /\ OwnsGeneration(i)) => owner'.generation = owner.generation]_vars

\* Once the owner has deleted the checkpoint of its committed match, no frame
\* still queued writes it again (releaseCheckpoint).
NoGhostCheckpoint ==
  [][(checkpoint = None /\ \E i \in Instances : At(i, "closing") /\ HoldsLease(i))
       => checkpoint' = None]_vars

\* A running match gets a result once faults and cancels stop: some instance
\* takes it over, restores or cancels it, and commits (runtimeRecovery,
\* completeMatch).
MatchEnds == session = "running" ~> result # None
=============================================================================
