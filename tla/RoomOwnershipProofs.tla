------------------------- MODULE RoomOwnershipProofs -------------------------
(***************************************************************************)
(* Why a match is spawned once and ends once, for any number of instances, *)
(* leases, cancels and faults: the generation of the owner is claimed by   *)
(* compare and set, after the lease, against a value read before it.       *)
(***************************************************************************)
EXTENDS RoomOwnership, FiniteSetTheorems, TLAPS

\* A room that has claimed a generation of the owner.
Claimed(i) == rooms[i].at \notin {"idle", "read", "leased"}

\* The room of the generation stored in the owner's document.
Current(i) == Claimed(i) /\ rooms[i].generation = owner.generation

\* A generation belongs to one room, and only the last one may hold the lease;
\* who holds it is displaced by nobody who can still claim.
GenerationsOK ==
  \A i \in Instances :
    /\ rooms[i].at \in {"read", "leased"} => rooms[i].expected <= owner.generation
    /\ At(i, "leased") \/ Claimed(i) => rooms[i].lease \in LeaseIds
    /\ Claimed(i) =>
         /\ 1 <= rooms[i].generation /\ rooms[i].generation <= owner.generation
         /\ HoldsLease(i) => rooms[i].generation = owner.generation
         /\ \A j \in Instances :
              /\ Claimed(j) /\ rooms[j].generation = rooms[i].generation => j = i
              /\ At(j, "leased") /\ rooms[j].expected = owner.generation => ~HoldsLease(i)

\* What a room believes about the start of the match.
StartsOK ==
  \A i \in Instances :
    /\ Claimed(i) /\ rooms[i].started => owner.started
    /\ Current(i) /\ rooms[i].at \in {"claimed", "open", "spawned"} =>
         rooms[i].started = owner.started
    /\ At(i, "spawned") => ~rooms[i].started
    /\ At(i, "restored") \/ Running(i) => owner.started

\* A room whose physics clients may see: only a started match has one.
Live(i) == rooms[i].physics /\ (At(i, "restored") \/ Running(i))

\* The worlds clients have seen or may still see.
Worlds ==
  worlds \cup (IF checkpoint = None THEN {} ELSE {checkpoint.world})
         \cup {rooms[i].world : i \in {j \in Instances : Live(j)}}

\* There is one of them at most once the match has started, and until then none is
\* seen; the room about to start the match has stored its own.
WorldsOK ==
  /\ \A i \in Instances :
       At(i, "spawned") =>
         /\ rooms[i].world = rooms[i].generation
         /\ Current(i) /\ checkpoint # None => checkpoint.world = rooms[i].generation
  /\ ~owner.started => worlds = {}
  /\ owner.started => \A v, w \in Worlds : v = w

OwnerInv == TypeOK /\ GenerationsOK /\ StartsOK /\ WorldsOK

-----------------------------------------------------------------------------
(* Outcomes                                                                *)

FramesOf(r) == {r.frame, r.update, r.saved} \ {None}

\* The frames of a room come from one run: none is ahead of its simulation, and an
\* end once reached is the end of every later one.
OneRun(r) ==
  /\ \A f \in FramesOf(r) :
       /\ f.sequence <= r.sequence
       /\ f.sequence = r.sequence \/ f.end # None => f.end = r.end
       /\ \A g \in FramesOf(r) : f.sequence <= g.sequence /\ f.end # None => g.end = f.end
  /\ ~r.physics => FramesOf(r) = {}

\* What a room's position says about its simulation and about the result.
InPlace(r, stored) ==
  /\ r.at \in {"idle", "read", "leased", "claimed", "open"} => ~r.physics /\ r.end = None
  /\ r.at = "spawned" => r.physics /\ r.end = None /\ r.saved # None /\ r.saved.end = None
  /\ r.at = "restored" => r.physics /\ FramesOf(r) = {}
  /\ r.at \in {"playing", "cancelling", "committing", "committed"} => r.physics \/ r.end # None
  /\ r.released => r.at = "closing"
  /\ r.at = "closing" => r.released
  /\ r.at \in {"committing", "committed", "closing"} => r.end # None
  /\ r.at \in {"committed", "closing"} => stored = r.end

FramesOK == \A i \in Instances : OneRun(rooms[i]) /\ InPlace(rooms[i], result)

\* The end e is stored: as the result, or in the checkpoint the next owner restores.
Stands(e) ==
  IF result # None THEN result = e ELSE checkpoint # None /\ checkpoint.end = e

\* Until there is a result, what the checkpoint says the last owner says too.
AgreesWithCheckpoint(i) ==
  /\ At(i, "spawned") => checkpoint.end = None
  /\ At(i, "restored") /\ checkpoint.end # None => rooms[i].end = checkpoint.end
  /\ Running(i) =>
       IF rooms[i].physics THEN rooms[i].saved # None /\ checkpoint.end = rooms[i].saved.end
                           ELSE checkpoint.end = None

ResultOK ==
  /\ result # None => owner.completed
  /\ \A i \in Instances : Current(i) /\ result # None => Running(i) /\ rooms[i].end = result

\* Whatever clients were shown or a room has stored stands.
EndsStand ==
  /\ \A e \in announced : Stands(e)
  /\ \A i \in Instances :
       rooms[i].saved # None /\ rooms[i].saved.end # None => Stands(rooms[i].saved.end)

Agreement ==
  /\ \A i \in Instances :
       Current(i) /\ result = None /\ checkpoint # None => AgreesWithCheckpoint(i)
  /\ ~owner.started /\ checkpoint # None => checkpoint.end = None

OutcomeOK == ResultOK /\ (~lost => EndsStand /\ Agreement)

OutcomeInv == OwnerInv /\ FramesOK /\ OutcomeOK

-----------------------------------------------------------------------------
(* What each step does to its room                                         *)

\* The positions, so that no step needs the whole enumeration.
LEMMA PositionNames ==
  /\ "idle" \in Positions /\ "read" \in Positions /\ "leased" \in Positions
  /\ "claimed" \in Positions /\ "open" \in Positions /\ "spawned" \in Positions
  /\ "restored" \in Positions /\ "playing" \in Positions /\ "cancelling" \in Positions
  /\ "committing" \in Positions /\ "committed" \in Positions /\ "closing" \in Positions
  BY DEF Positions

\* All other rooms stay as they are.
OtherRooms(i) ==
  rooms' \in [Instances -> Rooms] /\ \A j \in Instances : j # i => rooms'[j] = rooms[j]

SameClaim(r, s) == /\ s.expected = r.expected /\ s.lease = r.lease
                   /\ s.generation = r.generation /\ s.started = r.started
SameWorld(r, s) == s.physics = r.physics /\ s.world = r.world
SameRun(r, s) == s.sequence = r.sequence /\ s.end = r.end
SameFrames(r, s) == s.frame = r.frame /\ s.update = r.update /\ s.saved = r.saved

TypedRoom(i) ==
  /\ rooms \in [Instances -> Rooms] /\ rooms[i] \in Rooms
  /\ owner.generation \in Nat /\ owner.started \in BOOLEAN
  /\ owner.trigger \in Cancels \cup {None}

\* What the type invariant says of one room.
LEMMA TypedRooms ==
  ASSUME TypeOK, NEW i \in Instances
  PROVE  TypedRoom(i)
  BY DEF TypeOK, TypedRoom, Owners

\* A step that gives one room a new record.
LEMMA OneRoom ==
  ASSUME NEW i \in Instances, NEW s \in Rooms, TypedRoom(i), rooms' = [rooms EXCEPT ![i] = s]
  PROVE  OtherRooms(i) /\ rooms'[i] = s
  BY DEF TypedRoom, OtherRooms

\* The lease that is taken has an identifier.
LEMMA NewLeaseId ==
  ASSUME NEW i \in Instances, Acquire(i)
  PROVE  NewLease \in LeaseIds
  BY DEF Acquire, NewLease, Unused

\* A room that is not there is one of the rooms' records.
LEMMA IdleRoom == Idle \in Rooms
  BY PositionNames DEF Idle, Rooms

\* A room that is gone.
LEMMA ClosedRoom ==
  ASSUME TypeOK, NEW i \in Instances, rooms' = [rooms EXCEPT ![i] = Idle]
  PROVE  OtherRooms(i) /\ rooms'[i] = Idle
  BY TypedRooms, IdleRoom, OneRoom, Zenon

\* The end of a restored match is the stored one, if there is one.
LEMMA RestoredEndTyped ==
  ASSUME TypeOK, NEW i \in Instances, checkpoint # None, NEW e \in RestoredEnds(i)
  PROVE  /\ checkpoint.world \in Nat /\ e \in Results \cup {None}
         /\ checkpoint.end # None => e = checkpoint.end
  <1>1. checkpoint.world \in Nat /\ checkpoint.end \in Results \cup {None}
    BY DEF TypeOK, Checkpoints
  <1> QED BY <1>1, TypedRooms DEF RestoredEnds, Results, TypedRoom, Rooms

\* The generation is read.
LEMMA ReadRoom ==
  ASSUME TypeOK, NEW i \in Instances, Read(i)
  PROVE  /\ OtherRooms(i) /\ SameWorld(rooms[i], rooms'[i]) /\ SameRun(rooms[i], rooms'[i])
         /\ SameFrames(rooms[i], rooms'[i]) /\ rooms'[i].expected = owner.generation
         /\ rooms'[i].lease = rooms[i].lease /\ rooms'[i].generation = rooms[i].generation
         /\ rooms'[i].started = rooms[i].started /\ rooms'[i].at = "read"
         /\ rooms'[i].released = rooms[i].released
  <1> DEFINE s == [rooms[i] EXCEPT !.at = "read", !.expected = owner.generation]
  <1>1. TypedRoom(i)
    BY TypedRooms
  <1>3. s \in Rooms
    BY <1>1, PositionNames DEF Rooms, TypedRoom
  <1>4. rooms' = [rooms EXCEPT ![i] = s]
    BY DEF Read
  <1>5. /\ SameWorld(rooms[i], s) /\ SameRun(rooms[i], s) /\ SameFrames(rooms[i], s)
        /\ s.expected = owner.generation /\ s.lease = rooms[i].lease
        /\ s.generation = rooms[i].generation /\ s.started = rooms[i].started
        /\ s.at = "read" /\ s.released = rooms[i].released
    BY <1>1 DEF Rooms, TypedRoom, SameWorld, SameRun, SameFrames
  <1> HIDE DEF s
  <1>6. OtherRooms(i) /\ rooms'[i] = s
    BY <1>1, <1>3, <1>4, OneRoom, Zenon
  <1> QED BY <1>5, <1>6, Zenon

\* The lease is taken.
LEMMA AcquireRoom ==
  ASSUME TypeOK, NEW i \in Instances, Acquire(i)
  PROVE  /\ OtherRooms(i) /\ SameWorld(rooms[i], rooms'[i]) /\ SameRun(rooms[i], rooms'[i])
         /\ SameFrames(rooms[i], rooms'[i]) /\ rooms'[i].expected = rooms[i].expected
         /\ rooms'[i].lease = NewLease /\ rooms'[i].generation = rooms[i].generation
         /\ rooms'[i].started = rooms[i].started /\ rooms'[i].at = "leased"
         /\ rooms'[i].released = rooms[i].released
  <1> DEFINE s == [rooms[i] EXCEPT !.at = "leased", !.lease = NewLease]
  <1>1. TypedRoom(i)
    BY TypedRooms
  <1>2. NewLease \in LeaseIds
    BY <1>1, NewLeaseId
  <1>3. s \in Rooms
    BY <1>1, <1>2, PositionNames DEF Rooms, TypedRoom
  <1>4. rooms' = [rooms EXCEPT ![i] = s]
    BY DEF Acquire
  <1>5. /\ SameWorld(rooms[i], s) /\ SameRun(rooms[i], s) /\ SameFrames(rooms[i], s)
        /\ s.expected = rooms[i].expected /\ s.lease = NewLease
        /\ s.generation = rooms[i].generation /\ s.started = rooms[i].started
        /\ s.at = "leased" /\ s.released = rooms[i].released
    BY <1>1 DEF Rooms, TypedRoom, SameWorld, SameRun, SameFrames
  <1> HIDE DEF s
  <1>6. OtherRooms(i) /\ rooms'[i] = s
    BY <1>1, <1>3, <1>4, OneRoom, Zenon
  <1> QED BY <1>5, <1>6, Zenon

\* The owner is claimed.
LEMMA ClaimRoom ==
  ASSUME TypeOK, NEW i \in Instances, Claim(i)
  PROVE  /\ OtherRooms(i) /\ SameWorld(rooms[i], rooms'[i]) /\ SameRun(rooms[i], rooms'[i])
         /\ SameFrames(rooms[i], rooms'[i]) /\ rooms'[i].expected = 0
         /\ rooms'[i].lease = rooms[i].lease /\ rooms'[i].generation = owner.generation + 1
         /\ rooms'[i].started = owner.started /\ rooms'[i].at = "claimed"
         /\ rooms'[i].released = rooms[i].released
  <1> DEFINE s == [rooms[i] EXCEPT !.at = "claimed", !.expected = 0,
                                !.generation = owner.generation + 1,
                                !.started = owner.started,
                                !.trigger = owner.trigger]
  <1>1. TypedRoom(i)
    BY TypedRooms
  <1>2. owner.generation + 1 \in Nat
    BY <1>1 DEF TypedRoom
  <1>3. s \in Rooms
    BY <1>1, <1>2, PositionNames DEF Rooms, TypedRoom
  <1>4. rooms' = [rooms EXCEPT ![i] = s]
    BY DEF Claim
  <1>5. /\ SameWorld(rooms[i], s) /\ SameRun(rooms[i], s) /\ SameFrames(rooms[i], s)
        /\ s.expected = 0 /\ s.lease = rooms[i].lease /\ s.generation = owner.generation + 1
        /\ s.started = owner.started /\ s.at = "claimed" /\ s.released = rooms[i].released
    BY <1>1 DEF Rooms, TypedRoom, SameWorld, SameRun, SameFrames
  <1> HIDE DEF s
  <1>6. OtherRooms(i) /\ rooms'[i] = s
    BY <1>1, <1>3, <1>4, OneRoom, Zenon
  <1> QED BY <1>5, <1>6, Zenon

\* Only the position changes.
LEMMA PlaceRoom ==
  ASSUME TypeOK, NEW i \in Instances, NEW p \in Positions,
         rooms' = [rooms EXCEPT ![i].at = p]
  PROVE  /\ OtherRooms(i) /\ SameClaim(rooms[i], rooms'[i]) /\ SameWorld(rooms[i], rooms'[i])
         /\ SameRun(rooms[i], rooms'[i]) /\ SameFrames(rooms[i], rooms'[i])
         /\ rooms'[i].at = p /\ rooms'[i].released = rooms[i].released
  <1> DEFINE s == [rooms[i] EXCEPT !.at = p]
  <1>1. TypedRoom(i)
    BY TypedRooms
  <1>3. s \in Rooms
    BY <1>1, PositionNames DEF Rooms, TypedRoom
  <1>4. rooms' = [rooms EXCEPT ![i] = s]
    OBVIOUS
  <1>5. /\ SameClaim(rooms[i], s) /\ SameWorld(rooms[i], s) /\ SameRun(rooms[i], s)
        /\ SameFrames(rooms[i], s) /\ s.at = p /\ s.released = rooms[i].released
    BY <1>1 DEF Rooms, TypedRoom, SameClaim, SameWorld, SameRun, SameFrames
  <1> HIDE DEF s
  <1>6. OtherRooms(i) /\ rooms'[i] = s
    BY <1>1, <1>3, <1>4, OneRoom, Zenon
  <1> QED BY <1>5, <1>6, Zenon

\* The physics begin.
LEMMA SpawnRoom ==
  ASSUME TypeOK, NEW i \in Instances, Spawn(i)
  PROVE  /\ OtherRooms(i) /\ SameClaim(rooms[i], rooms'[i]) /\ rooms'[i].physics = TRUE
         /\ rooms'[i].world = rooms[i].generation /\ rooms'[i].sequence = 1
         /\ rooms'[i].end = rooms[i].end /\ rooms'[i].frame = rooms[i].frame
         /\ rooms'[i].update = rooms[i].update
         /\ rooms'[i].saved = [sequence |-> 1, end |-> None] /\ rooms'[i].at = "spawned"
         /\ rooms'[i].released = rooms[i].released
  <1> DEFINE s == [rooms[i] EXCEPT !.at = "spawned", !.physics = TRUE,
                                !.world = rooms[i].generation,
                                !.sequence = 1,
                                !.saved = [sequence |-> 1, end |-> None]]
  <1>1. TypedRoom(i)
    BY TypedRooms
  <1>2. [sequence |-> 1, end |-> None] \in Frames /\ rooms[i].generation \in Nat
    BY <1>1 DEF Frames, Rooms, TypedRoom
  <1>3. s \in Rooms
    BY <1>1, <1>2, PositionNames DEF Rooms, TypedRoom
  <1>4. rooms' = [rooms EXCEPT ![i] = s]
    BY DEF Spawn, Spawned
  <1>5. /\ SameClaim(rooms[i], s) /\ s.physics = TRUE /\ s.world = rooms[i].generation
        /\ s.sequence = 1 /\ s.end = rooms[i].end /\ s.frame = rooms[i].frame
        /\ s.update = rooms[i].update /\ s.saved = [sequence |-> 1, end |-> None]
        /\ s.at = "spawned" /\ s.released = rooms[i].released
    BY <1>1 DEF Rooms, TypedRoom, SameClaim
  <1> HIDE DEF s
  <1>6. OtherRooms(i) /\ rooms'[i] = s
    BY <1>1, <1>3, <1>4, OneRoom, Zenon
  <1> QED BY <1>5, <1>6, Zenon

\* A match is given up without physics.
LEMMA AbandonRoom ==
  ASSUME TypeOK, NEW i \in Instances, Abandon(i)
  PROVE  /\ OtherRooms(i) /\ SameClaim(rooms[i], rooms'[i]) /\ SameWorld(rooms[i], rooms'[i])
         /\ SameFrames(rooms[i], rooms'[i]) /\ rooms'[i].sequence = rooms[i].sequence
         /\ rooms'[i].end = [kind |-> RecoveryFailed, by |-> rooms[i].generation]
         /\ rooms'[i].at = "playing" /\ rooms'[i].released = rooms[i].released
  <1> DEFINE s == [rooms[i] EXCEPT !.at = "playing",
                                !.end = [kind |-> RecoveryFailed, by |-> rooms[i].generation]]
  <1>1. TypedRoom(i)
    BY TypedRooms
  <1>2. [kind |-> RecoveryFailed, by |-> rooms[i].generation] \in Results
    BY <1>1 DEF Results, Rooms, TypedRoom
  <1>3. s \in Rooms
    BY <1>1, <1>2, PositionNames DEF Rooms, TypedRoom
  <1>4. rooms' = [rooms EXCEPT ![i] = s]
    BY DEF Abandon
  <1>5. /\ SameClaim(rooms[i], s) /\ SameWorld(rooms[i], s) /\ SameFrames(rooms[i], s)
        /\ s.sequence = rooms[i].sequence
        /\ s.end = [kind |-> RecoveryFailed, by |-> rooms[i].generation] /\ s.at = "playing"
        /\ s.released = rooms[i].released
    BY <1>1 DEF Rooms, TypedRoom, SameClaim, SameWorld, SameFrames
  <1> HIDE DEF s
  <1>6. OtherRooms(i) /\ rooms'[i] = s
    BY <1>1, <1>3, <1>4, OneRoom, Zenon
  <1> QED BY <1>5, <1>6, Zenon

\* A match without a checkpoint only has an end.
LEMMA EndedRoom ==
  ASSUME TypeOK, NEW i \in Instances, NEW e \in Results,
         rooms' = [rooms EXCEPT ![i] = [rooms[i] EXCEPT !.at = "playing", !.end = e]]
  PROVE  /\ OtherRooms(i) /\ SameClaim(rooms[i], rooms'[i]) /\ SameWorld(rooms[i], rooms'[i])
         /\ SameFrames(rooms[i], rooms'[i]) /\ rooms'[i].sequence = rooms[i].sequence
         /\ rooms'[i].end = e /\ rooms'[i].at = "playing"
         /\ rooms'[i].released = rooms[i].released
  <1> DEFINE s == [rooms[i] EXCEPT !.at = "playing", !.end = e]
  <1>1. TypedRoom(i)
    BY TypedRooms
  <1>3. s \in Rooms
    BY <1>1, PositionNames DEF Rooms, TypedRoom
  <1>4. rooms' = [rooms EXCEPT ![i] = s]
    OBVIOUS
  <1>5. /\ SameClaim(rooms[i], s) /\ SameWorld(rooms[i], s) /\ SameFrames(rooms[i], s)
        /\ s.sequence = rooms[i].sequence /\ s.end = e /\ s.at = "playing"
        /\ s.released = rooms[i].released
    BY <1>1 DEF Rooms, TypedRoom, SameClaim, SameWorld, SameFrames
  <1> HIDE DEF s
  <1>6. OtherRooms(i) /\ rooms'[i] = s
    BY <1>1, <1>3, <1>4, OneRoom, Zenon
  <1> QED BY <1>5, <1>6, Zenon

\* A match is restored.
LEMMA RestoredRoom ==
  ASSUME TypeOK, NEW i \in Instances, checkpoint # None, NEW e \in RestoredEnds(i),
         rooms' = [rooms EXCEPT ![i].at = "restored", ![i].physics = TRUE,
                                ![i].world = checkpoint.world, ![i].sequence = 1, ![i].end = e]
  PROVE  /\ OtherRooms(i) /\ SameClaim(rooms[i], rooms'[i])
         /\ SameFrames(rooms[i], rooms'[i]) /\ rooms'[i].physics = TRUE
         /\ rooms'[i].world = checkpoint.world /\ rooms'[i].sequence = 1 /\ rooms'[i].end = e
         /\ rooms'[i].at = "restored" /\ rooms'[i].released = rooms[i].released
  <1> DEFINE s == [rooms[i] EXCEPT !.at = "restored", !.physics = TRUE,
                                !.world = checkpoint.world, !.sequence = 1,
                                !.end = e]
  <1>1. TypedRoom(i)
    BY TypedRooms
  <1>2. checkpoint.world \in Nat /\ e \in Results \cup {None}
    BY <1>1, RestoredEndTyped
  <1>3. s \in Rooms
    BY <1>1, <1>2, PositionNames DEF Rooms, TypedRoom
  <1>4. rooms' = [rooms EXCEPT ![i] = s]
    OBVIOUS
  <1>5. /\ SameClaim(rooms[i], s) /\ SameFrames(rooms[i], s) /\ s.physics = TRUE
        /\ s.world = checkpoint.world /\ s.sequence = 1 /\ s.end = e /\ s.at = "restored"
        /\ s.released = rooms[i].released
    BY <1>1 DEF Rooms, TypedRoom, SameClaim, SameFrames
  <1> HIDE DEF s
  <1>6. OtherRooms(i) /\ rooms'[i] = s
    BY <1>1, <1>3, <1>4, OneRoom, Zenon
  <1> QED BY <1>5, <1>6, Zenon

\* A restored match runs on.
LEMMA ResumeRoom ==
  ASSUME TypeOK, NEW i \in Instances, Resume(i)
  PROVE  /\ OtherRooms(i) /\ SameClaim(rooms[i], rooms'[i]) /\ SameWorld(rooms[i], rooms'[i])
         /\ SameRun(rooms[i], rooms'[i]) /\ rooms'[i].frame = CurrentFrame(i)
         /\ rooms'[i].update = rooms[i].update /\ rooms'[i].saved = CurrentFrame(i)
         /\ rooms'[i].at = "playing" /\ rooms'[i].released = rooms[i].released
  <1> DEFINE s == [rooms[i] EXCEPT !.at = "playing", !.saved = CurrentFrame(i),
                                !.frame = CurrentFrame(i)]
  <1>1. TypedRoom(i)
    BY TypedRooms
  <1>2. CurrentFrame(i) \in Frames
    BY <1>1 DEF CurrentFrame, Frames, Rooms, TypedRoom
  <1>3. s \in Rooms
    BY <1>1, <1>2, PositionNames DEF Rooms, TypedRoom
  <1>4. rooms' = [rooms EXCEPT ![i] = s]
    BY DEF Resume
  <1>5. /\ SameClaim(rooms[i], s) /\ SameWorld(rooms[i], s) /\ SameRun(rooms[i], s)
        /\ s.frame = CurrentFrame(i) /\ s.update = rooms[i].update
        /\ s.saved = CurrentFrame(i) /\ s.at = "playing" /\ s.released = rooms[i].released
    BY <1>1 DEF Rooms, TypedRoom, SameClaim, SameWorld, SameRun
  <1> HIDE DEF s
  <1>6. OtherRooms(i) /\ rooms'[i] = s
    BY <1>1, <1>3, <1>4, OneRoom, Zenon
  <1> QED BY <1>5, <1>6, Zenon

\* The simulation yields a frame.
LEMMA AdvancedRoom ==
  ASSUME TypeOK, NEW i \in Instances, NEW e \in Results \cup {None},
         rooms' = [rooms EXCEPT ![i] = Advanced(i, e)]
  PROVE  /\ OtherRooms(i) /\ SameClaim(rooms[i], rooms'[i]) /\ SameWorld(rooms[i], rooms'[i])
         /\ rooms'[i].sequence = rooms[i].sequence + 1 /\ rooms'[i].end = e
         /\ rooms'[i].frame = [sequence |-> rooms[i].sequence + 1, end |-> e]
         /\ rooms'[i].update = rooms[i].update /\ rooms'[i].saved = rooms[i].saved
         /\ rooms'[i].at = rooms[i].at /\ rooms'[i].released = rooms[i].released
  <1> DEFINE s == [rooms[i] EXCEPT !.sequence = rooms[i].sequence + 1, !.end = e,
                                !.frame = [sequence |-> rooms[i].sequence + 1, end |-> e]]
  <1>1. TypedRoom(i)
    BY TypedRooms
  <1>2. rooms[i].sequence + 1 \in Nat /\ [sequence |-> rooms[i].sequence + 1, end |-> e] \in Frames
    BY <1>1 DEF Frames, Rooms, TypedRoom
  <1>3. s \in Rooms
    BY <1>1, <1>2, PositionNames DEF Rooms, TypedRoom
  <1>4. rooms' = [rooms EXCEPT ![i] = s]
    BY DEF Advanced
  <1>5. /\ SameClaim(rooms[i], s) /\ SameWorld(rooms[i], s)
        /\ s.sequence = rooms[i].sequence + 1 /\ s.end = e
        /\ s.frame = [sequence |-> rooms[i].sequence + 1, end |-> e]
        /\ s.update = rooms[i].update /\ s.saved = rooms[i].saved /\ s.at = rooms[i].at
        /\ s.released = rooms[i].released
    BY <1>1 DEF Rooms, TypedRoom, SameClaim, SameWorld
  <1> HIDE DEF s
  <1>6. OtherRooms(i) /\ rooms'[i] = s
    BY <1>1, <1>3, <1>4, OneRoom, Zenon
  <1> QED BY <1>5, <1>6, Zenon

\* The publisher takes the latest frame.
LEMMA NextUpdateRoom ==
  ASSUME TypeOK, NEW i \in Instances, NextUpdate(i)
  PROVE  /\ OtherRooms(i) /\ SameClaim(rooms[i], rooms'[i]) /\ SameWorld(rooms[i], rooms'[i])
         /\ SameRun(rooms[i], rooms'[i]) /\ rooms'[i].frame = None
         /\ rooms'[i].update = rooms[i].frame /\ rooms'[i].saved = rooms[i].saved
         /\ rooms'[i].at = rooms[i].at /\ rooms'[i].released = rooms[i].released
  <1> DEFINE s == [rooms[i] EXCEPT !.update = rooms[i].frame, !.frame = None]
  <1>1. TypedRoom(i)
    BY TypedRooms
  <1>3. s \in Rooms
    BY <1>1, PositionNames DEF Rooms, TypedRoom
  <1>4. rooms' = [rooms EXCEPT ![i] = s]
    BY DEF NextUpdate
  <1>5. /\ SameClaim(rooms[i], s) /\ SameWorld(rooms[i], s) /\ SameRun(rooms[i], s)
        /\ s.frame = None /\ s.update = rooms[i].frame /\ s.saved = rooms[i].saved
        /\ s.at = rooms[i].at /\ s.released = rooms[i].released
    BY <1>1 DEF Rooms, TypedRoom, SameClaim, SameWorld, SameRun
  <1> HIDE DEF s
  <1>6. OtherRooms(i) /\ rooms'[i] = s
    BY <1>1, <1>3, <1>4, OneRoom, Zenon
  <1> QED BY <1>5, <1>6, Zenon

\* The publisher is done with a frame.
LEMMA DroppedRoom ==
  ASSUME TypeOK, NEW i \in Instances, rooms' = [rooms EXCEPT ![i].update = None]
  PROVE  /\ OtherRooms(i) /\ SameClaim(rooms[i], rooms'[i]) /\ SameWorld(rooms[i], rooms'[i])
         /\ SameRun(rooms[i], rooms'[i]) /\ rooms'[i].frame = rooms[i].frame
         /\ rooms'[i].update = None /\ rooms'[i].saved = rooms[i].saved
         /\ rooms'[i].at = rooms[i].at /\ rooms'[i].released = rooms[i].released
  <1> DEFINE s == [rooms[i] EXCEPT !.update = None]
  <1>1. TypedRoom(i)
    BY TypedRooms
  <1>3. s \in Rooms
    BY <1>1, PositionNames DEF Rooms, TypedRoom
  <1>4. rooms' = [rooms EXCEPT ![i] = s]
    OBVIOUS
  <1>5. /\ SameClaim(rooms[i], s) /\ SameWorld(rooms[i], s) /\ SameRun(rooms[i], s)
        /\ s.frame = rooms[i].frame /\ s.update = None /\ s.saved = rooms[i].saved
        /\ s.at = rooms[i].at /\ s.released = rooms[i].released
    BY <1>1 DEF Rooms, TypedRoom, SameClaim, SameWorld, SameRun
  <1> HIDE DEF s
  <1>6. OtherRooms(i) /\ rooms'[i] = s
    BY <1>1, <1>3, <1>4, OneRoom, Zenon
  <1> QED BY <1>5, <1>6, Zenon

\* The publisher has stored a frame.
LEMMA PublishSavedRoom ==
  ASSUME TypeOK, NEW i \in Instances, PublishSaved(i)
  PROVE  /\ OtherRooms(i) /\ SameClaim(rooms[i], rooms'[i]) /\ SameWorld(rooms[i], rooms'[i])
         /\ SameRun(rooms[i], rooms'[i]) /\ rooms'[i].frame = rooms[i].frame
         /\ rooms'[i].update = None /\ rooms'[i].saved = rooms[i].update
         /\ rooms'[i].at = rooms[i].at /\ rooms'[i].released = rooms[i].released
  <1> DEFINE s == [rooms[i] EXCEPT !.update = None, !.saved = rooms[i].update]
  <1>1. TypedRoom(i)
    BY TypedRooms
  <1>3. s \in Rooms
    BY <1>1, PositionNames DEF Rooms, TypedRoom
  <1>4. rooms' = [rooms EXCEPT ![i] = s]
    BY DEF PublishSaved
  <1>5. /\ SameClaim(rooms[i], s) /\ SameWorld(rooms[i], s) /\ SameRun(rooms[i], s)
        /\ s.frame = rooms[i].frame /\ s.update = None /\ s.saved = rooms[i].update
        /\ s.at = rooms[i].at /\ s.released = rooms[i].released
    BY <1>1 DEF Rooms, TypedRoom, SameClaim, SameWorld, SameRun
  <1> HIDE DEF s
  <1>6. OtherRooms(i) /\ rooms'[i] = s
    BY <1>1, <1>3, <1>4, OneRoom, Zenon
  <1> QED BY <1>5, <1>6, Zenon

\* A cancel is stored.
LEMMA SaveTriggerRoom ==
  ASSUME TypeOK, NEW i \in Instances, NEW c \in Cancels, SaveTrigger(i, c)
  PROVE  /\ OtherRooms(i) /\ SameClaim(rooms[i], rooms'[i]) /\ SameWorld(rooms[i], rooms'[i])
         /\ SameRun(rooms[i], rooms'[i]) /\ SameFrames(rooms[i], rooms'[i])
         /\ rooms'[i].at = "cancelling" /\ rooms'[i].released = rooms[i].released
  <1> DEFINE s == [rooms[i] EXCEPT !.at = "cancelling", !.trigger = c, !.cancel = c]
  <1>1. TypedRoom(i)
    BY TypedRooms
  <1>3. s \in Rooms
    BY <1>1, PositionNames DEF Rooms, TypedRoom
  <1>4. rooms' = [rooms EXCEPT ![i] = s]
    BY DEF SaveTrigger
  <1>5. /\ SameClaim(rooms[i], s) /\ SameWorld(rooms[i], s) /\ SameRun(rooms[i], s)
        /\ SameFrames(rooms[i], s) /\ s.at = "cancelling" /\ s.released = rooms[i].released
    BY <1>1 DEF Rooms, TypedRoom, SameClaim, SameWorld, SameRun, SameFrames
  <1> HIDE DEF s
  <1>6. OtherRooms(i) /\ rooms'[i] = s
    BY <1>1, <1>3, <1>4, OneRoom, Zenon
  <1> QED BY <1>5, <1>6, Zenon

\* A cancel ends the simulation.
LEMMA CancelledRoom ==
  ASSUME TypeOK, NEW i \in Instances, NEW e \in Results,
         rooms' = [rooms EXCEPT ![i] = [Advanced(i, e) EXCEPT !.at = "playing", !.cancel = None,
                                                          !.held = rooms[i].cancel]]
  PROVE  /\ OtherRooms(i) /\ SameClaim(rooms[i], rooms'[i]) /\ SameWorld(rooms[i], rooms'[i])
         /\ rooms'[i].sequence = rooms[i].sequence + 1 /\ rooms'[i].end = e
         /\ rooms'[i].frame = [sequence |-> rooms[i].sequence + 1, end |-> e]
         /\ rooms'[i].update = rooms[i].update /\ rooms'[i].saved = rooms[i].saved
         /\ rooms'[i].at = "playing" /\ rooms'[i].released = rooms[i].released
  <1> DEFINE s == [rooms[i] EXCEPT !.sequence = rooms[i].sequence + 1, !.end = e,
                                !.frame = [sequence |-> rooms[i].sequence + 1, end |-> e],
                                !.at = "playing", !.cancel = None,
                                !.held = rooms[i].cancel]
  <1>1. TypedRoom(i)
    BY TypedRooms
  <1>2. rooms[i].sequence + 1 \in Nat /\ [sequence |-> rooms[i].sequence + 1, end |-> e] \in Frames
    BY <1>1 DEF Frames, Rooms, TypedRoom
  <1>3. s \in Rooms
    BY <1>1, <1>2, PositionNames DEF Rooms, TypedRoom
  <1>4. rooms' = [rooms EXCEPT ![i] = s]
    BY DEF Advanced
  <1>5. /\ SameClaim(rooms[i], s) /\ SameWorld(rooms[i], s)
        /\ s.sequence = rooms[i].sequence + 1 /\ s.end = e
        /\ s.frame = [sequence |-> rooms[i].sequence + 1, end |-> e]
        /\ s.update = rooms[i].update /\ s.saved = rooms[i].saved /\ s.at = "playing"
        /\ s.released = rooms[i].released
    BY <1>1 DEF Rooms, TypedRoom, SameClaim, SameWorld
  <1> HIDE DEF s
  <1>6. OtherRooms(i) /\ rooms'[i] = s
    BY <1>1, <1>3, <1>4, OneRoom, Zenon
  <1> QED BY <1>5, <1>6, Zenon

\* A cancel comes too late.
LEMMA RejectedRoom ==
  ASSUME TypeOK, NEW i \in Instances,
         rooms' = [rooms EXCEPT ![i] = [rooms[i] EXCEPT !.at = "playing", !.cancel = None]]
  PROVE  /\ OtherRooms(i) /\ SameClaim(rooms[i], rooms'[i]) /\ SameWorld(rooms[i], rooms'[i])
         /\ SameRun(rooms[i], rooms'[i]) /\ SameFrames(rooms[i], rooms'[i])
         /\ rooms'[i].at = "playing" /\ rooms'[i].released = rooms[i].released
  <1> DEFINE s == [rooms[i] EXCEPT !.at = "playing", !.cancel = None]
  <1>1. TypedRoom(i)
    BY TypedRooms
  <1>3. s \in Rooms
    BY <1>1, PositionNames DEF Rooms, TypedRoom
  <1>4. rooms' = [rooms EXCEPT ![i] = s]
    OBVIOUS
  <1>5. /\ SameClaim(rooms[i], s) /\ SameWorld(rooms[i], s) /\ SameRun(rooms[i], s)
        /\ SameFrames(rooms[i], s) /\ s.at = "playing" /\ s.released = rooms[i].released
    BY <1>1 DEF Rooms, TypedRoom, SameClaim, SameWorld, SameRun, SameFrames
  <1> HIDE DEF s
  <1>6. OtherRooms(i) /\ rooms'[i] = s
    BY <1>1, <1>3, <1>4, OneRoom, Zenon
  <1> QED BY <1>5, <1>6, Zenon

\* A cancel waits for the commit.
LEMMA HoldCancelRoom ==
  ASSUME TypeOK, NEW i \in Instances, NEW c \in Cancels, HoldCancel(i, c)
  PROVE  /\ OtherRooms(i) /\ SameClaim(rooms[i], rooms'[i]) /\ SameWorld(rooms[i], rooms'[i])
         /\ SameRun(rooms[i], rooms'[i]) /\ SameFrames(rooms[i], rooms'[i])
         /\ rooms'[i].at = rooms[i].at /\ rooms'[i].released = rooms[i].released
  <1> DEFINE s == [rooms[i] EXCEPT !.held = c]
  <1>1. TypedRoom(i)
    BY TypedRooms
  <1>3. s \in Rooms
    BY <1>1, PositionNames DEF Rooms, TypedRoom
  <1>4. rooms' = [rooms EXCEPT ![i] = s]
    BY DEF HoldCancel
  <1>5. /\ SameClaim(rooms[i], s) /\ SameWorld(rooms[i], s) /\ SameRun(rooms[i], s)
        /\ SameFrames(rooms[i], s) /\ s.at = rooms[i].at /\ s.released = rooms[i].released
    BY <1>1 DEF Rooms, TypedRoom, SameClaim, SameWorld, SameRun, SameFrames
  <1> HIDE DEF s
  <1>6. OtherRooms(i) /\ rooms'[i] = s
    BY <1>1, <1>3, <1>4, OneRoom, Zenon
  <1> QED BY <1>5, <1>6, Zenon

\* The last frame is stored.
LEMMA ProtectedRoom ==
  ASSUME TypeOK, NEW i \in Instances, rooms' = [rooms EXCEPT ![i].at = "committing",
         ![i].saved = CurrentFrame(i)]
  PROVE  /\ OtherRooms(i) /\ SameClaim(rooms[i], rooms'[i]) /\ SameWorld(rooms[i], rooms'[i])
         /\ SameRun(rooms[i], rooms'[i]) /\ rooms'[i].frame = rooms[i].frame
         /\ rooms'[i].update = rooms[i].update /\ rooms'[i].saved = CurrentFrame(i)
         /\ rooms'[i].at = "committing" /\ rooms'[i].released = rooms[i].released
  <1> DEFINE s == [rooms[i] EXCEPT !.at = "committing", !.saved = CurrentFrame(i)]
  <1>1. TypedRoom(i)
    BY TypedRooms
  <1>2. CurrentFrame(i) \in Frames
    BY <1>1 DEF CurrentFrame, Frames, Rooms, TypedRoom
  <1>3. s \in Rooms
    BY <1>1, <1>2, PositionNames DEF Rooms, TypedRoom
  <1>4. rooms' = [rooms EXCEPT ![i] = s]
    OBVIOUS
  <1>5. /\ SameClaim(rooms[i], s) /\ SameWorld(rooms[i], s) /\ SameRun(rooms[i], s)
        /\ s.frame = rooms[i].frame /\ s.update = rooms[i].update
        /\ s.saved = CurrentFrame(i) /\ s.at = "committing"
        /\ s.released = rooms[i].released
    BY <1>1 DEF Rooms, TypedRoom, SameClaim, SameWorld, SameRun
  <1> HIDE DEF s
  <1>6. OtherRooms(i) /\ rooms'[i] = s
    BY <1>1, <1>3, <1>4, OneRoom, Zenon
  <1> QED BY <1>5, <1>6, Zenon

\* The checkpoint is released.
LEMMA ReleaseRoom ==
  ASSUME TypeOK, NEW i \in Instances, ReleaseCheckpoint(i)
  PROVE  /\ OtherRooms(i) /\ SameClaim(rooms[i], rooms'[i]) /\ SameWorld(rooms[i], rooms'[i])
         /\ SameRun(rooms[i], rooms'[i]) /\ SameFrames(rooms[i], rooms'[i])
         /\ rooms'[i].at = "closing" /\ rooms'[i].released = TRUE
  <1> DEFINE s == [rooms[i] EXCEPT !.at = "closing", !.released = TRUE]
  <1>1. TypedRoom(i)
    BY TypedRooms
  <1>3. s \in Rooms
    BY <1>1, PositionNames DEF Rooms, TypedRoom
  <1>4. rooms' = [rooms EXCEPT ![i] = s]
    BY DEF ReleaseCheckpoint, Closed
  <1>5. /\ SameClaim(rooms[i], s) /\ SameWorld(rooms[i], s) /\ SameRun(rooms[i], s)
        /\ SameFrames(rooms[i], s) /\ s.at = "closing" /\ s.released = TRUE
    BY <1>1 DEF Rooms, TypedRoom, SameClaim, SameWorld, SameRun, SameFrames
  <1> HIDE DEF s
  <1>6. OtherRooms(i) /\ rooms'[i] = s
    BY <1>1, <1>3, <1>4, OneRoom, Zenon
  <1> QED BY <1>5, <1>6, Zenon

\* A match without a checkpoint ends, one with a checkpoint is restored; its end
\* stands, and the world is the one that was stored.
LEMMA RestoreRoom ==
  ASSUME TypeOK, NEW i \in Instances, Restore(i)
  PROVE  /\ OtherRooms(i) /\ SameClaim(rooms[i], rooms'[i]) /\ SameFrames(rooms[i], rooms'[i])
         /\ rooms'[i].released = rooms[i].released
         /\ \/ /\ checkpoint = None /\ SameWorld(rooms[i], rooms'[i])
               /\ rooms'[i].at = "playing" /\ rooms'[i].sequence = rooms[i].sequence
               /\ rooms'[i].end # None
            \/ /\ checkpoint # None /\ rooms'[i].at = "restored"
               /\ rooms'[i].physics = TRUE /\ rooms'[i].world = checkpoint.world
               /\ rooms'[i].sequence = 1
               /\ checkpoint.end # None => rooms'[i].end = checkpoint.end
  <1>1. CASE checkpoint = None
    <2> DEFINE e == [kind |-> IF rooms[i].trigger # None THEN CancelledByUser ELSE RecoveryFailed,
                     by |-> rooms[i].generation]
    <2>1. e \in Results
      BY TypedRooms DEF Results, TypedRoom, Rooms
    <2>2. rooms' = [rooms EXCEPT ![i] = [rooms[i] EXCEPT !.at = "playing", !.end = e]]
      BY <1>1 DEF Restore, RecoveredWithout
    <2> HIDE DEF e
    <2>3. e # None
      BY <2>1, NoneAssumption
    <2> QED BY <1>1, <2>1, <2>2, <2>3, EndedRoom
  <1>2. CASE checkpoint # None
    <2>1. PICK e \in RestoredEnds(i) :
            rooms' = [rooms EXCEPT ![i].at = "restored", ![i].physics = TRUE,
                                   ![i].world = checkpoint.world, ![i].sequence = 1, ![i].end = e]
      BY <1>2 DEF Restore
    <2> QED BY <1>2, <2>1, RestoredRoom, RestoredEndTyped
  <1> QED BY <1>1, <1>2

\* The cancel ends the simulation unless it has ended by itself.
LEMMA CancelRuntimeRoom ==
  ASSUME TypeOK, NEW i \in Instances, CancelRuntime(i)
  PROVE  /\ OtherRooms(i) /\ SameClaim(rooms[i], rooms'[i]) /\ SameWorld(rooms[i], rooms'[i])
         /\ rooms'[i].at = "playing" /\ rooms'[i].released = rooms[i].released
         /\ rooms'[i].update = rooms[i].update /\ rooms'[i].saved = rooms[i].saved
         /\ \/ SameRun(rooms[i], rooms'[i]) /\ rooms'[i].frame = rooms[i].frame
            \/ /\ rooms[i].end = None
               /\ \E e \in Results :
                    /\ rooms'[i].sequence = rooms[i].sequence + 1 /\ rooms'[i].end = e
                    /\ rooms'[i].frame = [sequence |-> rooms[i].sequence + 1, end |-> e]
  <1> DEFINE e == [kind |-> CancelledByUser, by |-> rooms[i].generation]
  <1>1. e \in Results
    BY TypedRooms DEF Results, TypedRoom, Rooms
  <1>2. rooms' = [rooms EXCEPT ![i] =
           IF rooms[i].end = None
             THEN [Advanced(i, e) EXCEPT !.at = "playing", !.cancel = None,
                                         !.held = rooms[i].cancel]
             ELSE [rooms[i] EXCEPT !.at = "playing", !.cancel = None]]
    BY DEF CancelRuntime
  <1> HIDE DEF e
  <1>3. CASE rooms[i].end = None
    <2>1. rooms' = [rooms EXCEPT ![i] = [Advanced(i, e) EXCEPT !.at = "playing", !.cancel = None,
                                                               !.held = rooms[i].cancel]]
      BY <1>2, <1>3
    <2> QED BY <1>1, <1>3, <2>1, CancelledRoom
  <1>4. CASE rooms[i].end # None
    <2>1. rooms' = [rooms EXCEPT ![i] = [rooms[i] EXCEPT !.at = "playing", !.cancel = None]]
      BY <1>2, <1>4
    <2> QED BY <2>1, RejectedRoom DEF SameFrames
  <1> QED BY <1>3, <1>4

\* The last frame is stored unless the checkpoint has it.
LEMMA ProtectFinalRoom ==
  ASSUME TypeOK, NEW i \in Instances, ProtectFinal(i)
  PROVE  /\ OtherRooms(i) /\ SameClaim(rooms[i], rooms'[i]) /\ SameWorld(rooms[i], rooms'[i])
         /\ SameRun(rooms[i], rooms'[i]) /\ rooms'[i].at = "committing"
         /\ rooms'[i].released = rooms[i].released
         /\ rooms'[i].frame = rooms[i].frame /\ rooms'[i].update = rooms[i].update
         /\ \/ UNCHANGED checkpoint /\ rooms'[i].saved = rooms[i].saved
            \/ /\ rooms[i].physics /\ ~Outdated(i, CurrentFrame(i)) /\ HoldsLease(i)
               /\ checkpoint' = Stored(i, CurrentFrame(i)) /\ rooms'[i].saved = CurrentFrame(i)
  <1>1. CASE ~rooms[i].physics \/ Outdated(i, CurrentFrame(i))
    <2>1. rooms' = [rooms EXCEPT ![i].at = "committing"] /\ UNCHANGED checkpoint
      BY <1>1 DEF ProtectFinal, GoTo
    <2> QED BY <2>1, PlaceRoom, PositionNames DEF SameFrames
  <1>2. CASE ~(~rooms[i].physics \/ Outdated(i, CurrentFrame(i)))
    <2>1. /\ rooms' = [rooms EXCEPT ![i].at = "committing", ![i].saved = CurrentFrame(i)]
          /\ checkpoint' = Stored(i, CurrentFrame(i)) /\ HoldsLease(i)
      BY <1>2 DEF ProtectFinal
    <2> QED BY <1>2, <2>1, ProtectedRoom
  <1> QED BY <1>1, <1>2

-----------------------------------------------------------------------------
(* Types                                                                   *)

\* What goes into the checkpoint.
LEMMA StoredTyped ==
  ASSUME TypeOK, NEW i \in Instances
  PROVE  /\ CurrentFrame(i) \in Frames
         /\ \A f \in Frames : Stored(i, f) \in Checkpoints
         /\ [epoch |-> rooms[i].generation, sequence |-> 1, end |-> None,
             world |-> rooms[i].generation] \in Checkpoints
  BY TypedRooms DEF TypedRoom, Rooms, Stored, Checkpoints, Frames, CurrentFrame

\* What is published.
LEMMA UpdateTyped ==
  ASSUME TypeOK, NEW i \in Instances, rooms[i].update # None
  PROVE  rooms[i].update \in Frames /\ rooms[i].update.end \in Results \cup {None}
  BY TypedRooms DEF TypedRoom, Rooms, Frames

\* Cancels and faults stay within their bound.
LEMMA DisturbTyped ==
  ASSUME TypeOK, Disturb
  PROVE  disturbances' \in 0 .. MaxDisturbances
  BY BoundsAssumption DEF TypeOK, Disturb

\* The types hold initially ...
LEMMA InitTypeOK == Init => TypeOK
  <1> SUFFICES ASSUME Init PROVE TypeOK
    OBVIOUS
  <1>1. rooms \in [Instances -> Rooms]
    BY IdleRoom DEF Init
  <1>2. disturbances \in 0 .. MaxDisturbances
    BY BoundsAssumption DEF Init
  <1>3. owner \in Owners
    BY DEF Init, Owners
  <1> QED BY <1>1, <1>2, <1>3 DEF Init, TypeOK

\* ... and every step keeps them.
LEMMA NextTypeOK == TypeOK /\ [Next]_vars => TypeOK'
  <1> SUFFICES ASSUME TypeOK, [Next]_vars PROVE TypeOK'
    OBVIOUS
  <1>1. ASSUME NEW i \in Instances, Read(i) PROVE TypeOK'
    BY <1>1, ReadRoom
    DEF Read, TypeOK, Owners, OtherRooms, mongo, redis, history
  <1>2. ASSUME NEW i \in Instances, Acquire(i) PROVE TypeOK'
    BY <1>2, AcquireRoom, NewLeaseId
    DEF Acquire, Leases, TypeOK, Owners, OtherRooms, mongo, redis, history
  <1>3. ASSUME NEW i \in Instances, NotAcquired(i) PROVE TypeOK'
    BY <1>3, ClosedRoom
    DEF NotAcquired, TypeOK, Owners, OtherRooms, mongo, redis, history
  <1>4. ASSUME NEW i \in Instances, Claim(i) PROVE TypeOK'
    <2>1. OtherRooms(i)
      BY <1>4, ClaimRoom
    <2>2. /\ owner \in Owners /\ owner.generation + 1 \in Nat
          /\ rooms[i].lease \in LeaseIds \cup {None}
      BY TypedRooms DEF TypedRoom, Rooms, TypeOK
    <2>3. owner' \in Owners
      BY <1>4, <2>2 DEF Claim, Owners
    <2> QED BY <1>4, <2>1, <2>3 DEF Claim, TypeOK, OtherRooms, redis, history
  <1>5. ASSUME NEW i \in Instances, ClaimFails(i) PROVE TypeOK'
    BY <1>5, ClosedRoom
    DEF ClaimFails, Close, TypeOK, Owners, OtherRooms, mongo, redis, history
  <1>6. ASSUME NEW i \in Instances, Open(i) PROVE TypeOK'
    BY <1>6, PlaceRoom, PositionNames
    DEF Open, GoTo, TypeOK, Owners, OtherRooms, mongo, redis, history
  <1>7. ASSUME NEW i \in Instances, StartSession(i) PROVE TypeOK'
    BY <1>7
    DEF StartSession, TypeOK, Owners, OtherRooms, mongo, redis, history
  <1>8. ASSUME NEW i \in Instances, Spawn(i) PROVE TypeOK'
    BY <1>8, SpawnRoom, StoredTyped
    DEF Spawn, TypeOK, Owners, OtherRooms, mongo, redis, history
  <1>9. ASSUME NEW i \in Instances, MarkStarted(i) PROVE TypeOK'
    BY <1>9, PlaceRoom, PositionNames
    DEF MarkStarted, GoTo, TypeOK, Owners, OtherRooms, mongo, redis, history
  <1>10. ASSUME NEW i \in Instances, MarkFails(i) PROVE TypeOK'
    BY <1>10, ClosedRoom
    DEF MarkFails, Close, TypeOK, Owners, OtherRooms, mongo, redis, history
  <1>11. ASSUME NEW i \in Instances, Abandon(i) PROVE TypeOK'
    BY <1>11, AbandonRoom
    DEF Abandon, TypeOK, Owners, OtherRooms, mongo, redis, history
  <1>12. ASSUME NEW i \in Instances, Restore(i) PROVE TypeOK'
    BY <1>12, RestoreRoom
    DEF Restore, TypeOK, Owners, OtherRooms, mongo, redis, history
  <1>13. ASSUME NEW i \in Instances, Resume(i) PROVE TypeOK'
    BY <1>13, ResumeRoom, StoredTyped
    DEF Resume, TypeOK, Owners, OtherRooms, mongo, redis, history
  <1>14. ASSUME NEW i \in Instances, Tick(i) PROVE TypeOK'
    BY <1>14, AdvancedRoom
    DEF Tick, TypeOK, Owners, OtherRooms, mongo, redis, history
  <1>15. ASSUME NEW i \in Instances, Finish(i) PROVE TypeOK'
    <2>1. PICK kind \in Outcomes :
            rooms' = [rooms EXCEPT ![i] = Advanced(i, [kind |-> kind, by |-> rooms[i].generation])]
      BY <1>15 DEF Finish
    <2>2. [kind |-> kind, by |-> rooms[i].generation] \in Results
      BY TypedRooms DEF TypedRoom, Rooms, Results
    <2>3. OtherRooms(i)
      BY <2>1, <2>2, AdvancedRoom
    <2> QED BY <1>15, <2>3 DEF Finish, TypeOK, OtherRooms, mongo, redis, history
  <1>16. ASSUME NEW i \in Instances, Resync(i) PROVE TypeOK'
    <2>1. rooms[i].end \in Results \cup {None}
      BY TypedRooms DEF TypedRoom, Rooms
    <2>2. OtherRooms(i)
      BY <1>16, <2>1, AdvancedRoom DEF Resync
    <2> QED BY <1>16, <2>2 DEF Resync, TypeOK, OtherRooms, mongo, redis, history
  <1>17. ASSUME NEW i \in Instances, NextUpdate(i) PROVE TypeOK'
    BY <1>17, NextUpdateRoom
    DEF NextUpdate, TypeOK, Owners, OtherRooms, mongo, redis, history
  <1>18. ASSUME NEW i \in Instances, PublishUnsaved(i) PROVE TypeOK'
    BY <1>18, DroppedRoom, UpdateTyped, TypedRooms
    DEF PublishUnsaved, Published, TypedRoom, Rooms, TypeOK, Owners, OtherRooms, mongo, redis,
        history
  <1>19. ASSUME NEW i \in Instances, PublishSaved(i) PROVE TypeOK'
    <2>1. OtherRooms(i)
      BY <1>19, PublishSavedRoom
    <2>2. /\ rooms[i].update \in Frames /\ rooms[i].update.end \in Results \cup {None}
          /\ rooms[i].world \in Nat
      BY <1>19, UpdateTyped, TypedRooms DEF PublishSaved, TypedRoom, Rooms
    <2>3. checkpoint' \in Checkpoints
      BY <1>19, <2>2, StoredTyped DEF PublishSaved
    <2> QED BY <1>19, <2>1, <2>2, <2>3 DEF PublishSaved, Published, TypeOK, OtherRooms, mongo
  <1>20. ASSUME NEW i \in Instances, DropFrame(i) PROVE TypeOK'
    BY <1>20, DroppedRoom
    DEF DropFrame, TypeOK, Owners, OtherRooms, mongo, redis, history
  <1>21. ASSUME NEW i \in Instances, CancelRuntime(i) PROVE TypeOK'
    BY <1>21, CancelRuntimeRoom
    DEF CancelRuntime, TypeOK, Owners, OtherRooms, mongo, redis, history
  <1>22. ASSUME NEW i \in Instances, ProtectFinal(i) PROVE TypeOK'
    <2>1. OtherRooms(i)
      BY <1>22, ProtectFinalRoom
    <2>2. \/ UNCHANGED checkpoint
          \/ checkpoint' = Stored(i, CurrentFrame(i))
      BY <1>22, ProtectFinalRoom
    <2>3. checkpoint' \in Checkpoints \cup {None}
      BY <2>2, StoredTyped DEF TypeOK
    <2> QED BY <1>22, <2>1, <2>3 DEF ProtectFinal, TypeOK, OtherRooms, mongo, history
  <1>23. ASSUME NEW i \in Instances, Commit(i) PROVE TypeOK'
    <2>1. OtherRooms(i)
      BY <1>23, PlaceRoom, PositionNames DEF Commit, GoTo
    <2>2. /\ result' \in Results \cup {None} /\ session' \in {"countdown", "running", "ended"}
          /\ owner' \in Owners
      BY <1>23, TypedRooms DEF Commit, Completed, TypedRoom, Rooms, TypeOK, Owners, mongo
    <2> QED BY <1>23, <2>1, <2>2 DEF Commit, TypeOK, OtherRooms, redis, history
  <1>24. ASSUME NEW i \in Instances, CommitFails(i) PROVE TypeOK'
    BY <1>24, ClosedRoom
    DEF CommitFails, Close, TypeOK, Owners, OtherRooms, mongo, redis, history
  <1>25. ASSUME NEW i \in Instances, ReleaseCheckpoint(i) PROVE TypeOK'
    BY <1>25, ReleaseRoom
    DEF ReleaseCheckpoint, TypeOK, Owners, OtherRooms, mongo, redis, history
  <1>26. ASSUME NEW i \in Instances, Leave(i) PROVE TypeOK'
    BY <1>26, ClosedRoom
    DEF Leave, Close, TypeOK, Owners, OtherRooms, mongo, redis, history
  <1>27. ASSUME NEW i \in Instances, LoseRoom(i) PROVE TypeOK'
    BY <1>27, ClosedRoom
    DEF LoseRoom, TypeOK, Owners, OtherRooms, mongo, redis, history
  <1>28. ASSUME NEW i \in Instances, Crash(i) PROVE TypeOK'
    BY <1>28, ClosedRoom, DisturbTyped
    DEF Crash, mongo, TypeOK, Owners, OtherRooms, mongo, redis, history, Owners
  <1>29. ASSUME NEW i \in Instances, CommitUnanswered(i) PROVE TypeOK'
    <2>1. OtherRooms(i)
      BY <1>29, PlaceRoom, PositionNames DEF CommitUnanswered, GoTo
    <2>2. /\ result' \in Results \cup {None} /\ session' \in {"countdown", "running", "ended"}
          /\ owner' \in Owners
      BY <1>29, TypedRooms
        DEF CommitUnanswered, Completed, TypedRoom, Rooms, TypeOK, Owners, mongo
    <2>3. disturbances' \in 0 .. MaxDisturbances
      BY <1>29, DisturbTyped DEF CommitUnanswered
    <2> QED BY <1>29, <2>1, <2>2, <2>3 DEF CommitUnanswered, TypeOK, OtherRooms, redis, history
  <1>30. ASSUME NEW i \in Instances, NEW c \in Cancels, SaveTrigger(i, c) PROVE TypeOK'
    BY <1>30, SaveTriggerRoom, DisturbTyped
    DEF SaveTrigger, mongo, TypeOK, Owners, OtherRooms, mongo, redis, history, Owners
  <1>31. ASSUME NEW i \in Instances, NEW c \in Cancels, HoldCancel(i, c) PROVE TypeOK'
    BY <1>31, HoldCancelRoom, DisturbTyped
    DEF HoldCancel, mongo, TypeOK, Owners, OtherRooms, mongo, redis, history, Owners
  <1>32. ASSUME Lapse PROVE TypeOK'
    BY <1>32, DisturbTyped
    DEF Lapse, mongo, TypeOK, Owners, OtherRooms, mongo, redis, history, Owners
  <1>33. ASSUME Expire PROVE TypeOK'
    BY <1>33
    DEF Expire, TypeOK, Owners, OtherRooms, mongo, redis, history, Owners
  <1>34. ASSUME LoseCheckpoint PROVE TypeOK'
    BY <1>34, DisturbTyped
    DEF LoseCheckpoint, mongo, TypeOK, Owners, OtherRooms, mongo, redis, history, Owners
  <1>35. ASSUME UNCHANGED vars PROVE TypeOK'
    BY <1>35
    DEF vars, TypeOK, Owners, OtherRooms, mongo, redis, history, Owners
  <1> QED BY <1>1, <1>2, <1>3, <1>4, <1>5, <1>6, <1>7, <1>8, <1>9, <1>10, <1>11, <1>12,
             <1>13, <1>14, <1>15, <1>16, <1>17, <1>18, <1>19, <1>20, <1>21, <1>22, <1>23,
             <1>24, <1>25, <1>26, <1>27, <1>28, <1>29, <1>30, <1>31, <1>32, <1>33, <1>34, <1>35
    DEF Next, Step, Activate, Start, Play, Complete

-----------------------------------------------------------------------------
(* The frames of a room are those of one run                               *)

\* Frames are numbered.
LEMMA FrameTypes ==
  ASSUME NEW r \in Rooms
  PROVE  /\ r.sequence \in Nat
         /\ \A f \in FramesOf(r) : f \in Frames /\ f.sequence \in Nat
  BY DEF FramesOf, Rooms, Frames

\* Frames that move on or are dropped.
LEMMA KeptRun ==
  ASSUME NEW r, NEW s, OneRun(r), SameWorld(r, s), SameRun(r, s),
         FramesOf(s) \subseteq FramesOf(r)
  PROVE  OneRun(s)
  BY DEF OneRun, SameWorld, SameRun

\* A room whose frames stay.
LEMMA SameFramesRun ==
  ASSUME NEW r, NEW s, OneRun(r), SameWorld(r, s), SameRun(r, s), SameFrames(r, s)
  PROVE  OneRun(s)
  BY KeptRun DEF SameFrames, FramesOf

\* A room that is not there has no frames.
LEMMA IdleRun == OneRun(Idle) /\ FramesOf(Idle) = {}
  BY DEF OneRun, FramesOf, Idle

\* A newer frame, whose end is the one that was reached.
LEMMA AdvancedRun ==
  ASSUME NEW r \in Rooms, NEW s, OneRun(r), r.physics, SameWorld(r, s),
         s.sequence = r.sequence + 1, s.frame = [sequence |-> r.sequence + 1, end |-> s.end],
         s.update = r.update, s.saved = r.saved, r.end # None => s.end = r.end
  PROVE  OneRun(s)
  <1>1. r.sequence \in Nat /\ \A f \in FramesOf(r) : f.sequence \in Nat
    BY FrameTypes
  <1>2. \A f \in FramesOf(s) : f \in FramesOf(r) \/ f = s.frame
    BY DEF FramesOf
  <1>3. s.frame.sequence = s.sequence /\ s.frame.end = s.end
    OBVIOUS
  <1>4. \A f \in FramesOf(r) :
          /\ f.sequence < s.sequence
          /\ f.end # None => f.end = s.end
    BY <1>1 DEF OneRun
  <1>5. \A f \in FramesOf(s) :
          /\ f.sequence <= s.sequence
          /\ f.sequence = s.sequence \/ f.end # None => f.end = s.end
    BY <1>1, <1>2, <1>3, <1>4
  <1>6. ASSUME NEW f \in FramesOf(s), NEW g \in FramesOf(s), f.sequence <= g.sequence, f.end # None
        PROVE  g.end = f.end
    BY <1>1, <1>2, <1>3, <1>4, <1>6 DEF OneRun
  <1> QED BY <1>5, <1>6 DEF OneRun, SameWorld

\* The current frame is kept or stored.
LEMMA StoredRun ==
  ASSUME NEW r \in Rooms, NEW s, OneRun(r), s.physics, s.sequence \in Nat,
         FramesOf(s) \subseteq FramesOf(r) \cup {[sequence |-> s.sequence, end |-> s.end]},
         SameRun(r, s) \/ FramesOf(r) = {}
  PROVE  OneRun(s)
  <1> DEFINE c == [sequence |-> s.sequence, end |-> s.end]
  <1>1. \A f \in FramesOf(r) : f.sequence \in Nat
    BY FrameTypes
  <1>2. c.sequence = s.sequence /\ c.end = s.end
    OBVIOUS
  <1>3. \A f \in FramesOf(s) : f \in FramesOf(r) \/ f = c
    OBVIOUS
  <1> HIDE DEF c
  <1>4. \A f \in FramesOf(r) :
          /\ f.sequence <= s.sequence
          /\ f.sequence = s.sequence \/ f.end # None => f.end = s.end
    BY DEF OneRun, SameRun
  <1>5. \A f \in FramesOf(s) :
          /\ f.sequence <= s.sequence
          /\ f.sequence = s.sequence \/ f.end # None => f.end = s.end
    BY <1>2, <1>3, <1>4
  <1>6. ASSUME NEW f \in FramesOf(s), NEW g \in FramesOf(s), f.sequence <= g.sequence, f.end # None
        PROVE  g.end = f.end
    <2>1. CASE f \in FramesOf(r) /\ g \in FramesOf(r)
      BY <2>1, <1>6 DEF OneRun
    <2>2. CASE g = c
      BY <2>2, <1>2, <1>5, <1>6
    <2>3. CASE f = c /\ g \in FramesOf(r)
      BY <2>3, <1>1, <1>2, <1>4, <1>6
    <2> QED BY <1>3, <2>1, <2>2, <2>3
  <1> QED BY <1>5, <1>6 DEF OneRun

\* The step of one room, and a result that is only ever set once.
LEMMA OneRoomFrames ==
  ASSUME FramesOK, NEW i \in Instances, OtherRooms(i), result # None => result' = result,
         OneRun(rooms'[i]), InPlace(rooms'[i], result')
  PROVE  FramesOK'
  <1> SUFFICES ASSUME NEW j \in Instances PROVE OneRun(rooms'[j]) /\ InPlace(rooms'[j], result')
    BY DEF FramesOK
  <1>1. CASE j = i
    BY <1>1
  <1>2. CASE j # i
    <2>1. rooms'[j] = rooms[j] /\ OneRun(rooms[j]) /\ InPlace(rooms[j], result)
      BY <1>2 DEF OtherRooms, FramesOK
    <2> QED BY <2>1 DEF InPlace
  <1> QED BY <1>1, <1>2

\* A room that is gone has no frames.
LEMMA ResetFrames ==
  ASSUME TypeOK, FramesOK, NEW i \in Instances, UNCHANGED result,
         rooms' = [rooms EXCEPT ![i] = Idle]
  PROVE  FramesOK'
  <1>1. InPlace(Idle, result)
    BY DEF InPlace, Idle
  <1> QED BY <1>1, ClosedRoom, IdleRun, OneRoomFrames

\* The simulation moves on while it has no end, or repeats the one it has.
LEMMA AdvancedFrames ==
  ASSUME TypeOK, FramesOK, NEW i \in Instances, UNCHANGED result, NEW e \in Results \cup {None},
         rooms' = [rooms EXCEPT ![i] = Advanced(i, e)], rooms[i].physics,
         rooms[i].end # None => e = rooms[i].end, Running(i)
  PROVE  FramesOK'
  <1>1. InPlace(rooms[i], result) /\ OneRun(rooms[i]) /\ rooms[i] \in Rooms
    BY TypedRooms DEF FramesOK, TypedRoom
  <1>2. /\ OtherRooms(i) /\ SameWorld(rooms[i], rooms'[i]) /\ rooms'[i].end = e
        /\ rooms'[i].sequence = rooms[i].sequence + 1
        /\ rooms'[i].frame = [sequence |-> rooms[i].sequence + 1, end |-> e]
        /\ rooms'[i].update = rooms[i].update /\ rooms'[i].saved = rooms[i].saved
        /\ rooms'[i].at = rooms[i].at /\ rooms'[i].released = rooms[i].released
    BY AdvancedRoom
  <1>3. OneRun(rooms'[i])
    BY <1>1, <1>2, AdvancedRun
  <1>4. InPlace(rooms'[i], result)
    BY <1>1, <1>2 DEF InPlace, SameWorld, Running
  <1> QED BY <1>2, <1>3, <1>4, OneRoomFrames

\* Every step keeps the frames of each room those of one run.
LEMMA NextFramesOK == TypeOK /\ FramesOK /\ [Next]_vars => FramesOK'
  <1> SUFFICES ASSUME TypeOK, FramesOK, [Next]_vars PROVE FramesOK'
    OBVIOUS
  <1>0. TypeOK /\ FramesOK /\ \A i \in Instances : OneRun(rooms[i]) /\ InPlace(rooms[i], result)
    BY DEF FramesOK
  <1>1. ASSUME NEW i \in Instances, Read(i) PROVE FramesOK'
    <2>1. UNCHANGED result
      BY <1>1 DEF Read, At, mongo
    <2>2. /\ OtherRooms(i) /\ SameWorld(rooms[i], rooms'[i]) /\ SameRun(rooms[i], rooms'[i])
          /\ SameFrames(rooms[i], rooms'[i])
      BY <1>1, ReadRoom DEF Read, At
    <2>3. OneRun(rooms'[i])
      BY <1>0, <2>2, SameFramesRun
    <2>4. InPlace(rooms'[i], result)
      <3>1. /\ rooms[i].at = "idle" /\ rooms'[i].at = "read"
            /\ rooms'[i].released = rooms[i].released
        BY <1>1, ReadRoom DEF Read, At
      <3>2. InPlace(rooms[i], result)
        BY <1>0
      <3> QED BY <2>2, <3>1, <3>2 DEF InPlace, SameWorld, SameRun, SameFrames, FramesOf
    <2> QED BY <1>0, <2>1, <2>2, <2>3, <2>4, OneRoomFrames
  <1>2. ASSUME NEW i \in Instances, Acquire(i) PROVE FramesOK'
    <2>1. UNCHANGED result
      BY <1>2 DEF Acquire, At, mongo
    <2>2. /\ OtherRooms(i) /\ SameWorld(rooms[i], rooms'[i]) /\ SameRun(rooms[i], rooms'[i])
          /\ SameFrames(rooms[i], rooms'[i])
      BY <1>2, AcquireRoom DEF Acquire, At
    <2>3. OneRun(rooms'[i])
      BY <1>0, <2>2, SameFramesRun
    <2>4. InPlace(rooms'[i], result)
      <3>1. /\ rooms[i].at = "read" /\ rooms'[i].at = "leased"
            /\ rooms'[i].released = rooms[i].released
        BY <1>2, AcquireRoom DEF Acquire, At
      <3>2. InPlace(rooms[i], result)
        BY <1>0
      <3> QED BY <2>2, <3>1, <3>2 DEF InPlace, SameWorld, SameRun, SameFrames, FramesOf
    <2> QED BY <1>0, <2>1, <2>2, <2>3, <2>4, OneRoomFrames
  <1>3. ASSUME NEW i \in Instances, NotAcquired(i) PROVE FramesOK'
    BY <1>3, <1>0, ResetFrames DEF NotAcquired, mongo
  <1>4. ASSUME NEW i \in Instances, Claim(i) PROVE FramesOK'
    <2>1. UNCHANGED result
      BY <1>4 DEF Claim, At, mongo
    <2>2. /\ OtherRooms(i) /\ SameWorld(rooms[i], rooms'[i]) /\ SameRun(rooms[i], rooms'[i])
          /\ SameFrames(rooms[i], rooms'[i])
      BY <1>4, ClaimRoom DEF Claim, At
    <2>3. OneRun(rooms'[i])
      BY <1>0, <2>2, SameFramesRun
    <2>4. InPlace(rooms'[i], result)
      <3>1. /\ rooms[i].at = "leased" /\ rooms'[i].at = "claimed"
            /\ rooms'[i].released = rooms[i].released
        BY <1>4, ClaimRoom DEF Claim, At
      <3>2. InPlace(rooms[i], result)
        BY <1>0
      <3> QED BY <2>2, <3>1, <3>2 DEF InPlace, SameWorld, SameRun, SameFrames, FramesOf
    <2> QED BY <1>0, <2>1, <2>2, <2>3, <2>4, OneRoomFrames
  <1>5. ASSUME NEW i \in Instances, ClaimFails(i) PROVE FramesOK'
    BY <1>5, <1>0, ResetFrames DEF ClaimFails, Close, mongo
  <1>6. ASSUME NEW i \in Instances, Open(i) PROVE FramesOK'
    <2>1. UNCHANGED result
      BY <1>6 DEF Open, GoTo, At, mongo
    <2>2. /\ OtherRooms(i) /\ SameWorld(rooms[i], rooms'[i]) /\ SameRun(rooms[i], rooms'[i])
          /\ SameFrames(rooms[i], rooms'[i])
      BY <1>6, PlaceRoom, PositionNames DEF Open, GoTo, At
    <2>3. OneRun(rooms'[i])
      BY <1>0, <2>2, SameFramesRun
    <2>4. InPlace(rooms'[i], result)
      <3>1. /\ rooms[i].at = "claimed" /\ rooms'[i].at = "open"
            /\ rooms'[i].released = rooms[i].released
        BY <1>6, PlaceRoom, PositionNames DEF Open, GoTo, At
      <3>2. InPlace(rooms[i], result)
        BY <1>0
      <3> QED BY <2>2, <3>1, <3>2 DEF InPlace, SameWorld, SameRun, SameFrames, FramesOf
    <2> QED BY <1>0, <2>1, <2>2, <2>3, <2>4, OneRoomFrames
  <1>7. ASSUME NEW i \in Instances, StartSession(i) PROVE FramesOK'
    BY <1>7 DEF StartSession, FramesOK
  <1>8. ASSUME NEW i \in Instances, Spawn(i) PROVE FramesOK'
    <2>1. InPlace(rooms[i], result) /\ rooms[i] \in Rooms /\ OneRun(rooms[i])
      BY <1>0, TypedRooms DEF FramesOK, TypedRoom
    <2>2. FramesOf(rooms[i]) = {} /\ rooms[i].end = None /\ rooms[i].released = FALSE
      BY <1>8, <2>1 DEF InPlace, OneRun, Spawn, At, Rooms
    <2>3. FramesOf(rooms'[i]) \subseteq {[sequence |-> 1, end |-> None]}
      BY <1>8, <2>2, SpawnRoom DEF FramesOf
    <2>4. OneRun(rooms'[i])
      <3>1. rooms'[i].sequence = 1 /\ rooms'[i].end = None /\ rooms'[i].physics
        BY <1>8, <2>2, SpawnRoom
      <3> QED BY <2>1, <2>2, <2>3, <3>1, StoredRun
    <2>5. [sequence |-> 1, end |-> None] # None
      BY NoneAssumption DEF Frames
    <2>6. InPlace(rooms'[i], result)
      <3>1. /\ rooms'[i].at = "spawned" /\ rooms'[i].end = None /\ rooms'[i].physics = TRUE
            /\ rooms'[i].saved = [sequence |-> 1, end |-> None] /\ rooms'[i].released = FALSE
        BY <1>8, <2>2, SpawnRoom
      <3> QED BY <2>5, <3>1 DEF InPlace
    <2> QED BY <1>8, <1>0, <2>4, <2>6, SpawnRoom, OneRoomFrames DEF Spawn, mongo
  <1>9. ASSUME NEW i \in Instances, MarkStarted(i) PROVE FramesOK'
    <2>1. UNCHANGED result
      BY <1>9 DEF MarkStarted, GoTo, At, mongo
    <2>2. /\ OtherRooms(i) /\ SameWorld(rooms[i], rooms'[i]) /\ SameRun(rooms[i], rooms'[i])
          /\ SameFrames(rooms[i], rooms'[i])
      BY <1>9, PlaceRoom, PositionNames DEF MarkStarted, GoTo, At
    <2>3. OneRun(rooms'[i])
      BY <1>0, <2>2, SameFramesRun
    <2>4. InPlace(rooms'[i], result)
      <3>1. /\ rooms[i].at = "spawned" /\ rooms'[i].at = "playing"
            /\ rooms'[i].released = rooms[i].released
        BY <1>9, PlaceRoom, PositionNames DEF MarkStarted, GoTo, At
      <3>2. InPlace(rooms[i], result)
        BY <1>0
      <3> QED BY <2>2, <3>1, <3>2 DEF InPlace, SameWorld, SameRun, SameFrames, FramesOf
    <2> QED BY <1>0, <2>1, <2>2, <2>3, <2>4, OneRoomFrames
  <1>10. ASSUME NEW i \in Instances, MarkFails(i) PROVE FramesOK'
    BY <1>10, <1>0, ResetFrames DEF MarkFails, Close, mongo
  <1>11. ASSUME NEW i \in Instances, Abandon(i) PROVE FramesOK'
    <2>1. InPlace(rooms[i], result) /\ OneRun(rooms[i])
      BY <1>0 DEF FramesOK
    <2>2. FramesOf(rooms[i]) = {} /\ ~rooms[i].physics /\ ~rooms[i].released
      BY <1>11, <2>1 DEF InPlace, OneRun, Abandon, At
    <2>3. OneRun(rooms'[i])
      BY <1>11, <2>2, AbandonRoom DEF OneRun, SameFrames, FramesOf
    <2>4. InPlace(rooms'[i], result)
      <3>1. [kind |-> RecoveryFailed, by |-> rooms[i].generation] \in Results
        BY TypedRooms DEF TypedRoom, Rooms, Results
      <3>2. /\ rooms'[i].at = "playing" /\ rooms'[i].released = rooms[i].released
            /\ rooms'[i].end # None
        BY <1>11, <3>1, AbandonRoom, NoneAssumption
      <3> QED BY <2>2, <3>2 DEF InPlace
    <2> QED BY <1>11, <1>0, <2>3, <2>4, AbandonRoom, OneRoomFrames DEF Abandon
  <1>12. ASSUME NEW i \in Instances, Restore(i) PROVE FramesOK'
    <2>1. InPlace(rooms[i], result) /\ OneRun(rooms[i])
      BY <1>0 DEF FramesOK
    <2>2. FramesOf(rooms[i]) = {} /\ ~rooms[i].released
      BY <1>12, <2>1 DEF InPlace, OneRun, Restore, At
    <2>3. FramesOf(rooms'[i]) = {}
      BY <1>12, <2>2, RestoreRoom DEF SameFrames, FramesOf
    <2>4. OneRun(rooms'[i])
      BY <2>3 DEF OneRun
    <2>5. InPlace(rooms'[i], result)
      <3>1. rooms'[i].released = rooms[i].released
        BY <1>12, RestoreRoom
      <3>2. \/ rooms'[i].at = "playing" /\ rooms'[i].end # None
            \/ rooms'[i].at = "restored" /\ rooms'[i].physics = TRUE
        BY <1>12, RestoreRoom
      <3> QED BY <2>2, <2>3, <3>1, <3>2 DEF InPlace
    <2> QED BY <1>12, <1>0, <2>4, <2>5, RestoreRoom, OneRoomFrames DEF Restore, mongo
  <1>13. ASSUME NEW i \in Instances, Resume(i) PROVE FramesOK'
    <2>1. InPlace(rooms[i], result) /\ OneRun(rooms[i]) /\ rooms[i] \in Rooms
      BY <1>0, TypedRooms DEF FramesOK, TypedRoom
    <2>2. FramesOf(rooms[i]) = {} /\ ~rooms[i].released /\ rooms[i].physics
      BY <1>13, <2>1 DEF InPlace, Resume, At
    <2>3. FramesOf(rooms'[i]) \subseteq {CurrentFrame(i)} /\ rooms'[i].sequence = rooms[i].sequence
          /\ rooms'[i].end = rooms[i].end /\ rooms'[i].physics
      BY <1>13, <2>2, ResumeRoom DEF FramesOf, SameRun, SameWorld
    <2>4. OneRun(rooms'[i])
      BY <2>1, <2>2, <2>3, FrameTypes, StoredRun DEF CurrentFrame
    <2>5. InPlace(rooms'[i], result)
      <3>1. /\ rooms'[i].at = "playing" /\ rooms'[i].released = rooms[i].released
            /\ SameWorld(rooms[i], rooms'[i])
        BY <1>13, ResumeRoom
      <3> QED BY <2>2, <3>1 DEF InPlace, SameWorld
    <2> QED BY <1>13, <1>0, <2>4, <2>5, ResumeRoom, OneRoomFrames DEF Resume, mongo
  <1>14. ASSUME NEW i \in Instances, Tick(i) PROVE FramesOK'
    <2>1. /\ rooms' = [rooms EXCEPT ![i] = Advanced(i, None)] /\ UNCHANGED result
          /\ rooms[i].physics /\ Running(i) /\ rooms[i].end = None
      BY <1>14 DEF Tick, Simulates, mongo
    <2>2. None \in Results \cup {None}
      BY TypedRooms DEF TypedRoom, Rooms
    <2> QED BY <1>0, <2>1, <2>2, AdvancedFrames
  <1>15. ASSUME NEW i \in Instances, Finish(i) PROVE FramesOK'
    <2>1. PICK kind \in Outcomes :
            rooms' = [rooms EXCEPT ![i] = Advanced(i, [kind |-> kind, by |-> rooms[i].generation])]
      BY <1>15 DEF Finish
    <2>2. [kind |-> kind, by |-> rooms[i].generation] \in Results
      BY TypedRooms DEF TypedRoom, Rooms, Results
    <2>3. rooms[i].physics /\ rooms[i].end = None /\ UNCHANGED result /\ Running(i)
      BY <1>15 DEF Finish, Simulates, mongo
    <2> QED BY <1>0, <2>1, <2>2, <2>3, AdvancedFrames
  <1>16. ASSUME NEW i \in Instances, Resync(i) PROVE FramesOK'
    <2>1. /\ rooms' = [rooms EXCEPT ![i] = Advanced(i, rooms[i].end)] /\ UNCHANGED result
          /\ rooms[i].physics /\ Running(i) /\ rooms[i].end # None
      BY <1>16 DEF Resync, mongo
    <2>2. rooms[i].end \in Results \cup {None}
      BY TypedRooms DEF TypedRoom, Rooms
    <2> QED BY <1>0, <2>1, <2>2, AdvancedFrames
  <1>17. ASSUME NEW i \in Instances, NextUpdate(i) PROVE FramesOK'
    <2>1. UNCHANGED result
      BY <1>17 DEF NextUpdate, Running, mongo
    <2>2. /\ OtherRooms(i) /\ SameWorld(rooms[i], rooms'[i]) /\ SameRun(rooms[i], rooms'[i])
          /\ FramesOf(rooms'[i]) \subseteq FramesOf(rooms[i])
      BY <1>17, NextUpdateRoom DEF NextUpdate, Running, FramesOf
    <2>3. OneRun(rooms'[i])
      BY <1>0, <2>2, KeptRun
    <2>4. InPlace(rooms'[i], result)
      <3>1. /\ rooms[i].at \in {"playing", "cancelling", "committing", "committed", "closing"}
            /\ rooms'[i].at = rooms[i].at
            /\ rooms'[i].released = rooms[i].released
        BY <1>17, NextUpdateRoom DEF NextUpdate, Running
      <3>2. InPlace(rooms[i], result)
        BY <1>0
      <3> QED BY <2>2, <3>1, <3>2 DEF InPlace, SameWorld, SameRun
    <2> QED BY <1>0, <2>1, <2>2, <2>3, <2>4, OneRoomFrames
  <1>18. ASSUME NEW i \in Instances, PublishUnsaved(i) PROVE FramesOK'
    <2>1. UNCHANGED result
      BY <1>18 DEF PublishUnsaved, Running, mongo
    <2>2. /\ OtherRooms(i) /\ SameWorld(rooms[i], rooms'[i]) /\ SameRun(rooms[i], rooms'[i])
          /\ FramesOf(rooms'[i]) \subseteq FramesOf(rooms[i])
      BY <1>18, DroppedRoom DEF PublishUnsaved, Running, FramesOf
    <2>3. OneRun(rooms'[i])
      BY <1>0, <2>2, KeptRun
    <2>4. InPlace(rooms'[i], result)
      <3>1. /\ rooms[i].at \in {"playing", "cancelling", "committing", "committed", "closing"}
            /\ rooms'[i].at = rooms[i].at
            /\ rooms'[i].released = rooms[i].released
        BY <1>18, DroppedRoom DEF PublishUnsaved, Running
      <3>2. InPlace(rooms[i], result)
        BY <1>0
      <3> QED BY <2>2, <3>1, <3>2 DEF InPlace, SameWorld, SameRun
    <2> QED BY <1>0, <2>1, <2>2, <2>3, <2>4, OneRoomFrames
  <1>19. ASSUME NEW i \in Instances, PublishSaved(i) PROVE FramesOK'
    <2>1. UNCHANGED result
      BY <1>19 DEF PublishSaved, Running, mongo
    <2>2. /\ OtherRooms(i) /\ SameWorld(rooms[i], rooms'[i]) /\ SameRun(rooms[i], rooms'[i])
          /\ FramesOf(rooms'[i]) \subseteq FramesOf(rooms[i])
      BY <1>19, PublishSavedRoom DEF PublishSaved, Running, FramesOf
    <2>3. OneRun(rooms'[i])
      BY <1>0, <2>2, KeptRun
    <2>4. InPlace(rooms'[i], result)
      <3>1. /\ rooms[i].at \in {"playing", "cancelling", "committing", "committed", "closing"}
            /\ rooms'[i].at = rooms[i].at
            /\ rooms'[i].released = rooms[i].released
        BY <1>19, PublishSavedRoom DEF PublishSaved, Running
      <3>2. InPlace(rooms[i], result)
        BY <1>0
      <3> QED BY <2>2, <3>1, <3>2 DEF InPlace, SameWorld, SameRun
    <2> QED BY <1>0, <2>1, <2>2, <2>3, <2>4, OneRoomFrames
  <1>20. ASSUME NEW i \in Instances, DropFrame(i) PROVE FramesOK'
    <2>1. UNCHANGED result
      BY <1>20 DEF DropFrame, Running, mongo
    <2>2. /\ OtherRooms(i) /\ SameWorld(rooms[i], rooms'[i]) /\ SameRun(rooms[i], rooms'[i])
          /\ FramesOf(rooms'[i]) \subseteq FramesOf(rooms[i])
      BY <1>20, DroppedRoom DEF DropFrame, Running, FramesOf
    <2>3. OneRun(rooms'[i])
      BY <1>0, <2>2, KeptRun
    <2>4. InPlace(rooms'[i], result)
      <3>1. /\ rooms[i].at \in {"playing", "cancelling", "committing", "committed", "closing"}
            /\ rooms'[i].at = rooms[i].at
            /\ rooms'[i].released = rooms[i].released
        BY <1>20, DroppedRoom DEF DropFrame, Running
      <3>2. InPlace(rooms[i], result)
        BY <1>0
      <3> QED BY <2>2, <3>1, <3>2 DEF InPlace, SameWorld, SameRun
    <2> QED BY <1>0, <2>1, <2>2, <2>3, <2>4, OneRoomFrames
  <1>21. ASSUME NEW i \in Instances, CancelRuntime(i) PROVE FramesOK'
    <2>1. UNCHANGED result /\ rooms[i].at = "cancelling"
      BY <1>21 DEF CancelRuntime, At, mongo
    <2>2. InPlace(rooms[i], result) /\ OneRun(rooms[i]) /\ rooms[i] \in Rooms
      BY <1>0, TypedRooms DEF FramesOK, TypedRoom
    <2>3. InPlace(rooms'[i], result')
      <3>1. /\ rooms'[i].at = "playing" /\ rooms'[i].released = rooms[i].released
            /\ SameWorld(rooms[i], rooms'[i])
        BY <1>21, CancelRuntimeRoom
      <3>2. rooms'[i].end = rooms[i].end \/ rooms'[i].end # None
        BY <1>21, CancelRuntimeRoom, NoneAssumption DEF SameRun
      <3> QED BY <2>1, <2>2, <3>1, <3>2 DEF InPlace, SameWorld
    <2>4. CASE SameRun(rooms[i], rooms'[i]) /\ rooms'[i].frame = rooms[i].frame
      <3>1. OneRun(rooms'[i])
        BY <1>21, <2>2, <2>4, CancelRuntimeRoom, SameFramesRun DEF SameFrames
      <3> QED BY <1>21, <1>0, <2>1, <2>3, <3>1, CancelRuntimeRoom, OneRoomFrames
    <2>5. CASE ~(SameRun(rooms[i], rooms'[i]) /\ rooms'[i].frame = rooms[i].frame)
      <3>1. /\ rooms[i].end = None /\ rooms'[i].sequence = rooms[i].sequence + 1
            /\ rooms'[i].frame = [sequence |-> rooms[i].sequence + 1, end |-> rooms'[i].end]
        BY <1>21, <2>5, CancelRuntimeRoom
      <3>2. rooms[i].physics
        BY <2>1, <2>2, <3>1 DEF InPlace
      <3>3. OneRun(rooms'[i])
        BY <1>21, <2>2, <3>1, <3>2, CancelRuntimeRoom, AdvancedRun
      <3> QED BY <1>21, <1>0, <2>1, <2>3, <3>3, CancelRuntimeRoom, OneRoomFrames
    <2> QED BY <2>4, <2>5
  <1>22. ASSUME NEW i \in Instances, ProtectFinal(i) PROVE FramesOK'
    <2>1. UNCHANGED result /\ rooms[i].at = "playing" /\ rooms[i].end # None
      BY <1>22 DEF ProtectFinal, At, mongo
    <2>2. InPlace(rooms[i], result) /\ OneRun(rooms[i]) /\ rooms[i] \in Rooms
      BY <1>0, TypedRooms DEF FramesOK, TypedRoom
    <2>3. InPlace(rooms'[i], result')
      BY <1>22, <2>1, <2>2, ProtectFinalRoom DEF InPlace, SameRun
    <2>4. CASE rooms'[i].saved = rooms[i].saved
      <3>1. OneRun(rooms'[i])
        BY <1>22, <2>2, <2>4, ProtectFinalRoom, SameFramesRun DEF SameFrames
      <3> QED BY <1>22, <1>0, <2>1, <2>3, <3>1, ProtectFinalRoom, OneRoomFrames
    <2>5. CASE rooms[i].physics /\ rooms'[i].saved = CurrentFrame(i)
      <3>1. /\ FramesOf(rooms'[i]) \subseteq FramesOf(rooms[i]) \cup {CurrentFrame(i)}
            /\ rooms'[i].sequence = rooms[i].sequence /\ rooms'[i].end = rooms[i].end
            /\ rooms'[i].physics /\ SameRun(rooms[i], rooms'[i])
        BY <1>22, <2>5, ProtectFinalRoom DEF FramesOf, SameRun, SameWorld
      <3>2. OneRun(rooms'[i])
        BY <2>2, <3>1, FrameTypes, StoredRun DEF CurrentFrame
      <3> QED BY <1>22, <1>0, <2>1, <2>3, <3>2, ProtectFinalRoom, OneRoomFrames
    <2> QED BY <1>22, <2>4, <2>5, ProtectFinalRoom
  <1>23. ASSUME NEW i \in Instances, Commit(i) PROVE FramesOK'
    <2>1. /\ rooms' = [rooms EXCEPT ![i].at = "committed"] /\ rooms[i].at = "committing"
          /\ result # None => result' = result
          /\ result' = rooms[i].end
      BY <1>23 DEF Commit, GoTo, At, MayComplete, Completed, mongo
    <2>2. InPlace(rooms[i], result) /\ OneRun(rooms[i])
      BY <1>0 DEF FramesOK
    <2>3. /\ OtherRooms(i) /\ SameWorld(rooms[i], rooms'[i]) /\ SameRun(rooms[i], rooms'[i])
          /\ SameFrames(rooms[i], rooms'[i]) /\ rooms'[i].at = "committed"
          /\ rooms'[i].released = rooms[i].released
      BY <2>1, PlaceRoom, PositionNames
    <2>4. OneRun(rooms'[i])
      BY <2>2, <2>3, SameFramesRun
    <2>5. InPlace(rooms'[i], result')
      BY <2>1, <2>2, <2>3 DEF InPlace, SameRun
    <2> QED BY <1>0, <2>1, <2>3, <2>4, <2>5, OneRoomFrames
  <1>24. ASSUME NEW i \in Instances, CommitFails(i) PROVE FramesOK'
    BY <1>24, <1>0, ResetFrames DEF CommitFails, Close, mongo
  <1>25. ASSUME NEW i \in Instances, ReleaseCheckpoint(i) PROVE FramesOK'
    <2>1. UNCHANGED result
      BY <1>25 DEF ReleaseCheckpoint, At, mongo
    <2>2. /\ OtherRooms(i) /\ SameWorld(rooms[i], rooms'[i]) /\ SameRun(rooms[i], rooms'[i])
          /\ SameFrames(rooms[i], rooms'[i])
      BY <1>25, ReleaseRoom DEF ReleaseCheckpoint, At
    <2>3. OneRun(rooms'[i])
      BY <1>0, <2>2, SameFramesRun
    <2>4. InPlace(rooms'[i], result)
      <3>1. /\ rooms[i].at = "committed" /\ rooms'[i].at = "closing"
            /\ rooms'[i].released = TRUE
        BY <1>25, ReleaseRoom DEF ReleaseCheckpoint, At
      <3>2. InPlace(rooms[i], result)
        BY <1>0
      <3> QED BY <2>2, <3>1, <3>2 DEF InPlace, SameWorld, SameRun, SameFrames, FramesOf
    <2> QED BY <1>0, <2>1, <2>2, <2>3, <2>4, OneRoomFrames
  <1>26. ASSUME NEW i \in Instances, Leave(i) PROVE FramesOK'
    BY <1>26, <1>0, ResetFrames DEF Leave, Close, mongo
  <1>27. ASSUME NEW i \in Instances, LoseRoom(i) PROVE FramesOK'
    BY <1>27, <1>0, ResetFrames DEF LoseRoom, mongo
  <1>28. ASSUME NEW i \in Instances, Crash(i) PROVE FramesOK'
    BY <1>28, <1>0, ResetFrames DEF Crash, mongo
  <1>29. ASSUME NEW i \in Instances, CommitUnanswered(i) PROVE FramesOK'
    <2>1. /\ rooms' = [rooms EXCEPT ![i].at = "playing"] /\ rooms[i].at = "committing"
          /\ result # None => result' = result
          /\ result' = rooms[i].end
      BY <1>29 DEF CommitUnanswered, GoTo, At, MayComplete, Completed, mongo
    <2>2. InPlace(rooms[i], result) /\ OneRun(rooms[i])
      BY <1>0 DEF FramesOK
    <2>3. /\ OtherRooms(i) /\ SameWorld(rooms[i], rooms'[i]) /\ SameRun(rooms[i], rooms'[i])
          /\ SameFrames(rooms[i], rooms'[i]) /\ rooms'[i].at = "playing"
          /\ rooms'[i].released = rooms[i].released
      BY <2>1, PlaceRoom, PositionNames
    <2>4. OneRun(rooms'[i])
      BY <2>2, <2>3, SameFramesRun
    <2>5. InPlace(rooms'[i], result')
      BY <2>1, <2>2, <2>3 DEF InPlace, SameRun
    <2> QED BY <1>0, <2>1, <2>3, <2>4, <2>5, OneRoomFrames
  <1>30. ASSUME NEW i \in Instances, NEW c \in Cancels, SaveTrigger(i, c) PROVE FramesOK'
    <2>1. UNCHANGED result
      BY <1>30 DEF SaveTrigger, At, mongo
    <2>2. /\ OtherRooms(i) /\ SameWorld(rooms[i], rooms'[i]) /\ SameRun(rooms[i], rooms'[i])
          /\ SameFrames(rooms[i], rooms'[i])
      BY <1>30, SaveTriggerRoom DEF SaveTrigger, At
    <2>3. OneRun(rooms'[i])
      BY <1>0, <2>2, SameFramesRun
    <2>4. InPlace(rooms'[i], result)
      <3>1. /\ rooms[i].at = "playing" /\ rooms'[i].at = "cancelling"
            /\ rooms'[i].released = rooms[i].released
        BY <1>30, SaveTriggerRoom DEF SaveTrigger, At
      <3>2. InPlace(rooms[i], result)
        BY <1>0
      <3> QED BY <2>2, <3>1, <3>2 DEF InPlace, SameWorld, SameRun, SameFrames, FramesOf
    <2> QED BY <1>0, <2>1, <2>2, <2>3, <2>4, OneRoomFrames
  <1>31. ASSUME NEW i \in Instances, NEW c \in Cancels, HoldCancel(i, c) PROVE FramesOK'
    <2>1. UNCHANGED result
      BY <1>31 DEF HoldCancel, mongo
    <2>2. /\ OtherRooms(i) /\ SameWorld(rooms[i], rooms'[i]) /\ SameRun(rooms[i], rooms'[i])
          /\ SameFrames(rooms[i], rooms'[i])
      BY <1>31, HoldCancelRoom DEF HoldCancel
    <2>3. OneRun(rooms'[i])
      BY <1>0, <2>2, SameFramesRun
    <2>4. InPlace(rooms'[i], result)
      <3>1. /\ rooms[i].at \in {"playing", "committing"} /\ rooms'[i].at = rooms[i].at
            /\ rooms'[i].released = rooms[i].released
        BY <1>31, HoldCancelRoom DEF HoldCancel
      <3>2. InPlace(rooms[i], result)
        BY <1>0
      <3> QED BY <2>2, <3>1, <3>2 DEF InPlace, SameWorld, SameRun, SameFrames, FramesOf
    <2> QED BY <1>0, <2>1, <2>2, <2>3, <2>4, OneRoomFrames
  <1>32. ASSUME Lapse PROVE FramesOK'
    BY <1>32 DEF Lapse, FramesOK, mongo
  <1>33. ASSUME Expire PROVE FramesOK'
    BY <1>33 DEF Expire, FramesOK, mongo
  <1>34. ASSUME LoseCheckpoint PROVE FramesOK'
    BY <1>34 DEF LoseCheckpoint, FramesOK, mongo
  <1>35. ASSUME UNCHANGED vars PROVE FramesOK'
    BY <1>35 DEF vars, FramesOK, mongo
  <1> QED
    BY <1>1, <1>2, <1>3, <1>4, <1>5, <1>6, <1>7, <1>8, <1>9, <1>10, <1>11, <1>12,
       <1>13, <1>14, <1>15, <1>16, <1>17, <1>18, <1>19, <1>20, <1>21, <1>22, <1>23,
       <1>24, <1>25, <1>26, <1>27, <1>28, <1>29, <1>30, <1>31, <1>32, <1>33, <1>34,
       <1>35
    DEF Next, Step, Activate, Start, Play, Complete

-----------------------------------------------------------------------------
(* Generations                                                             *)

\* Neither nil nor the lease of another room is the lease of this one.
LEMMA LeaseIsOwn ==
  ASSUME NEW i \in Instances, NEW r, r.lease \in LeaseIds
  PROVE  /\ [holder |-> i, id |-> r.lease] # None
         /\ \A j \in Instances : \A l :
              [holder |-> j, id |-> l] = [holder |-> i, id |-> r.lease] => j = i
  <1>1. [holder |-> i, id |-> r.lease] \in Leases
    BY DEF Leases
  <1>2. ASSUME NEW j \in Instances, NEW l, [holder |-> j, id |-> l] = [holder |-> i, id |-> r.lease]
        PROVE  j = i
    <2>1. [holder |-> j, id |-> l].holder = [holder |-> i, id |-> r.lease].holder
      BY <1>2
    <2> QED BY <2>1
  <1> QED BY <1>1, <1>2, NoneAssumption

\* The owner whose lease it is runs the current generation.
LEMMA HolderIsCurrent ==
  ASSUME GenerationsOK, NEW i \in Instances, Claimed(i), HoldsLease(i)
  PROVE  Current(i)
  BY DEF GenerationsOK, Current

\* One room at most is that of the last owner.
LEMMA OneCurrent ==
  ASSUME GenerationsOK, NEW i \in Instances, NEW j \in Instances, Current(i), Current(j)
  PROVE  i = j
  BY DEF GenerationsOK, Current

\* No room claims, and a lease is lost at most.
LEMMA FewerGenerations ==
  ASSUME TypeOK, GenerationsOK, owner'.generation = owner.generation, lease' \in {lease, None},
         \A j \in Instances :
           rooms'[j].at # "idle" =>
             /\ rooms'[j].expected = rooms[j].expected /\ rooms'[j].lease = rooms[j].lease
             /\ rooms'[j].generation = rooms[j].generation
             /\ rooms'[j].at \in {"read", "leased"} => rooms'[j].at = rooms[j].at
             /\ rooms'[j].at \notin {"read", "leased"} => Claimed(j)
  PROVE  GenerationsOK'
  <1> SUFFICES ASSUME NEW i \in Instances
               PROVE  /\ rooms'[i].at \in {"read", "leased"} => rooms'[i].expected <= owner'.generation
                      /\ At(i, "leased")' \/ Claimed(i)' => rooms'[i].lease \in LeaseIds
                      /\ Claimed(i)' =>
                           /\ 1 <= rooms'[i].generation /\ rooms'[i].generation <= owner'.generation
                           /\ HoldsLease(i)' => rooms'[i].generation = owner'.generation
                           /\ \A j \in Instances :
                                /\ Claimed(j)' /\ rooms'[j].generation = rooms'[i].generation => j = i
                                /\ At(j, "leased")' /\ rooms'[j].expected = owner'.generation
                                     => ~HoldsLease(i)'
    BY DEF GenerationsOK
  <1>1. \A j \in Instances : Claimed(j)' => Claimed(j) /\ rooms'[j].generation = rooms[j].generation
                                            /\ rooms'[j].lease = rooms[j].lease
    BY DEF Claimed
  <1>2. \A j \in Instances : At(j, "leased")' =>
                               /\ At(j, "leased") /\ rooms'[j].expected = rooms[j].expected
                               /\ rooms'[j].lease = rooms[j].lease
    BY DEF At
  <1>3. At(i, "leased")' \/ Claimed(i)' => rooms'[i].lease \in LeaseIds
    BY <1>1, <1>2 DEF GenerationsOK
  <1>4. rooms'[i].at \in {"read", "leased"} => rooms'[i].expected <= owner'.generation
    BY DEF GenerationsOK
  <1>5. Claimed(i)' /\ HoldsLease(i)' => HoldsLease(i)
    BY <1>1, <1>3, LeaseIsOwn DEF HoldsLease
  <1> QED BY <1>1, <1>2, <1>3, <1>4, <1>5 DEF GenerationsOK

\* A room that keeps its claim, ...
LEMMA KeptGenerations ==
  ASSUME TypeOK, GenerationsOK, NEW i \in Instances, OtherRooms(i), SameClaim(rooms[i],
         rooms'[i]),
         Claimed(i), rooms'[i].at \notin {"idle", "read", "leased"},
         owner'.generation = owner.generation, lease' \in {lease, None}
  PROVE  GenerationsOK'
  BY FewerGenerations DEF OtherRooms, SameClaim, Claimed

\* ... a room that is gone, ...
LEMMA ResetGenerations ==
  ASSUME TypeOK, GenerationsOK, NEW i \in Instances, rooms' = [rooms EXCEPT ![i] = Idle],
         owner'.generation = owner.generation, lease' \in {lease, None}
  PROVE  GenerationsOK'
  <1>1. OtherRooms(i) /\ rooms'[i] = Idle
    BY ClosedRoom
  <1>2. rooms'[i].at = "idle"
    BY <1>1 DEF Idle
  <1> QED BY <1>1, <1>2, FewerGenerations DEF OtherRooms, Claimed

\* ... and a step that concerns no room.
LEMMA StillGenerations ==
  ASSUME TypeOK, GenerationsOK, UNCHANGED rooms, owner'.generation = owner.generation,
         lease' \in {lease, None}
  PROVE  GenerationsOK'
  BY FewerGenerations DEF Claimed

\* A generation that is read is not ahead of the owner's.
LEMMA ReadGenerations ==
  ASSUME TypeOK, GenerationsOK, NEW i \in Instances, Read(i)
  PROVE  GenerationsOK'
  <1>1. /\ OtherRooms(i) /\ rooms'[i].at = "read" /\ rooms'[i].expected = owner.generation
        /\ owner' = owner /\ lease' = lease /\ owner.generation \in Nat
    BY ReadRoom, TypedRooms DEF Read, mongo, redis, TypedRoom
  <1>2. \A j \in Instances : Claimed(j)' => j # i /\ Claimed(j) /\ rooms'[j] = rooms[j]
    BY <1>1 DEF Claimed, OtherRooms
  <1>3. \A j \in Instances : At(j, "leased")' => j # i /\ At(j, "leased") /\ rooms'[j] = rooms[j]
    BY <1>1 DEF At, OtherRooms
  <1>4. \A j \in Instances : HoldsLease(j)' /\ rooms'[j] = rooms[j] => HoldsLease(j)
    BY <1>1 DEF HoldsLease
  <1>5. \A j \in Instances :
          rooms'[j].at \in {"read", "leased"} => rooms'[j].expected <= owner'.generation
    BY <1>1 DEF OtherRooms, GenerationsOK
  <1> QED BY <1>1, <1>2, <1>3, <1>4, <1>5 DEF GenerationsOK

\* The lease is taken from nobody who plays.
LEMMA AcquireGenerations ==
  ASSUME TypeOK, GenerationsOK, NEW i \in Instances, Acquire(i)
  PROVE  GenerationsOK'
  <1>1. /\ OtherRooms(i) /\ rooms'[i].at = "leased" /\ rooms'[i].expected = rooms[i].expected
        /\ rooms[i].at = "read" /\ rooms'[i].lease = NewLease /\ NewLease \in LeaseIds
        /\ owner' = owner /\ lease' = [holder |-> i, id |-> NewLease]
    BY AcquireRoom, NewLeaseId DEF Acquire, At, mongo
  <1>2. \A j \in Instances : Claimed(j)' => j # i /\ Claimed(j) /\ rooms'[j] = rooms[j]
    BY <1>1 DEF Claimed, OtherRooms
  <1>3. \A j \in Instances : j # i => ~HoldsLease(j)'
    <2> SUFFICES ASSUME NEW j \in Instances, j # i, HoldsLease(j)' PROVE FALSE
      OBVIOUS
    <2>1. [holder |-> i, id |-> NewLease].holder = [holder |-> j, id |-> rooms'[j].lease].holder
      BY <1>1 DEF HoldsLease
    <2> QED BY <2>1
  <1>4. \A j \in Instances :
          /\ rooms'[j].at \in {"read", "leased"} => rooms'[j].expected <= owner'.generation
          /\ At(j, "leased")' => rooms'[j].lease \in LeaseIds
    BY <1>1 DEF OtherRooms, GenerationsOK, At
  <1> QED BY <1>1, <1>2, <1>3, <1>4 DEF GenerationsOK

\* The compare and set: nobody else may have claimed since the claimant read.
LEMMA ClaimGenerations ==
  ASSUME TypeOK, GenerationsOK, NEW i \in Instances, Claim(i)
  PROVE  GenerationsOK'
  <1>1. /\ OtherRooms(i) /\ rooms'[i].at = "claimed" /\ rooms[i].at = "leased"
        /\ rooms'[i].generation = owner.generation + 1 /\ rooms'[i].lease = rooms[i].lease
        /\ owner'.generation = owner.generation + 1 /\ lease' = lease
        /\ rooms[i].expected = owner.generation /\ owner.generation \in Nat
    BY ClaimRoom, TypedRooms DEF Claim, Claimable, At, redis, TypedRoom, TypeOK, Owners
  <1>2. \A j \in Instances : Claimed(j)' /\ j # i => Claimed(j) /\ rooms'[j] = rooms[j]
    BY <1>1 DEF Claimed, OtherRooms
  <1>3. \A j \in Instances : At(j, "leased")' => j # i /\ At(j, "leased") /\ rooms'[j] = rooms[j]
    BY <1>1 DEF At, OtherRooms
  <1>4. \A j \in Instances : Claimed(j)' /\ j # i => ~HoldsLease(j)'
    BY <1>1, <1>2 DEF HoldsLease, GenerationsOK, At
  <1>5. \A j \in Instances : rooms[j].generation \in Nat /\ rooms[j].expected \in Nat
    BY TypedRooms DEF TypedRoom, Rooms
  <1>6. \A j \in Instances :
          /\ rooms'[j].at \in {"read", "leased"} =>
               rooms'[j].expected <= owner.generation /\ rooms'[j].expected \in Nat
          /\ At(j, "leased")' \/ Claimed(j)' => rooms'[j].lease \in LeaseIds
    BY <1>1, <1>2, <1>3, <1>5 DEF OtherRooms, GenerationsOK, At
  <1>7. \A j \in Instances :
          Claimed(j)' => /\ 1 <= rooms'[j].generation /\ rooms'[j].generation <= owner'.generation
                         /\ HoldsLease(j)' => rooms'[j].generation = owner'.generation
    BY <1>1, <1>2, <1>4, <1>5 DEF GenerationsOK
  <1>8. ASSUME NEW j \in Instances, NEW k \in Instances, Claimed(j)', Claimed(k)',
               rooms'[k].generation = rooms'[j].generation
        PROVE  k = j
    BY <1>1, <1>2, <1>5, <1>8 DEF GenerationsOK
  <1>9. \A k \in Instances : At(k, "leased")' => rooms'[k].expected # owner'.generation
    BY <1>1, <1>6 DEF At
  <1> QED
    <2>1. \A j \in Instances :
            rooms'[j].at \in {"read", "leased"} => rooms'[j].expected <= owner'.generation
      BY <1>1, <1>6
    <2> QED BY <1>6, <1>7, <1>8, <1>9, <2>1 DEF GenerationsOK

-----------------------------------------------------------------------------
(* One start, one world                                                    *)

\* No room claims or records the start.
LEMMA FewerStarts ==
  ASSUME StartsOK, owner'.generation = owner.generation, owner'.started = owner.started,
         \A j \in Instances :
           /\ Claimed(j)' =>
                /\ Claimed(j) /\ rooms'[j].generation = rooms[j].generation
                /\ rooms'[j].started = rooms[j].started
           /\ rooms'[j].at \in {"claimed", "open", "spawned"} =>
                rooms[j].at \in {"claimed", "open", "spawned"}
           /\ At(j, "spawned")' => At(j, "spawned") \/ ~rooms[j].started
           /\ At(j, "restored")' \/ Running(j)' =>
                At(j, "restored") \/ Running(j) \/ (Claimed(j) /\ rooms[j].started)
  PROVE  StartsOK'
  <1> SUFFICES ASSUME NEW i \in Instances
               PROVE  /\ Claimed(i)' /\ rooms'[i].started => owner'.started
                      /\ Current(i)' /\ rooms'[i].at \in {"claimed", "open", "spawned"} =>
                           rooms'[i].started = owner'.started
                      /\ At(i, "spawned")' => ~rooms'[i].started
                      /\ At(i, "restored")' \/ Running(i)' => owner'.started
    BY DEF StartsOK
  <1>1. Current(i)' => Current(i)
    BY DEF Current
  <1>2. At(i, "spawned")' => Claimed(i)'
    BY DEF At, Claimed
  <1>3. Claimed(i)' /\ rooms'[i].started => owner'.started
    BY DEF StartsOK
  <1>4. At(i, "restored") \/ Running(i) => owner.started
    BY DEF StartsOK
  <1>5. At(i, "restored")' \/ Running(i)' => owner'.started
    BY <1>4 DEF StartsOK
  <1>6. At(i, "spawned")' => ~rooms'[i].started
    BY <1>2 DEF StartsOK
  <1>7. ASSUME Current(i)', rooms'[i].at \in {"claimed", "open", "spawned"}
        PROVE  rooms'[i].started = owner'.started
    BY <1>1, <1>7 DEF StartsOK, Current
  <1> QED BY <1>3, <1>5, <1>6, <1>7

\* Nothing new is shown or stored, and no room starts the match.
LEMMA FewerWorlds ==
  ASSUME WorldsOK, owner'.started = owner.started,
         worlds' \subseteq Worlds, ~owner.started => worlds' = worlds,
         checkpoint' # None => checkpoint'.world \in Worlds,
         \A j \in Instances :
           /\ Live(j)' => rooms'[j].world \in Worlds
           /\ At(j, "spawned")' =>
                /\ At(j, "spawned") /\ rooms'[j] = rooms[j]
                /\ Current(j)' => Current(j) /\ checkpoint' \in {checkpoint, None}
  PROVE  WorldsOK'
  <1>1. Worlds' \subseteq Worlds
    BY DEF Worlds
  <1> QED BY <1>1 DEF WorldsOK

\* The parts of the worlds that may be seen.
LEMMA WorldsAre ==
  /\ worlds \subseteq Worlds
  /\ checkpoint # None => checkpoint.world \in Worlds
  /\ \A i \in Instances : Live(i) => rooms[i].world \in Worlds
  BY DEF Worlds

\* What the room of a match does in its place.
Stays(i) ==
  \/ Running(i)' /\ (Running(i) \/ At(i, "restored"))
  \/ At(i, "claimed") /\ At(i, "open")'

\* The room of a match shows or stores its own world, ...
LEMMA KeptOwner ==
  ASSUME OwnerInv, NEW i \in Instances, OtherRooms(i), SameClaim(rooms[i], rooms'[i]),
         SameWorld(rooms[i], rooms'[i]), Stays(i),
         owner'.generation = owner.generation, owner'.started = owner.started, lease' = lease,
         \/ checkpoint' \in {checkpoint, None}
         \/ HoldsLease(i) /\ Live(i) /\ checkpoint'.world = rooms[i].world,
         worlds' = worlds \/ (Live(i) /\ worlds' = worlds \cup {rooms[i].world})
  PROVE  (GenerationsOK /\ StartsOK /\ WorldsOK)'
  <1>1. /\ TypeOK /\ GenerationsOK /\ StartsOK /\ WorldsOK
        /\ \A j \in Instances : j # i => rooms'[j] = rooms[j]
        /\ rooms'[i].generation = rooms[i].generation /\ rooms'[i].started = rooms[i].started
        /\ rooms'[i].world = rooms[i].world /\ rooms'[i].physics = rooms[i].physics
    BY DEF OwnerInv, OtherRooms, SameClaim, SameWorld
  <1>2. Claimed(i) /\ Claimed(i)' /\ ~At(i, "spawned") /\ ~At(i, "spawned")' /\ ~At(i, "restored")'
    BY DEF Stays, Claimed, At, Running
  <1>3. /\ rooms'[i].at \in {"claimed", "open", "spawned"} => rooms[i].at = "claimed"
        /\ Running(i)' => Running(i) \/ At(i, "restored")
    BY DEF Stays, At, Running
  <1>4. GenerationsOK'
    BY <1>1, <1>2, KeptGenerations DEF Claimed
  <1>5. \A j \in Instances : j # i => /\ (Claimed(j)' <=> Claimed(j))
                                      /\ (Running(j)' <=> Running(j))
                                      /\ \A p : At(j, p)' <=> At(j, p)
                                      /\ (Live(j)' <=> Live(j)) /\ (Current(j)' <=> Current(j))
    BY <1>1 DEF Claimed, Running, At, Live, Current
  <1>6. StartsOK'
    BY <1>1, <1>2, <1>3, <1>5, FewerStarts
  <1>7. Live(i)' => Live(i)
    BY <1>1, <1>2, <1>3 DEF Live
  <1>8. Live(i) => owner.started
    BY <1>1 DEF Live, StartsOK
  <1>9. \A j \in Instances : At(j, "spawned")' /\ Current(j)' => checkpoint' \in {checkpoint, None}
    BY <1>1, <1>2, <1>5, HolderIsCurrent, OneCurrent
  <1>10. WorldsOK'
    BY <1>1, <1>2, <1>5, <1>7, <1>8, <1>9, WorldsAre, FewerWorlds
  <1> QED BY <1>4, <1>6, <1>10

\* ... a room that is gone shows nothing, ...
LEMMA ResetOwner ==
  ASSUME OwnerInv, NEW i \in Instances, rooms' = [rooms EXCEPT ![i] = Idle],
         UNCHANGED <<owner, checkpoint, worlds>>, lease' \in {lease, None}
  PROVE  (GenerationsOK /\ StartsOK /\ WorldsOK)'
  <1>1. /\ TypeOK /\ GenerationsOK /\ StartsOK /\ WorldsOK
        /\ OtherRooms(i) /\ rooms'[i] = Idle
    BY ClosedRoom DEF OwnerInv
  <1>2. rooms'[i].at = "idle"
    BY <1>1 DEF Idle
  <1>3. ~Claimed(i)' /\ ~Running(i)' /\ ~Live(i)' /\ ~At(i, "spawned")' /\ ~At(i, "restored")'
    BY <1>2 DEF Claimed, Running, Live, At
  <1>4. \A j \in Instances : j # i => /\ rooms'[j] = rooms[j]
                                      /\ (Claimed(j)' <=> Claimed(j))
                                      /\ (Running(j)' <=> Running(j))
                                      /\ \A p : At(j, p)' <=> At(j, p)
                                      /\ (Live(j)' <=> Live(j)) /\ (Current(j)' <=> Current(j))
    BY <1>1 DEF OtherRooms, Claimed, Running, At, Live, Current
  <1>5. GenerationsOK'
    BY <1>1, ResetGenerations
  <1>6. StartsOK'
    BY <1>1, <1>2, <1>3, <1>4, FewerStarts
  <1>7. WorldsOK'
    BY <1>1, <1>3, <1>4, WorldsAre, FewerWorlds
  <1> QED BY <1>5, <1>6, <1>7

\* ... and a loss in Redis shows nothing either.
LEMMA StillOwner ==
  ASSUME OwnerInv, UNCHANGED <<rooms, owner, worlds>>, lease' \in {lease, None},
         checkpoint' \in {checkpoint, None}
  PROVE  (GenerationsOK /\ StartsOK /\ WorldsOK)'
  <1>1. GenerationsOK'
    BY StillGenerations DEF OwnerInv
  <1>2. StartsOK'
    BY DEF OwnerInv, StartsOK, Claimed, Current, At, Running
  <1>3. Worlds' \subseteq Worlds
    BY DEF Worlds, Live, At, Running
  <1>4. WorldsOK'
    BY <1>3 DEF OwnerInv, WorldsOK, Claimed, Current, At
  <1> QED BY <1>1, <1>2, <1>4

\* The owner's document.
LEMMA TypedOwner == TypeOK => owner \in Owners
  BY DEF TypeOK

\* The end a simulation moves on with.
LEMMA AdvancingTyped ==
  ASSUME TypeOK, NEW i \in Instances
  PROVE  /\ rooms[i].end \in Results \cup {None}
         /\ \A kind \in Outcomes : [kind |-> kind, by |-> rooms[i].generation] \in Results
  BY TypedRooms DEF TypedRoom, Rooms, Results

\* A room on its way to the claim has neither physics nor a place in the match.
LEMMA EarlyOwner ==
  ASSUME OwnerInv, NEW i \in Instances, OtherRooms(i), ~Claimed(i), ~Claimed(i)',
         UNCHANGED <<owner, checkpoint, worlds>>
  PROVE  (StartsOK /\ WorldsOK)'
  <1>1. StartsOK /\ WorldsOK
    BY DEF OwnerInv
  <1>2. ~Running(i)' /\ ~Live(i)' /\ ~At(i, "spawned")' /\ ~At(i, "restored")'
        /\ rooms'[i].at \notin {"claimed", "open", "spawned"}
    BY DEF Claimed, Running, Live, At
  <1>3. \A j \in Instances : j # i => /\ rooms'[j] = rooms[j]
                                      /\ (Claimed(j)' <=> Claimed(j))
                                      /\ (Running(j)' <=> Running(j))
                                      /\ \A p : At(j, p)' <=> At(j, p)
                                      /\ (Live(j)' <=> Live(j)) /\ (Current(j)' <=> Current(j))
    BY DEF OtherRooms, Claimed, Running, At, Live, Current
  <1>4. StartsOK'
    BY <1>1, <1>2, <1>3, FewerStarts
  <1>5. WorldsOK'
    BY <1>1, <1>2, <1>3, WorldsAre, FewerWorlds
  <1> QED BY <1>4, <1>5

\* Reading the generation changes nothing for anybody.
LEMMA ReadOwner ==
  ASSUME OwnerInv, NEW i \in Instances, Read(i)
  PROVE  (GenerationsOK /\ StartsOK /\ WorldsOK)'
  <1>1. OtherRooms(i) /\ ~Claimed(i) /\ ~Claimed(i)'
    BY ReadRoom DEF OwnerInv, Read, At, Claimed
  <1>2. UNCHANGED <<owner, checkpoint, worlds>>
    BY DEF Read, mongo, redis, history
  <1> QED BY <1>1, <1>2, ReadGenerations, EarlyOwner DEF OwnerInv

\* Nor does taking the lease.
LEMMA AcquireOwner ==
  ASSUME OwnerInv, NEW i \in Instances, Acquire(i)
  PROVE  (GenerationsOK /\ StartsOK /\ WorldsOK)'
  <1>1. OtherRooms(i) /\ ~Claimed(i) /\ ~Claimed(i)'
    BY AcquireRoom DEF OwnerInv, Acquire, At, Claimed
  <1>2. UNCHANGED <<owner, checkpoint, worlds>>
    BY DEF Acquire, mongo, history
  <1> QED BY <1>1, <1>2, AcquireGenerations, EarlyOwner DEF OwnerInv

\* Whoever ran the match is no longer the last owner; the new one knows whether the
\* match was started.
LEMMA ClaimOwner ==
  ASSUME OwnerInv, NEW i \in Instances, Claim(i)
  PROVE  (GenerationsOK /\ StartsOK /\ WorldsOK)'
  <1>1. /\ TypeOK /\ GenerationsOK /\ StartsOK /\ WorldsOK
        /\ OtherRooms(i) /\ rooms'[i].at = "claimed" /\ rooms'[i].started = owner.started
        /\ rooms'[i].generation = owner.generation + 1
        /\ owner'.generation = owner.generation + 1 /\ owner'.started = owner.started
        /\ owner.generation \in Nat /\ UNCHANGED <<checkpoint, worlds>>
    BY ClaimRoom, TypedRooms, TypedOwner
    DEF OwnerInv, Claim, redis, history, TypedRoom, Owners
  <1>2. ~Running(i)' /\ ~Live(i)' /\ ~At(i, "spawned")' /\ ~At(i, "restored")'
    BY <1>1 DEF Running, Live, At
  <1>3. \A j \in Instances : j # i => /\ rooms'[j] = rooms[j]
                                      /\ (Claimed(j)' <=> Claimed(j))
                                      /\ (Running(j)' <=> Running(j))
                                      /\ \A p : At(j, p)' <=> At(j, p)
                                      /\ (Live(j)' <=> Live(j))
    BY <1>1 DEF OtherRooms, Claimed, Running, At, Live
  <1>4. \A j \in Instances : j # i => ~Current(j)'
    BY <1>1, <1>3 DEF Current, GenerationsOK
  <1>5. StartsOK'
    <2> SUFFICES ASSUME NEW j \in Instances
                 PROVE  /\ Claimed(j)' /\ rooms'[j].started => owner'.started
                        /\ Current(j)' /\ rooms'[j].at \in {"claimed", "open", "spawned"} =>
                             rooms'[j].started = owner'.started
                        /\ At(j, "spawned")' => ~rooms'[j].started
                        /\ At(j, "restored")' \/ Running(j)' => owner'.started
      BY DEF StartsOK
    <2>1. CASE j = i
      BY <2>1, <1>1, <1>2
    <2>2. CASE j # i
      BY <2>2, <1>1, <1>3, <1>4 DEF StartsOK
    <2> QED BY <2>1, <2>2
  <1>6. WorldsOK'
    BY <1>1, <1>2, <1>3, <1>4, WorldsAre, FewerWorlds
  <1> QED BY <1>1, <1>5, <1>6, ClaimGenerations

\* The match has not been started: nobody plays it and nobody has seen it.
LEMMA SpawnOwner ==
  ASSUME OwnerInv, NEW i \in Instances, Spawn(i)
  PROVE  (GenerationsOK /\ StartsOK /\ WorldsOK)'
  <1>1. /\ TypeOK /\ GenerationsOK /\ StartsOK /\ WorldsOK
        /\ OtherRooms(i) /\ SameClaim(rooms[i], rooms'[i]) /\ rooms'[i].at = "spawned"
        /\ rooms'[i].world = rooms[i].generation
        /\ rooms[i].at = "open" /\ ~rooms[i].started /\ HoldsLease(i)
        /\ UNCHANGED <<owner, lease, worlds>>
        /\ checkpoint'.world = rooms[i].generation
    BY SpawnRoom DEF OwnerInv, Spawn, At, mongo, history
  <1>2. Claimed(i) /\ Claimed(i)' /\ ~Running(i)' /\ ~Live(i)' /\ ~At(i, "restored")'
    BY <1>1 DEF Claimed, Running, Live, At
  <1>3. \A j \in Instances : j # i => /\ rooms'[j] = rooms[j]
                                      /\ (Claimed(j)' <=> Claimed(j))
                                      /\ (Running(j)' <=> Running(j))
                                      /\ \A p : At(j, p)' <=> At(j, p)
                                      /\ (Live(j)' <=> Live(j)) /\ (Current(j)' <=> Current(j))
    BY <1>1 DEF OtherRooms, Claimed, Running, At, Live, Current
  <1>4. Current(i) /\ ~owner.started
    BY <1>1, <1>2, HolderIsCurrent DEF StartsOK
  <1>5. GenerationsOK'
    BY <1>1, <1>2, KeptGenerations DEF Claimed
  <1>6. StartsOK'
    BY <1>1, <1>2, <1>3, FewerStarts DEF SameClaim
  <1>7. WorldsOK'
    <2>1. ~owner'.started /\ worlds' = {}
      BY <1>1, <1>4 DEF WorldsOK
    <2>2. ASSUME NEW j \in Instances, At(j, "spawned")'
          PROVE  /\ rooms'[j].world = rooms'[j].generation
                 /\ Current(j)' /\ checkpoint' # None => checkpoint'.world = rooms'[j].generation
      <3>1. CASE j = i
        BY <3>1, <1>1 DEF SameClaim
      <3>2. CASE j # i
        BY <3>2, <2>2, <1>1, <1>3, <1>4, OneCurrent DEF WorldsOK
      <3> QED BY <3>1, <3>2
    <2> QED BY <2>1, <2>2 DEF WorldsOK
  <1> QED BY <1>5, <1>6, <1>7

\* Until a room records the start, no other has physics to show.
LEMMA FirstStart ==
  ASSUME TypeOK, GenerationsOK, StartsOK, WorldsOK, NEW i \in Instances, OtherRooms(i),
         SameClaim(rooms[i], rooms'[i]), MayMarkStarted(i), Claimed(i), rooms'[i].at = "playing",
         owner' = [owner EXCEPT !.started = TRUE], UNCHANGED <<lease, checkpoint, worlds>>,
         rooms'[i].physics /\ checkpoint # None => rooms'[i].world = checkpoint.world
  PROVE  (GenerationsOK /\ StartsOK /\ WorldsOK)'
  <1>1. /\ owner'.generation = owner.generation /\ owner'.started = TRUE
        /\ Current(i) /\ ~owner.started
    BY TypedOwner DEF MayMarkStarted, OwnsGeneration, Current, Owners
  <1>2. Claimed(i)' /\ ~At(i, "spawned")' /\ ~At(i, "restored")'
        /\ rooms'[i].at \notin {"claimed", "open", "spawned"}
    BY DEF Claimed, At
  <1>3. \A j \in Instances : j # i => /\ rooms'[j] = rooms[j] /\ ~Current(j)
                                      /\ (Claimed(j)' <=> Claimed(j))
                                      /\ (Running(j)' <=> Running(j))
                                      /\ \A p : At(j, p)' <=> At(j, p)
                                      /\ (Live(j)' <=> Live(j)) /\ (Current(j)' <=> Current(j))
    BY <1>1, OneCurrent DEF OtherRooms, Claimed, Running, At, Live, Current
  <1>4. GenerationsOK'
    BY <1>1, <1>2, KeptGenerations DEF Claimed
  <1>5. StartsOK'
    <2> SUFFICES ASSUME NEW j \in Instances
                 PROVE  /\ Current(j)' /\ rooms'[j].at \in {"claimed", "open", "spawned"} =>
                             rooms'[j].started = owner'.started
                        /\ At(j, "spawned")' => ~rooms'[j].started
      BY <1>1 DEF StartsOK
    <2>1. CASE j = i
      BY <2>1, <1>2
    <2>2. CASE j # i
      BY <2>2, <1>3 DEF StartsOK
    <2> QED BY <2>1, <2>2
  <1>6. WorldsOK'
    <2>1. worlds' = {} /\ \A j \in Instances : ~Live(j)
      BY <1>1 DEF WorldsOK, StartsOK, Live
    <2>2. \A j \in Instances : Live(j)' => j = i /\ rooms'[j].physics
      BY <2>1, <1>3 DEF Live
    <2>3. \A v, w \in Worlds' : v = w
      BY <2>1, <2>2 DEF Worlds
    <2>4. ASSUME NEW j \in Instances, At(j, "spawned")'
          PROVE  rooms'[j].world = rooms'[j].generation /\ ~Current(j)'
      BY <2>4, <1>2, <1>3 DEF WorldsOK
    <2> QED BY <1>1, <2>3, <2>4 DEF WorldsOK
  <1> QED BY <1>4, <1>5, <1>6

\* The room that spawned the match shows what it has stored.
LEMMA MarkStartedOwner ==
  ASSUME OwnerInv, NEW i \in Instances, MarkStarted(i)
  PROVE  (GenerationsOK /\ StartsOK /\ WorldsOK)'
  <1>1. /\ TypeOK /\ GenerationsOK /\ StartsOK /\ WorldsOK
        /\ rooms' = [rooms EXCEPT ![i].at = "playing"] /\ rooms[i].at = "spawned"
        /\ MayMarkStarted(i) /\ owner' = [owner EXCEPT !.started = TRUE]
        /\ UNCHANGED <<lease, checkpoint, worlds>>
    BY DEF OwnerInv, MarkStarted, GoTo, At, redis, history
  <1>2. /\ OtherRooms(i) /\ SameClaim(rooms[i], rooms'[i]) /\ SameWorld(rooms[i], rooms'[i])
        /\ rooms'[i].at = "playing"
    BY <1>1, PlaceRoom, PositionNames
  <1>3. Claimed(i) /\ At(i, "spawned") /\ Current(i)
    BY <1>1 DEF Claimed, At, Current, MayMarkStarted, OwnsGeneration
  <1>4. checkpoint # None => rooms'[i].world = checkpoint.world
    BY <1>1, <1>2, <1>3 DEF WorldsOK, SameWorld
  <1> QED BY <1>1, <1>2, <1>3, <1>4, FirstStart

\* The room that gives a match up has no physics to show.
LEMMA AbandonOwner ==
  ASSUME OwnerInv, FramesOK, NEW i \in Instances, Abandon(i)
  PROVE  (GenerationsOK /\ StartsOK /\ WorldsOK)'
  <1>1. /\ TypeOK /\ GenerationsOK /\ StartsOK /\ WorldsOK
        /\ MayMarkStarted(i) /\ owner' = [owner EXCEPT !.started = TRUE] /\ rooms[i].at = "open"
        /\ UNCHANGED <<lease, checkpoint, worlds>>
    BY DEF OwnerInv, Abandon, At, redis, history
  <1>2. /\ OtherRooms(i) /\ SameClaim(rooms[i], rooms'[i]) /\ SameWorld(rooms[i], rooms'[i])
        /\ rooms'[i].at = "playing"
    BY <1>1, AbandonRoom
  <1>3. Claimed(i) /\ ~rooms'[i].physics
    BY <1>1, <1>2 DEF Claimed, FramesOK, InPlace, SameWorld
  <1> QED BY <1>1, <1>2, <1>3, FirstStart

\* The physics that are restored are those of the stored world.
LEMMA RestoreOwner ==
  ASSUME OwnerInv, FramesOK, NEW i \in Instances, Restore(i)
  PROVE  (GenerationsOK /\ StartsOK /\ WorldsOK)'
  <1>1. /\ TypeOK /\ GenerationsOK /\ StartsOK /\ WorldsOK
        /\ OtherRooms(i) /\ SameClaim(rooms[i], rooms'[i])
        /\ rooms'[i].at \in {"playing", "restored"}
        /\ rooms[i].at = "open" /\ rooms[i].started
        /\ UNCHANGED <<owner, lease, checkpoint, worlds>>
    BY RestoreRoom DEF OwnerInv, Restore, At, mongo, redis, history
  <1>2. Claimed(i) /\ Claimed(i)' /\ ~At(i, "spawned")'
        /\ rooms'[i].at \notin {"idle", "read", "leased", "claimed", "open", "spawned"}
    BY <1>1 DEF Claimed, At
  <1>3. \A j \in Instances : j # i => /\ rooms'[j] = rooms[j]
                                      /\ (Claimed(j)' <=> Claimed(j))
                                      /\ (Running(j)' <=> Running(j))
                                      /\ \A p : At(j, p)' <=> At(j, p)
                                      /\ (Live(j)' <=> Live(j)) /\ (Current(j)' <=> Current(j))
    BY <1>1 DEF OtherRooms, Claimed, Running, At, Live, Current
  <1>4. GenerationsOK'
    BY <1>1, <1>2, KeptGenerations
  <1>5. StartsOK'
    BY <1>1, <1>2, <1>3, FewerStarts DEF SameClaim
  <1>6. ~rooms[i].physics
    BY <1>1 DEF FramesOK, InPlace
  <1>7. Live(i)' => rooms'[i].world \in Worlds
    BY <1>6, <1>1, RestoreRoom, WorldsAre DEF Live, SameWorld
  <1>8. WorldsOK'
    BY <1>1, <1>2, <1>3, <1>7, WorldsAre, FewerWorlds
  <1> QED BY <1>4, <1>5, <1>8

\* Every step keeps the owner single and the world the same.
LEMMA NextOwner == OwnerInv /\ FramesOK /\ [Next]_vars => (GenerationsOK /\ StartsOK /\ WorldsOK)'
  <1> SUFFICES ASSUME OwnerInv, FramesOK, [Next]_vars PROVE (GenerationsOK /\ StartsOK /\ WorldsOK)'
    OBVIOUS
  <1>0. OwnerInv /\ FramesOK /\ TypeOK
    BY DEF OwnerInv
  <1>1. ASSUME NEW i \in Instances, Read(i) PROVE (GenerationsOK /\ StartsOK /\ WorldsOK)'
    BY <1>1, <1>0, ReadOwner
  <1>2. ASSUME NEW i \in Instances, Acquire(i) PROVE (GenerationsOK /\ StartsOK /\ WorldsOK)'
    BY <1>2, <1>0, AcquireOwner
  <1>3. ASSUME NEW i \in Instances, NotAcquired(i)
        PROVE  (GenerationsOK /\ StartsOK /\ WorldsOK)'
    BY <1>3, <1>0, ResetOwner DEF NotAcquired, mongo, redis, history
  <1>4. ASSUME NEW i \in Instances, Claim(i) PROVE (GenerationsOK /\ StartsOK /\ WorldsOK)'
    BY <1>4, <1>0, ClaimOwner
  <1>5. ASSUME NEW i \in Instances, ClaimFails(i) PROVE (GenerationsOK /\ StartsOK /\ WorldsOK)'
    BY <1>5, <1>0, ResetOwner DEF ClaimFails, Close, mongo, redis, history
  <1>6. ASSUME NEW i \in Instances, Open(i) PROVE (GenerationsOK /\ StartsOK /\ WorldsOK)'
    <2>1. OtherRooms(i) /\ SameClaim(rooms[i], rooms'[i]) /\ SameWorld(rooms[i], rooms'[i])
      BY <1>6, <1>0, PlaceRoom, PositionNames DEF Open, GoTo
    <2>2. Stays(i)
      BY <1>6, <1>0, PlaceRoom, PositionNames DEF Stays, Open, GoTo, Running, At
    <2>3. owner'.generation = owner.generation /\ owner'.started = owner.started /\ lease' = lease
      BY <1>6, <1>0, TypedOwner DEF Open, GoTo, Owners, mongo, redis
    <2>4. checkpoint' \in {checkpoint, None}
      BY <1>6, <1>0 DEF Open, GoTo, redis
    <2>5. worlds' = worlds
      BY <1>6, <1>0 DEF Open, GoTo, history
    <2> QED BY <2>1, <2>2, <2>3, <2>4, <2>5, KeptOwner
  <1>7. ASSUME NEW i \in Instances, StartSession(i)
        PROVE  (GenerationsOK /\ StartsOK /\ WorldsOK)'
    BY <1>7, <1>0, StillOwner DEF StartSession, mongo, redis, history
  <1>8. ASSUME NEW i \in Instances, Spawn(i) PROVE (GenerationsOK /\ StartsOK /\ WorldsOK)'
    BY <1>8, <1>0, SpawnOwner
  <1>9. ASSUME NEW i \in Instances, MarkStarted(i)
        PROVE  (GenerationsOK /\ StartsOK /\ WorldsOK)'
    BY <1>9, <1>0, MarkStartedOwner
  <1>10. ASSUME NEW i \in Instances, MarkFails(i) PROVE (GenerationsOK /\ StartsOK /\ WorldsOK)'
    BY <1>10, <1>0, ResetOwner DEF MarkFails, Close, mongo, redis, history
  <1>11. ASSUME NEW i \in Instances, Abandon(i) PROVE (GenerationsOK /\ StartsOK /\ WorldsOK)'
    BY <1>11, <1>0, AbandonOwner
  <1>12. ASSUME NEW i \in Instances, Restore(i) PROVE (GenerationsOK /\ StartsOK /\ WorldsOK)'
    BY <1>12, <1>0, RestoreOwner
  <1>13. ASSUME NEW i \in Instances, Resume(i) PROVE (GenerationsOK /\ StartsOK /\ WorldsOK)'
    <2>1. /\ OtherRooms(i) /\ SameClaim(rooms[i], rooms'[i]) /\ SameWorld(rooms[i], rooms'[i])
          /\ rooms'[i].at = "playing" /\ rooms[i].at = "restored"
      BY <1>13, <1>0, ResumeRoom DEF Resume, At
    <2>2. UNCHANGED <<owner, lease, worlds>>
      BY <1>13, <1>0 DEF Resume, mongo, history
    <2>3. Stays(i)
      BY <2>1 DEF Stays, Running, At
    <2>4. Live(i)
      BY <1>0, <2>1 DEF FramesOK, InPlace, Live, At
    <2>5. HoldsLease(i) /\ Live(i) /\ checkpoint'.world = rooms[i].world
      BY <1>13, <1>0, <2>4 DEF Resume, Stored
    <2> QED BY <2>1, <2>2, <2>3, <2>5, KeptOwner
  <1>14. ASSUME NEW i \in Instances, Tick(i) PROVE (GenerationsOK /\ StartsOK /\ WorldsOK)'
    <2>1. PICK e \in Results \cup {None} : rooms' = [rooms EXCEPT ![i] = Advanced(i, e)]
      BY <1>14, <1>0, AdvancingTyped DEF Tick
    <2>2. Running(i) /\ UNCHANGED <<owner, lease, checkpoint, worlds>>
      BY <1>14, <1>0 DEF Tick, Simulates, mongo, redis, history
    <2>3. /\ OtherRooms(i) /\ SameClaim(rooms[i], rooms'[i]) /\ SameWorld(rooms[i], rooms'[i])
          /\ rooms'[i].at = rooms[i].at
      BY <1>0, <2>1, AdvancedRoom
    <2>4. Stays(i)
      BY <2>2, <2>3 DEF Stays, Running
    <2> QED BY <2>2, <2>3, <2>4, KeptOwner
  <1>15. ASSUME NEW i \in Instances, Finish(i) PROVE (GenerationsOK /\ StartsOK /\ WorldsOK)'
    <2>1. PICK e \in Results \cup {None} : rooms' = [rooms EXCEPT ![i] = Advanced(i, e)]
      BY <1>15, <1>0, AdvancingTyped DEF Finish
    <2>2. Running(i) /\ UNCHANGED <<owner, lease, checkpoint, worlds>>
      BY <1>15, <1>0 DEF Finish, Simulates, mongo, redis, history
    <2>3. /\ OtherRooms(i) /\ SameClaim(rooms[i], rooms'[i]) /\ SameWorld(rooms[i], rooms'[i])
          /\ rooms'[i].at = rooms[i].at
      BY <1>0, <2>1, AdvancedRoom
    <2>4. Stays(i)
      BY <2>2, <2>3 DEF Stays, Running
    <2> QED BY <2>2, <2>3, <2>4, KeptOwner
  <1>16. ASSUME NEW i \in Instances, Resync(i) PROVE (GenerationsOK /\ StartsOK /\ WorldsOK)'
    <2>1. PICK e \in Results \cup {None} : rooms' = [rooms EXCEPT ![i] = Advanced(i, e)]
      BY <1>16, <1>0, AdvancingTyped DEF Resync
    <2>2. Running(i) /\ UNCHANGED <<owner, lease, checkpoint, worlds>>
      BY <1>16, <1>0 DEF Resync, Simulates, mongo, redis, history
    <2>3. /\ OtherRooms(i) /\ SameClaim(rooms[i], rooms'[i]) /\ SameWorld(rooms[i], rooms'[i])
          /\ rooms'[i].at = rooms[i].at
      BY <1>0, <2>1, AdvancedRoom
    <2>4. Stays(i)
      BY <2>2, <2>3 DEF Stays, Running
    <2> QED BY <2>2, <2>3, <2>4, KeptOwner
  <1>17. ASSUME NEW i \in Instances, NextUpdate(i)
         PROVE  (GenerationsOK /\ StartsOK /\ WorldsOK)'
    <2>1. OtherRooms(i) /\ SameClaim(rooms[i], rooms'[i]) /\ SameWorld(rooms[i], rooms'[i])
      BY <1>17, <1>0, NextUpdateRoom
    <2>2. Stays(i)
      BY <1>17, <1>0, NextUpdateRoom DEF Stays, NextUpdate, Running, At
    <2>3. owner'.generation = owner.generation /\ owner'.started = owner.started /\ lease' = lease
      BY <1>17, <1>0, TypedOwner DEF NextUpdate, Owners, mongo, redis
    <2>4. checkpoint' \in {checkpoint, None}
      BY <1>17, <1>0 DEF NextUpdate, redis
    <2>5. worlds' = worlds
      BY <1>17, <1>0 DEF NextUpdate, history
    <2> QED BY <2>1, <2>2, <2>3, <2>4, <2>5, KeptOwner
  <1>18. ASSUME NEW i \in Instances, PublishUnsaved(i)
         PROVE  (GenerationsOK /\ StartsOK /\ WorldsOK)'
    <2>1. OtherRooms(i) /\ SameClaim(rooms[i], rooms'[i]) /\ SameWorld(rooms[i], rooms'[i])
          /\ rooms'[i].at = rooms[i].at
      BY <1>18, <1>0, DroppedRoom DEF PublishUnsaved
    <2>2. Running(i) /\ UNCHANGED <<owner, lease>> /\ worlds' = worlds \cup {rooms[i].world}
      BY <1>18, <1>0 DEF PublishUnsaved, Published, mongo, redis
    <2>3. Stays(i)
      BY <2>1, <2>2 DEF Stays, Running
    <2>4. Live(i)
      BY <1>0, <1>18, <2>2 DEF PublishUnsaved, FramesOK, OneRun, FramesOf, Live
    <2>5. checkpoint' = checkpoint
      BY <1>18, <1>0, <2>4 DEF PublishUnsaved, Stored, redis
    <2> QED BY <2>1, <2>2, <2>3, <2>4, <2>5, KeptOwner
  <1>19. ASSUME NEW i \in Instances, PublishSaved(i)
         PROVE  (GenerationsOK /\ StartsOK /\ WorldsOK)'
    <2>1. OtherRooms(i) /\ SameClaim(rooms[i], rooms'[i]) /\ SameWorld(rooms[i], rooms'[i])
          /\ rooms'[i].at = rooms[i].at
      BY <1>19, <1>0, PublishSavedRoom
    <2>2. Running(i) /\ UNCHANGED <<owner, lease>> /\ worlds' = worlds \cup {rooms[i].world}
      BY <1>19, <1>0 DEF PublishSaved, Published, mongo, redis
    <2>3. Stays(i)
      BY <2>1, <2>2 DEF Stays, Running
    <2>4. Live(i)
      BY <1>0, <1>19, <2>2 DEF PublishSaved, FramesOK, OneRun, FramesOf, Live
    <2>5. HoldsLease(i) /\ Live(i) /\ checkpoint'.world = rooms[i].world
      BY <1>19, <1>0, <2>4 DEF PublishSaved, Stored, redis
    <2> QED BY <2>1, <2>2, <2>3, <2>4, <2>5, KeptOwner
  <1>20. ASSUME NEW i \in Instances, DropFrame(i) PROVE (GenerationsOK /\ StartsOK /\ WorldsOK)'
    <2>1. OtherRooms(i) /\ SameClaim(rooms[i], rooms'[i]) /\ SameWorld(rooms[i], rooms'[i])
      BY <1>20, <1>0, DroppedRoom DEF DropFrame
    <2>2. Stays(i)
      BY <1>20, <1>0, DroppedRoom DEF Stays, DropFrame, Running, At
    <2>3. owner'.generation = owner.generation /\ owner'.started = owner.started /\ lease' = lease
      BY <1>20, <1>0, TypedOwner DEF DropFrame, Owners, mongo, redis
    <2>4. checkpoint' \in {checkpoint, None}
      BY <1>20, <1>0 DEF DropFrame, redis
    <2>5. worlds' = worlds
      BY <1>20, <1>0 DEF DropFrame, history
    <2> QED BY <2>1, <2>2, <2>3, <2>4, <2>5, KeptOwner
  <1>21. ASSUME NEW i \in Instances, CancelRuntime(i)
         PROVE  (GenerationsOK /\ StartsOK /\ WorldsOK)'
    <2>1. OtherRooms(i) /\ SameClaim(rooms[i], rooms'[i]) /\ SameWorld(rooms[i], rooms'[i])
      BY <1>21, <1>0, CancelRuntimeRoom
    <2>2. Stays(i)
      BY <1>21, <1>0, CancelRuntimeRoom DEF Stays, CancelRuntime, Running, At
    <2>3. owner'.generation = owner.generation /\ owner'.started = owner.started /\ lease' = lease
      BY <1>21, <1>0, TypedOwner DEF CancelRuntime, Owners, mongo, redis
    <2>4. checkpoint' \in {checkpoint, None}
      BY <1>21, <1>0 DEF CancelRuntime, redis
    <2>5. worlds' = worlds
      BY <1>21, <1>0 DEF CancelRuntime, history
    <2> QED BY <2>1, <2>2, <2>3, <2>4, <2>5, KeptOwner
  <1>22. ASSUME NEW i \in Instances, ProtectFinal(i)
         PROVE  (GenerationsOK /\ StartsOK /\ WorldsOK)'
    <2>1. /\ OtherRooms(i) /\ SameClaim(rooms[i], rooms'[i]) /\ SameWorld(rooms[i], rooms'[i])
          /\ rooms'[i].at = "committing" /\ rooms[i].at = "playing"
      BY <1>22, <1>0, ProtectFinalRoom DEF ProtectFinal, At
    <2>2. UNCHANGED <<owner, lease, worlds>>
      BY <1>22, <1>0 DEF ProtectFinal, mongo, history
    <2>3. Stays(i)
      BY <2>1 DEF Stays, Running
    <2>4. \/ checkpoint' = checkpoint
          \/ HoldsLease(i) /\ Live(i) /\ checkpoint'.world = rooms[i].world
      BY <1>22, <1>0, <2>1, ProtectFinalRoom DEF Stored, Live, Running
    <2> QED BY <2>1, <2>2, <2>3, <2>4, KeptOwner
  <1>23. ASSUME NEW i \in Instances, Commit(i) PROVE (GenerationsOK /\ StartsOK /\ WorldsOK)'
    <2>1. OtherRooms(i) /\ SameClaim(rooms[i], rooms'[i]) /\ SameWorld(rooms[i], rooms'[i])
      BY <1>23, <1>0, PlaceRoom, PositionNames DEF Commit, GoTo, Completed
    <2>2. Stays(i)
      BY <1>23, <1>0, PlaceRoom, PositionNames DEF Stays, Commit, GoTo, Completed, Running, At
    <2>3. owner'.generation = owner.generation /\ owner'.started = owner.started /\ lease' = lease
      BY <1>23, <1>0, TypedOwner DEF Commit, GoTo, Completed, Owners, mongo, redis
    <2>4. checkpoint' \in {checkpoint, None}
      BY <1>23, <1>0 DEF Commit, GoTo, Completed, redis
    <2>5. worlds' = worlds
      BY <1>23, <1>0 DEF Commit, GoTo, Completed, history
    <2> QED BY <2>1, <2>2, <2>3, <2>4, <2>5, KeptOwner
  <1>24. ASSUME NEW i \in Instances, CommitFails(i)
         PROVE  (GenerationsOK /\ StartsOK /\ WorldsOK)'
    BY <1>24, <1>0, ResetOwner DEF CommitFails, Close, mongo, redis, history
  <1>25. ASSUME NEW i \in Instances, ReleaseCheckpoint(i)
         PROVE  (GenerationsOK /\ StartsOK /\ WorldsOK)'
    <2>1. OtherRooms(i) /\ SameClaim(rooms[i], rooms'[i]) /\ SameWorld(rooms[i], rooms'[i])
      BY <1>25, <1>0, ReleaseRoom
    <2>2. Stays(i)
      BY <1>25, <1>0, ReleaseRoom DEF Stays, ReleaseCheckpoint, Running, At
    <2>3. owner'.generation = owner.generation /\ owner'.started = owner.started /\ lease' = lease
      BY <1>25, <1>0, TypedOwner DEF ReleaseCheckpoint, Owners, mongo, redis
    <2>4. checkpoint' \in {checkpoint, None}
      BY <1>25, <1>0 DEF ReleaseCheckpoint, redis
    <2>5. worlds' = worlds
      BY <1>25, <1>0 DEF ReleaseCheckpoint, history
    <2> QED BY <2>1, <2>2, <2>3, <2>4, <2>5, KeptOwner
  <1>26. ASSUME NEW i \in Instances, Leave(i) PROVE (GenerationsOK /\ StartsOK /\ WorldsOK)'
    BY <1>26, <1>0, ResetOwner DEF Leave, Close, mongo, redis, history
  <1>27. ASSUME NEW i \in Instances, LoseRoom(i) PROVE (GenerationsOK /\ StartsOK /\ WorldsOK)'
    BY <1>27, <1>0, ResetOwner DEF LoseRoom, mongo, redis, history
  <1>28. ASSUME NEW i \in Instances, Crash(i) PROVE (GenerationsOK /\ StartsOK /\ WorldsOK)'
    BY <1>28, <1>0, ResetOwner DEF Crash, mongo, redis, history
  <1>29. ASSUME NEW i \in Instances, CommitUnanswered(i)
         PROVE  (GenerationsOK /\ StartsOK /\ WorldsOK)'
    <2>1. OtherRooms(i) /\ SameClaim(rooms[i], rooms'[i]) /\ SameWorld(rooms[i], rooms'[i])
      BY <1>29, <1>0, PlaceRoom, PositionNames DEF CommitUnanswered, GoTo, Completed
    <2>2. Stays(i)
      BY <1>29, <1>0, PlaceRoom, PositionNames
        DEF Stays, CommitUnanswered, GoTo, Completed, Running, At
    <2>3. owner'.generation = owner.generation /\ owner'.started = owner.started /\ lease' = lease
      BY <1>29, <1>0, TypedOwner DEF CommitUnanswered, GoTo, Completed, Owners, mongo, redis
    <2>4. checkpoint' \in {checkpoint, None}
      BY <1>29, <1>0 DEF CommitUnanswered, GoTo, Completed, redis
    <2>5. worlds' = worlds
      BY <1>29, <1>0 DEF CommitUnanswered, GoTo, Completed, history
    <2> QED BY <2>1, <2>2, <2>3, <2>4, <2>5, KeptOwner
  <1>30. ASSUME NEW i \in Instances, NEW c \in Cancels, SaveTrigger(i, c)
         PROVE  (GenerationsOK /\ StartsOK /\ WorldsOK)'
    <2>1. OtherRooms(i) /\ SameClaim(rooms[i], rooms'[i]) /\ SameWorld(rooms[i], rooms'[i])
      BY <1>30, <1>0, SaveTriggerRoom
    <2>2. Stays(i)
      BY <1>30, <1>0, SaveTriggerRoom DEF Stays, SaveTrigger, Running, At
    <2>3. owner'.generation = owner.generation /\ owner'.started = owner.started /\ lease' = lease
      BY <1>30, <1>0, TypedOwner DEF SaveTrigger, Owners, mongo, redis
    <2>4. checkpoint' \in {checkpoint, None}
      BY <1>30, <1>0 DEF SaveTrigger, redis
    <2>5. worlds' = worlds
      BY <1>30, <1>0 DEF SaveTrigger, history
    <2> QED BY <2>1, <2>2, <2>3, <2>4, <2>5, KeptOwner
  <1>31. ASSUME NEW i \in Instances, NEW c \in Cancels, HoldCancel(i, c)
         PROVE  (GenerationsOK /\ StartsOK /\ WorldsOK)'
    <2>1. OtherRooms(i) /\ SameClaim(rooms[i], rooms'[i]) /\ SameWorld(rooms[i], rooms'[i])
      BY <1>31, <1>0, HoldCancelRoom
    <2>2. Stays(i)
      BY <1>31, <1>0, HoldCancelRoom DEF Stays, HoldCancel, Running, At
    <2>3. owner'.generation = owner.generation /\ owner'.started = owner.started /\ lease' = lease
      BY <1>31, <1>0, TypedOwner DEF HoldCancel, Owners, mongo, redis
    <2>4. checkpoint' \in {checkpoint, None}
      BY <1>31, <1>0 DEF HoldCancel, redis
    <2>5. worlds' = worlds
      BY <1>31, <1>0 DEF HoldCancel, history
    <2> QED BY <2>1, <2>2, <2>3, <2>4, <2>5, KeptOwner
  <1>32. ASSUME Lapse PROVE (GenerationsOK /\ StartsOK /\ WorldsOK)'
    BY <1>32, <1>0, StillOwner DEF Lapse, mongo, redis, history
  <1>33. ASSUME Expire PROVE (GenerationsOK /\ StartsOK /\ WorldsOK)'
    BY <1>33, <1>0, StillOwner DEF Expire, mongo, redis, history
  <1>34. ASSUME LoseCheckpoint PROVE (GenerationsOK /\ StartsOK /\ WorldsOK)'
    BY <1>34, <1>0, StillOwner DEF LoseCheckpoint, mongo, redis, history
  <1>35. ASSUME UNCHANGED vars PROVE (GenerationsOK /\ StartsOK /\ WorldsOK)'
    BY <1>35, <1>0, StillOwner DEF vars, mongo, redis, history
  <1> QED
    BY <1>1, <1>2, <1>3, <1>4, <1>5, <1>6, <1>7, <1>8, <1>9, <1>10, <1>11, <1>12,
       <1>13, <1>14, <1>15, <1>16, <1>17, <1>18, <1>19, <1>20, <1>21, <1>22, <1>23,
       <1>24, <1>25, <1>26, <1>27, <1>28, <1>29, <1>30, <1>31, <1>32, <1>33, <1>34,
       <1>35
    DEF Next, Step, Activate, Start, Play, Complete

-----------------------------------------------------------------------------
(* The outcome stands                                                      *)

OutcomeTypes ==
  TypeOK /\ GenerationsOK /\ StartsOK /\ WorldsOK /\ FramesOK /\ ResultOK
         /\ (~lost => EndsStand /\ Agreement)

\* The parts of the invariant.
LEMMA OutcomeParts == OutcomeInv => OutcomeTypes
  BY DEF OutcomeInv, OwnerInv, OutcomeOK, OutcomeTypes

\* The rooms that did not step.
LEMMA SameOthers ==
  ASSUME NEW i \in Instances, OtherRooms(i), owner'.generation = owner.generation
  PROVE  \A j \in Instances : j # i =>
           /\ rooms'[j] = rooms[j] /\ (Claimed(j)' <=> Claimed(j)) /\ (Running(j)' <=> Running(j))
           /\ (Current(j)' <=> Current(j)) /\ \A p : At(j, p)' <=> At(j, p)
  BY DEF OtherRooms, Claimed, Running, At, Current

\* A room in its place whose stored frame, and end if it has one, stay.
LEMMA QuietOutcome ==
  ASSUME OutcomeInv, NEW i \in Instances, OtherRooms(i), SameClaim(rooms[i], rooms'[i]),
         Stays(i),
         ~At(i, "restored"), rooms'[i].physics = rooms[i].physics, rooms'[i].saved = rooms[i].saved,
         rooms[i].end # None => rooms'[i].end = rooms[i].end,
         owner'.generation = owner.generation, owner'.started = owner.started,
         owner'.completed = owner.completed, UNCHANGED <<result, checkpoint, lost>>,
         \A e \in announced' : e \in announced \/ (~lost => Stands(e))
  PROVE  OutcomeOK'
  <1>1. OutcomeTypes
    BY OutcomeParts
  <1>2. /\ (Current(i)' <=> Current(i)) /\ (Running(i)' <=> Running(i))
        /\ ~At(i, "spawned")' /\ ~At(i, "restored")'
    BY DEF SameClaim, Current, Stays, Claimed, Running, At
  <1>3. \A e : Stands(e)' <=> Stands(e)
    BY DEF Stands
  <1>4. ResultOK'
    BY <1>1, <1>2, SameOthers DEF OutcomeTypes, ResultOK
  <1>5. ~lost => EndsStand'
    BY <1>1, <1>3, SameOthers DEF OutcomeTypes, EndsStand
  <1>6. ASSUME ~lost PROVE Agreement'
    <2>1. ASSUME NEW j \in Instances, Current(j)', result' = None, checkpoint' # None
          PROVE  AgreesWithCheckpoint(j)'
      <3>1. AgreesWithCheckpoint(j)
        BY <1>1, <1>2, <1>6, <2>1, SameOthers DEF OutcomeTypes, Agreement
      <3>2. CASE j = i
        BY <3>1, <3>2, <1>2 DEF AgreesWithCheckpoint
      <3>3. CASE j # i
        BY <3>1, <3>3, SameOthers DEF AgreesWithCheckpoint
      <3> QED BY <3>2, <3>3
    <2> QED BY <1>1, <1>6, <2>1 DEF OutcomeTypes, Agreement
  <1> QED BY <1>4, <1>5, <1>6 DEF OutcomeOK

\* A room that is gone.
LEMMA ResetOutcome ==
  ASSUME OutcomeInv, NEW i \in Instances, rooms' = [rooms EXCEPT ![i] = Idle],
         UNCHANGED <<owner, result, checkpoint, announced, lost>>
  PROVE  OutcomeOK'
  <1>1. OutcomeTypes /\ OtherRooms(i) /\ rooms'[i] = Idle
    BY OutcomeParts, ClosedRoom DEF OutcomeTypes
  <1>2. rooms'[i].saved = None /\ ~Current(i)'
    BY <1>1 DEF Idle, Current, Claimed
  <1>3. \A e : Stands(e)' <=> Stands(e)
    BY DEF Stands
  <1>4. ResultOK'
    BY <1>1, <1>2, SameOthers DEF OutcomeTypes, ResultOK
  <1>5. ~lost => EndsStand'
    BY <1>1, <1>2, <1>3, SameOthers DEF OutcomeTypes, EndsStand
  <1>6. ASSUME ~lost PROVE Agreement'
    BY <1>1, <1>2, <1>6, SameOthers DEF OutcomeTypes, Agreement, AgreesWithCheckpoint
  <1> QED BY <1>4, <1>5, <1>6 DEF OutcomeOK

\* A step that concerns no room: the loss of a checkpoint is the exception of the claim.
LEMMA StillOutcome ==
  ASSUME OutcomeInv, UNCHANGED <<rooms, owner, result, announced>>,
         lost' \/ UNCHANGED <<checkpoint, lost>>
  PROVE  OutcomeOK'
  <1>1. OutcomeTypes
    BY OutcomeParts
  <1>2. ResultOK'
    BY <1>1 DEF OutcomeTypes, ResultOK, Current, Claimed, Running
  <1>3. CASE UNCHANGED <<checkpoint, lost>>
    BY <1>1, <1>2, <1>3 DEF OutcomeTypes, OutcomeOK, EndsStand, Stands, Agreement,
      AgreesWithCheckpoint, Current, Claimed, Running, At
  <1> QED BY <1>2, <1>3 DEF OutcomeOK

\* The last owner stores a newer frame: an end that stands is the end of that frame.
LEMMA StoresOutcome ==
  ASSUME OutcomeInv, NEW i \in Instances, NEW f, OtherRooms(i), SameClaim(rooms[i], rooms'[i]),
         Running(i), Running(i)', SameWorld(rooms[i], rooms'[i]), rooms[i].physics,
         rooms'[i].end = rooms[i].end, rooms'[i].saved = f, f # None,
         f.end # None => f.end = rooms[i].end,
         rooms[i].saved # None /\ rooms[i].saved.end # None => f.end = rooms[i].saved.end,
         HoldsLease(i), UNCHANGED <<owner, result, lost>>,
         checkpoint' # None, checkpoint'.end = f.end,
         \A e \in announced' : e \in announced \/ (e # None /\ e = f.end)
  PROVE  OutcomeOK'
  <1>1. OutcomeTypes
    BY OutcomeParts
  <1>2. Claimed(i) /\ Claimed(i)' /\ ~At(i, "spawned")' /\ ~At(i, "restored")'
    BY DEF Claimed, Running, At
  <1>3. Current(i) /\ Current(i)'
    BY <1>1, <1>2, HolderIsCurrent DEF OutcomeTypes, Current, SameClaim
  <1>4. \A j \in Instances : j # i => ~Current(j) /\ ~Current(j)'
    BY <1>1, <1>3, OneCurrent, SameOthers DEF OutcomeTypes
  <1>5. \A e \in announced : e # None
    BY <1>1, NoneAssumption DEF OutcomeTypes, TypeOK
  <1>6. ResultOK'
    BY <1>1, <1>3, <1>4, SameOthers DEF OutcomeTypes, ResultOK
  <1>7. ASSUME ~lost, NEW e, e # None, Stands(e) PROVE Stands(e)'
    <2>1. CASE result # None
      BY <1>7, <2>1 DEF Stands
    <2>2. CASE result = None
      <3>1. checkpoint # None /\ checkpoint.end = e
        BY <1>7, <2>2 DEF Stands
      <3>2. AgreesWithCheckpoint(i)
        BY <1>1, <1>3, <1>7, <2>2, <3>1 DEF OutcomeTypes, Agreement
      <3>3. rooms[i].saved # None /\ rooms[i].saved.end = e
        BY <3>1, <3>2 DEF AgreesWithCheckpoint
      <3> QED BY <2>2, <3>3, <1>7 DEF Stands
    <2> QED BY <2>1, <2>2
  <1>8. f.end # None => Stands(f.end)'
    <2>1. CASE result # None
      BY <1>1, <1>3, <2>1 DEF OutcomeTypes, ResultOK, Stands
    <2>2. CASE result = None
      BY <2>2 DEF Stands
    <2> QED BY <2>1, <2>2
  <1>9. ~lost => EndsStand'
    BY <1>1, <1>5, <1>7, <1>8, SameOthers DEF OutcomeTypes, EndsStand
  <1>10. ASSUME ~lost PROVE Agreement'
    <2>1. AgreesWithCheckpoint(i)'
      BY <1>2 DEF AgreesWithCheckpoint, SameWorld
    <2>2. owner.started
      BY <1>1 DEF OutcomeTypes, StartsOK
    <2> QED BY <1>4, <2>1, <2>2 DEF Agreement
  <1> QED BY <1>6, <1>9, <1>10 DEF OutcomeOK

\* A room on its way to the claim.
LEMMA EarlyOutcome ==
  ASSUME OutcomeInv, NEW i \in Instances, OtherRooms(i), ~Claimed(i), ~Claimed(i)',
         rooms'[i].saved = rooms[i].saved, UNCHANGED <<owner, result, checkpoint, announced, lost>>
  PROVE  OutcomeOK'
  <1>1. OutcomeTypes
    BY OutcomeParts
  <1>2. ~Current(i)'
    BY DEF Current
  <1>3. \A e : Stands(e)' <=> Stands(e)
    BY DEF Stands
  <1>4. ResultOK'
    BY <1>1, <1>2, SameOthers DEF OutcomeTypes, ResultOK
  <1>5. ~lost => EndsStand'
    BY <1>1, <1>3, SameOthers DEF OutcomeTypes, EndsStand
  <1>6. ASSUME ~lost PROVE Agreement'
    BY <1>1, <1>2, <1>6, SameOthers DEF OutcomeTypes, Agreement, AgreesWithCheckpoint
  <1> QED BY <1>4, <1>5, <1>6 DEF OutcomeOK

\* A completed match is claimed by nobody.
LEMMA ClaimOutcome ==
  ASSUME OutcomeInv, NEW i \in Instances, Claim(i)
  PROVE  OutcomeOK'
  <1>1. /\ OutcomeTypes /\ OtherRooms(i) /\ rooms'[i].at = "claimed"
        /\ rooms'[i].saved = rooms[i].saved
        /\ owner'.generation = owner.generation + 1 /\ owner.generation \in Nat
        /\ owner'.started = owner.started
        /\ ~owner.completed /\ UNCHANGED <<result, checkpoint, announced, lost>>
    BY OutcomeParts, ClaimRoom, TypedRooms, TypedOwner
    DEF OutcomeTypes, Claim, Claimable, redis, history, TypedRoom, Owners, SameFrames
  <1>2. result = None
    BY <1>1 DEF OutcomeTypes, ResultOK
  <1>3. \A j \in Instances : j # i => ~Current(j)' /\ rooms'[j] = rooms[j]
    BY <1>1 DEF OutcomeTypes, GenerationsOK, OtherRooms, Current, Claimed
  <1>4. \A e : Stands(e)' <=> Stands(e)
    BY <1>1 DEF Stands
  <1>5. AgreesWithCheckpoint(i)'
    BY <1>1 DEF AgreesWithCheckpoint, At, Running
  <1>6. ~lost => EndsStand'
    BY <1>1, <1>3, <1>4 DEF OutcomeTypes, EndsStand
  <1>7. ~lost => Agreement'
    BY <1>1, <1>3, <1>5 DEF OutcomeTypes, Agreement
  <1> QED BY <1>1, <1>2, <1>6, <1>7 DEF OutcomeOK, ResultOK

\* Before the start no end is stored, so none stands that the new checkpoint loses.
LEMMA SpawnOutcome ==
  ASSUME OutcomeInv, NEW i \in Instances, Spawn(i)
  PROVE  OutcomeOK'
  <1>1. /\ OutcomeTypes /\ OtherRooms(i) /\ SameClaim(rooms[i], rooms'[i])
        /\ rooms[i].at = "open" /\ rooms'[i].at = "spawned"
        /\ rooms'[i].saved = [sequence |-> 1, end |-> None]
        /\ ~rooms[i].started /\ HoldsLease(i)
        /\ checkpoint' = [epoch |-> rooms[i].generation, sequence |-> 1, end |-> None,
                          world |-> rooms[i].generation]
        /\ UNCHANGED <<owner, result, announced, lost>>
    BY OutcomeParts, SpawnRoom DEF OutcomeTypes, Spawn, At, mongo, history
  <1>2. Claimed(i) /\ Claimed(i)' /\ ~Running(i) /\ ~Running(i)' /\ ~At(i, "restored")'
    BY <1>1 DEF Claimed, Running, At
  <1>3. Current(i) /\ Current(i)'
    BY <1>1, <1>2, HolderIsCurrent DEF OutcomeTypes, Current, SameClaim
  <1>4. result = None /\ ~owner.started
    BY <1>1, <1>2, <1>3 DEF OutcomeTypes, ResultOK, StartsOK
  <1>5. \A j \in Instances : j # i => ~Current(j)' /\ rooms'[j] = rooms[j]
    BY <1>1, <1>3, OneCurrent, SameOthers DEF OutcomeTypes
  <1>6. checkpoint'.end = None /\ rooms'[i].saved.end = None
    BY <1>1
  <1>7. ASSUME ~lost, NEW e, e # None, Stands(e) PROVE FALSE
    BY <1>1, <1>4, <1>7 DEF OutcomeTypes, Agreement, Stands
  <1>8. \A e \in announced : e # None
    BY <1>1, NoneAssumption DEF OutcomeTypes, TypeOK
  <1>9. ~lost => EndsStand'
    BY <1>1, <1>5, <1>6, <1>7, <1>8 DEF OutcomeTypes, EndsStand
  <1>10. Agreement'
    <2>1. AgreesWithCheckpoint(i)'
      BY <1>2, <1>6 DEF AgreesWithCheckpoint
    <2> QED BY <1>5, <1>6, <2>1 DEF Agreement
  <1> QED BY <1>1, <1>4, <1>9, <1>10 DEF OutcomeOK, ResultOK

\* The start is recorded: nothing stored says that the match has ended.
LEMMA StartOutcome ==
  ASSUME OutcomeInv, NEW i \in Instances, OtherRooms(i), SameClaim(rooms[i], rooms'[i]),
         MayMarkStarted(i), rooms[i].at \in {"open", "spawned"}, rooms'[i].at = "playing",
         rooms'[i].saved = rooms[i].saved,
         rooms'[i].physics => rooms[i].saved # None /\ rooms[i].saved.end = None,
         owner' = [owner EXCEPT !.started = TRUE],
         UNCHANGED <<result, checkpoint, announced, lost>>
  PROVE  OutcomeOK'
  <1>1. /\ OutcomeTypes /\ owner'.generation = owner.generation /\ owner'.started
        /\ owner'.completed = owner.completed
    BY OutcomeParts, TypedOwner DEF OutcomeTypes, Owners
  <1>2. Claimed(i) /\ Claimed(i)' /\ ~Running(i) /\ ~At(i, "spawned")' /\ ~At(i, "restored")'
    BY DEF Claimed, Running, At
  <1>3. Current(i) /\ Current(i)' /\ ~owner.started
    BY <1>1, <1>2 DEF Current, SameClaim, MayMarkStarted, OwnsGeneration
  <1>4. result = None
    BY <1>1, <1>2, <1>3 DEF OutcomeTypes, ResultOK
  <1>5. \A j \in Instances : j # i => ~Current(j)' /\ rooms'[j] = rooms[j]
    BY <1>1, <1>3, OneCurrent, SameOthers DEF OutcomeTypes
  <1>6. \A e : Stands(e)' <=> Stands(e)
    BY DEF Stands
  <1>7. ~lost => EndsStand'
    BY <1>1, <1>5, <1>6 DEF OutcomeTypes, EndsStand
  <1>8. ASSUME ~lost, checkpoint # None PROVE AgreesWithCheckpoint(i)'
    BY <1>1, <1>2, <1>3, <1>8 DEF OutcomeTypes, Agreement, AgreesWithCheckpoint
  <1>9. ~lost => Agreement'
    BY <1>1, <1>5, <1>8 DEF Agreement
  <1> QED BY <1>4, <1>7, <1>9 DEF OutcomeOK, ResultOK

\* The start of a spawned match ...
LEMMA MarkStartedOutcome ==
  ASSUME OutcomeInv, NEW i \in Instances, MarkStarted(i)
  PROVE  OutcomeOK'
  <1>1. /\ OutcomeTypes /\ rooms' = [rooms EXCEPT ![i].at = "playing"] /\ rooms[i].at = "spawned"
        /\ MayMarkStarted(i) /\ owner' = [owner EXCEPT !.started = TRUE]
        /\ UNCHANGED <<result, checkpoint, announced, lost>>
    BY OutcomeParts DEF MarkStarted, GoTo, At, redis, history
  <1>2. /\ OtherRooms(i) /\ SameClaim(rooms[i], rooms'[i]) /\ rooms'[i].saved = rooms[i].saved
        /\ rooms'[i].at = "playing"
    BY <1>1, PlaceRoom, PositionNames DEF OutcomeTypes, SameFrames
  <1>3. rooms[i].saved # None /\ rooms[i].saved.end = None
    BY <1>1 DEF OutcomeTypes, FramesOK, InPlace
  <1> QED BY <1>1, <1>2, <1>3, StartOutcome

\* ... and that of one given up.
LEMMA AbandonOutcome ==
  ASSUME OutcomeInv, NEW i \in Instances, Abandon(i)
  PROVE  OutcomeOK'
  <1>1. /\ OutcomeTypes /\ rooms[i].at = "open"
        /\ MayMarkStarted(i) /\ owner' = [owner EXCEPT !.started = TRUE]
        /\ UNCHANGED <<result, checkpoint, announced, lost>>
    BY OutcomeParts DEF Abandon, At, redis, history
  <1>2. /\ OtherRooms(i) /\ SameClaim(rooms[i], rooms'[i]) /\ rooms'[i].saved = rooms[i].saved
        /\ rooms'[i].at = "playing" /\ rooms'[i].physics = rooms[i].physics
    BY <1>1, AbandonRoom DEF OutcomeTypes, SameFrames, SameWorld
  <1>3. ~rooms[i].physics
    BY <1>1 DEF OutcomeTypes, FramesOK, InPlace
  <1> QED BY <1>1, <1>2, <1>3, StartOutcome

\* The end of a restored match is the stored one.
LEMMA RestoreOutcome ==
  ASSUME OutcomeInv, NEW i \in Instances, Restore(i)
  PROVE  OutcomeOK'
  <1>1. /\ OutcomeTypes /\ OtherRooms(i) /\ SameClaim(rooms[i], rooms'[i])
        /\ rooms'[i].saved = rooms[i].saved
        /\ rooms[i].at = "open" /\ rooms[i].started
        /\ \/ checkpoint = None /\ rooms'[i].at = "playing"
           \/ /\ rooms'[i].at = "restored"
              /\ checkpoint.end # None => rooms'[i].end = checkpoint.end
        /\ UNCHANGED <<owner, result, checkpoint, announced, lost>>
    BY OutcomeParts, RestoreRoom
      DEF OutcomeTypes, Restore, At, mongo, redis, history, SameFrames
  <1>2. Claimed(i) /\ Claimed(i)' /\ ~Running(i) /\ ~At(i, "spawned")'
    BY <1>1 DEF Claimed, Running, At
  <1>3. (Current(i)' <=> Current(i)) /\ (Current(i) => result = None)
    BY <1>1, <1>2 DEF OutcomeTypes, ResultOK, Current, SameClaim
  <1>4. \A e : Stands(e)' <=> Stands(e)
    BY <1>1 DEF Stands
  <1>5. ResultOK'
    BY <1>1, <1>3, SameOthers DEF OutcomeTypes, ResultOK
  <1>6. ~lost => EndsStand'
    BY <1>1, <1>4, SameOthers DEF OutcomeTypes, EndsStand
  <1>7. checkpoint # None => AgreesWithCheckpoint(i)'
    BY <1>1, <1>2 DEF AgreesWithCheckpoint, At, Running
  <1>8. ASSUME ~lost PROVE Agreement'
    BY <1>1, <1>7, <1>8, SameOthers DEF OutcomeTypes, Agreement, AgreesWithCheckpoint
  <1> QED BY <1>1, <1>5, <1>6, <1>8 DEF OutcomeOK

\* The restored match is stored before it runs, with the end that stood.
LEMMA ResumeOutcome ==
  ASSUME OutcomeInv, NEW i \in Instances, Resume(i)
  PROVE  OutcomeOK'
  <1>1. /\ OutcomeTypes /\ OtherRooms(i) /\ SameClaim(rooms[i], rooms'[i])
        /\ rooms[i].at = "restored" /\ rooms'[i].at = "playing"
        /\ rooms'[i].saved = CurrentFrame(i) /\ rooms'[i].physics = rooms[i].physics
        /\ HoldsLease(i) /\ checkpoint' = Stored(i, CurrentFrame(i))
        /\ UNCHANGED <<owner, result, announced, lost>>
    BY OutcomeParts, ResumeRoom DEF OutcomeTypes, Resume, At, mongo, history, SameWorld
  <1>2. Claimed(i) /\ Claimed(i)' /\ ~Running(i) /\ ~At(i, "spawned")' /\ ~At(i, "restored")'
    BY <1>1 DEF Claimed, Running, At
  <1>3. Current(i) /\ Current(i)'
    BY <1>1, <1>2, HolderIsCurrent DEF OutcomeTypes, Current, SameClaim
  <1>4. result = None /\ owner.started
    BY <1>1, <1>2, <1>3 DEF OutcomeTypes, ResultOK, StartsOK, At
  <1>5. \A j \in Instances : j # i => ~Current(j)' /\ rooms'[j] = rooms[j]
    BY <1>1, <1>3, OneCurrent, SameOthers DEF OutcomeTypes
  <1>6. /\ checkpoint' # None /\ checkpoint'.end = rooms[i].end
        /\ rooms'[i].saved # None /\ rooms'[i].saved.end = rooms[i].end
        /\ rooms[i].physics
    <2>1. CurrentFrame(i) \in Frames /\ checkpoint' \in Checkpoints
      BY <1>1, StoredTyped DEF OutcomeTypes
    <2> QED BY <1>1, <2>1, NoneAssumption
        DEF Stored, CurrentFrame, OutcomeTypes, FramesOK, InPlace
  <1>7. ASSUME ~lost, NEW e, e # None, Stands(e) PROVE Stands(e)'
    <2>1. checkpoint # None /\ checkpoint.end = e
      BY <1>4, <1>7 DEF Stands
    <2>2. AgreesWithCheckpoint(i)
      BY <1>1, <1>3, <1>4, <1>7, <2>1 DEF OutcomeTypes, Agreement
    <2>3. rooms[i].end = e
      BY <1>1, <1>7, <2>1, <2>2 DEF AgreesWithCheckpoint, At
    <2> QED BY <1>1, <1>4, <1>6, <2>3 DEF Stands
  <1>8. \A e \in announced : e # None
    BY <1>1, NoneAssumption DEF OutcomeTypes, TypeOK
  <1>9. rooms[i].end # None => Stands(rooms[i].saved.end)'
    BY <1>1, <1>4, <1>6 DEF Stands
  <1>10. ~lost => EndsStand'
    BY <1>1, <1>5, <1>6, <1>7, <1>8, <1>9 DEF OutcomeTypes, EndsStand
  <1>11. Agreement'
    <2>1. AgreesWithCheckpoint(i)'
      BY <1>1, <1>2, <1>6 DEF AgreesWithCheckpoint
    <2> QED BY <1>1, <1>4, <1>5, <2>1 DEF Agreement
  <1> QED BY <1>1, <1>4, <1>10, <1>11 DEF OutcomeOK, ResultOK

\* The last owner commits the end that stands; a commit of anybody else is fenced.
LEMMA CommitsOutcome ==
  ASSUME OutcomeInv, NEW i \in Instances, OtherRooms(i), SameClaim(rooms[i], rooms'[i]),
         Running(i), Running(i)', rooms[i].at = "committing",
         rooms'[i].end = rooms[i].end, rooms'[i].saved = rooms[i].saved,
         MayComplete(i), Completed(i), UNCHANGED <<checkpoint, announced, lost>>
  PROVE  OutcomeOK'
  <1>1. /\ OutcomeTypes /\ owner'.generation = owner.generation /\ owner'.started = owner.started
        /\ owner'.completed /\ owner.started /\ result = None /\ result' = rooms[i].end
    BY OutcomeParts, TypedOwner DEF OutcomeTypes, Completed, MayComplete, Owners
  <1>2. Claimed(i) /\ Claimed(i)'
    BY DEF Claimed, Running
  <1>3. Current(i) /\ Current(i)'
    BY <1>1, <1>2 DEF Current, SameClaim, MayComplete, OwnsGeneration
  <1>4. \A j \in Instances : j # i => ~Current(j)' /\ rooms'[j] = rooms[j]
    BY <1>1, <1>3, OneCurrent, SameOthers DEF OutcomeTypes
  <1>5. OneRun(rooms[i]) /\ rooms[i].end # None
    BY <1>1 DEF OutcomeTypes, FramesOK, InPlace
  <1>6. ASSUME ~lost, NEW e, e # None, Stands(e) PROVE Stands(e)'
    <2>1. checkpoint # None /\ checkpoint.end = e
      BY <1>1, <1>6 DEF Stands
    <2>2. AgreesWithCheckpoint(i)
      BY <1>1, <1>3, <1>6, <2>1 DEF OutcomeTypes, Agreement
    <2>3. rooms[i].saved # None /\ rooms[i].saved.end = e
      BY <1>6, <2>1, <2>2 DEF AgreesWithCheckpoint
    <2>4. rooms[i].end = e
      BY <1>5, <1>6, <2>3 DEF OneRun, FramesOf
    <2> QED BY <1>1, <1>5, <2>4 DEF Stands
  <1>7. \A e \in announced : e # None
    BY <1>1, NoneAssumption DEF OutcomeTypes, TypeOK
  <1>8. ResultOK'
    BY <1>1, <1>4 DEF ResultOK
  <1>9. ~lost => EndsStand'
    BY <1>1, <1>4, <1>6, <1>7 DEF OutcomeTypes, EndsStand
  <1>10. Agreement'
    BY <1>1, <1>5 DEF Agreement
  <1> QED BY <1>8, <1>9, <1>10 DEF OutcomeOK

\* The checkpoint of a completed match is not needed any more.
LEMMA ReleaseOutcome ==
  ASSUME OutcomeInv, NEW i \in Instances, ReleaseCheckpoint(i)
  PROVE  OutcomeOK'
  <1>1. /\ OutcomeTypes /\ OtherRooms(i) /\ SameClaim(rooms[i], rooms'[i])
        /\ rooms'[i].saved = rooms[i].saved /\ rooms'[i].end = rooms[i].end
        /\ rooms[i].at = "committed" /\ rooms'[i].at = "closing"
        /\ UNCHANGED <<owner, result, announced, lost>>
    BY OutcomeParts, ReleaseRoom
    DEF OutcomeTypes, ReleaseCheckpoint, At, mongo, history, SameFrames, SameRun
  <1>2. result # None
    BY <1>1 DEF OutcomeTypes, FramesOK, InPlace
  <1>3. (Current(i)' <=> Current(i)) /\ Running(i) /\ Running(i)'
    BY <1>1 DEF Current, SameClaim, Claimed, Running
  <1>4. \A e : Stands(e)' <=> Stands(e)
    BY <1>1, <1>2 DEF Stands
  <1>5. ResultOK'
    BY <1>1, <1>3, SameOthers DEF OutcomeTypes, ResultOK
  <1>6. ~lost => EndsStand'
    BY <1>1, <1>4, SameOthers DEF OutcomeTypes, EndsStand
  <1>7. ~lost => Agreement'
    <2>1. owner.started
      BY <1>1, <1>3 DEF OutcomeTypes, StartsOK
    <2> QED BY <1>1, <1>2, <2>1 DEF Agreement
  <1> QED BY <1>1, <1>5, <1>6, <1>7 DEF OutcomeOK

\* What is published without being stored has ended as the stored frame or the result.
LEMMA UnsavedStands ==
  ASSUME OutcomeInv, NEW i \in Instances, PublishUnsaved(i), ~lost, rooms[i].update.end # None
  PROVE  Stands(rooms[i].update.end)
  <1>1. OutcomeTypes /\ OneRun(rooms[i]) /\ InPlace(rooms[i], result)
    BY OutcomeParts DEF OutcomeTypes, FramesOK
  <1>2. CASE rooms[i].released
    <2>1. result = rooms[i].end /\ rooms[i].end = rooms[i].update.end
      BY <1>1, <1>2 DEF InPlace, OneRun, FramesOf, PublishUnsaved
    <2> QED BY <2>1 DEF Stands
  <1>3. CASE ~rooms[i].released
    <2>1. rooms[i].saved # None /\ rooms[i].update.end = rooms[i].saved.end
      BY <1>3 DEF PublishUnsaved, Critical
    <2> QED BY <1>1, <2>1 DEF OutcomeTypes, EndsStand
  <1> QED BY <1>2, <1>3

\* A frame that is newer than the stored one has its end, if that has one.
LEMMA NewerEnd ==
  ASSUME OutcomeInv, NEW i \in Instances, NEW f, ~Outdated(i, f),
         f \in FramesOf(rooms[i]) \/ f = CurrentFrame(i)
  PROVE  /\ f.end # None => f.end = rooms[i].end
         /\ rooms[i].saved # None /\ rooms[i].saved.end # None => f.end = rooms[i].saved.end
  <1>1. OutcomeTypes /\ OneRun(rooms[i]) /\ rooms[i] \in Rooms
    BY OutcomeParts, TypedRooms DEF OutcomeTypes, FramesOK, TypedRoom
  <1>2. CASE f = CurrentFrame(i)
    BY <1>1, <1>2 DEF CurrentFrame, OneRun, FramesOf
  <1>3. CASE f \in FramesOf(rooms[i])
    <2>1. f.sequence \in Nat /\ (rooms[i].saved # None => rooms[i].saved.sequence \in Nat)
      BY <1>1, <1>3, FrameTypes DEF FramesOf
    <2>2. rooms[i].saved # None => rooms[i].saved.sequence <= f.sequence
      BY <2>1 DEF Outdated
    <2> QED BY <1>1, <1>3, <2>2 DEF OneRun, FramesOf
  <1> QED BY <1>2, <1>3

\* Every step keeps the outcome.
LEMMA NextOutcome == OutcomeInv /\ [Next]_vars => OutcomeOK'
  <1> SUFFICES ASSUME OutcomeInv, [Next]_vars PROVE OutcomeOK'
    OBVIOUS
  <1>0. OutcomeInv /\ FramesOK /\ TypeOK
    BY DEF OutcomeInv, OwnerInv
  <1>1. ASSUME NEW i \in Instances, Read(i) PROVE OutcomeOK'
    <2>1. OtherRooms(i) /\ ~Claimed(i) /\ ~Claimed(i)' /\ rooms'[i].saved = rooms[i].saved
      BY <1>1, <1>0, ReadRoom DEF Read, At, Claimed, SameFrames
    <2> QED BY <1>1, <1>0, <2>1, EarlyOutcome DEF Read, mongo, redis, history
  <1>2. ASSUME NEW i \in Instances, Acquire(i) PROVE OutcomeOK'
    <2>1. OtherRooms(i) /\ ~Claimed(i) /\ ~Claimed(i)' /\ rooms'[i].saved = rooms[i].saved
      BY <1>2, <1>0, AcquireRoom DEF Acquire, At, Claimed, SameFrames
    <2> QED BY <1>2, <1>0, <2>1, EarlyOutcome DEF Acquire, mongo, history
  <1>3. ASSUME NEW i \in Instances, NotAcquired(i) PROVE OutcomeOK'
    BY <1>3, <1>0, ResetOutcome DEF NotAcquired, mongo, redis, history
  <1>4. ASSUME NEW i \in Instances, Claim(i) PROVE OutcomeOK'
    BY <1>4, <1>0, ClaimOutcome
  <1>5. ASSUME NEW i \in Instances, ClaimFails(i) PROVE OutcomeOK'
    BY <1>5, <1>0, ResetOutcome DEF ClaimFails, Close, mongo, redis, history
  <1>6. ASSUME NEW i \in Instances, Open(i) PROVE OutcomeOK'
    <2>1. /\ OtherRooms(i) /\ SameClaim(rooms[i], rooms'[i]) /\ rooms'[i].physics = rooms[i].physics
          /\ rooms'[i].saved = rooms[i].saved
          /\ rooms[i].end # None => rooms'[i].end = rooms[i].end
      BY <1>6, <1>0, PlaceRoom, PositionNames DEF Open, GoTo, SameWorld, SameRun, SameFrames
    <2>2. Stays(i) /\ ~At(i, "restored")
      BY <1>6, <1>0, PlaceRoom, PositionNames DEF Stays, Open, GoTo, Running, At
    <2>3. /\ owner'.generation = owner.generation /\ owner'.started = owner.started
          /\ owner'.completed = owner.completed
      BY <1>6, <1>0, TypedOwner DEF Open, GoTo, Owners, mongo
    <2>4. UNCHANGED <<result, checkpoint, lost, announced>>
      BY <1>6, <1>0 DEF Open, GoTo, mongo, redis, history
    <2> QED BY <1>0, <2>1, <2>2, <2>3, <2>4, QuietOutcome
  <1>7. ASSUME NEW i \in Instances, StartSession(i) PROVE OutcomeOK'
    BY <1>7, <1>0, StillOutcome DEF StartSession, mongo, redis, history
  <1>8. ASSUME NEW i \in Instances, Spawn(i) PROVE OutcomeOK'
    BY <1>8, <1>0, SpawnOutcome
  <1>9. ASSUME NEW i \in Instances, MarkStarted(i) PROVE OutcomeOK'
    BY <1>9, <1>0, MarkStartedOutcome
  <1>10. ASSUME NEW i \in Instances, MarkFails(i) PROVE OutcomeOK'
    BY <1>10, <1>0, ResetOutcome DEF MarkFails, Close, mongo, redis, history
  <1>11. ASSUME NEW i \in Instances, Abandon(i) PROVE OutcomeOK'
    BY <1>11, <1>0, AbandonOutcome
  <1>12. ASSUME NEW i \in Instances, Restore(i) PROVE OutcomeOK'
    BY <1>12, <1>0, RestoreOutcome
  <1>13. ASSUME NEW i \in Instances, Resume(i) PROVE OutcomeOK'
    BY <1>13, <1>0, ResumeOutcome
  <1>14. ASSUME NEW i \in Instances, Tick(i) PROVE OutcomeOK'
    <2>1. PICK e \in Results \cup {None} :
            /\ rooms' = [rooms EXCEPT ![i] = Advanced(i, e)]
            /\ rooms[i].end # None => e = rooms[i].end
      BY <1>14, <1>0, AdvancingTyped DEF Tick, Simulates
    <2>2. Running(i) /\ UNCHANGED <<owner, result, checkpoint, announced, lost>>
      BY <1>14, <1>0 DEF Tick, Simulates, mongo, redis, history
    <2>3. /\ OtherRooms(i) /\ SameClaim(rooms[i], rooms'[i]) /\ rooms'[i].physics = rooms[i].physics
          /\ rooms'[i].saved = rooms[i].saved /\ rooms'[i].end = e
          /\ rooms'[i].at = rooms[i].at
      BY <1>0, <2>1, AdvancedRoom DEF SameWorld
    <2>4. Stays(i) /\ ~At(i, "restored")
      BY <2>2, <2>3 DEF Stays, Running, At
    <2> QED BY <1>0, <2>1, <2>2, <2>3, <2>4, QuietOutcome
  <1>15. ASSUME NEW i \in Instances, Finish(i) PROVE OutcomeOK'
    <2>1. PICK e \in Results \cup {None} :
            /\ rooms' = [rooms EXCEPT ![i] = Advanced(i, e)]
            /\ rooms[i].end # None => e = rooms[i].end
      BY <1>15, <1>0, AdvancingTyped DEF Finish, Simulates
    <2>2. Running(i) /\ UNCHANGED <<owner, result, checkpoint, announced, lost>>
      BY <1>15, <1>0 DEF Finish, Simulates, mongo, redis, history
    <2>3. /\ OtherRooms(i) /\ SameClaim(rooms[i], rooms'[i]) /\ rooms'[i].physics = rooms[i].physics
          /\ rooms'[i].saved = rooms[i].saved /\ rooms'[i].end = e
          /\ rooms'[i].at = rooms[i].at
      BY <1>0, <2>1, AdvancedRoom DEF SameWorld
    <2>4. Stays(i) /\ ~At(i, "restored")
      BY <2>2, <2>3 DEF Stays, Running, At
    <2> QED BY <1>0, <2>1, <2>2, <2>3, <2>4, QuietOutcome
  <1>16. ASSUME NEW i \in Instances, Resync(i) PROVE OutcomeOK'
    <2>1. PICK e \in Results \cup {None} :
            /\ rooms' = [rooms EXCEPT ![i] = Advanced(i, e)]
            /\ rooms[i].end # None => e = rooms[i].end
      BY <1>16, <1>0, AdvancingTyped DEF Resync, Simulates
    <2>2. Running(i) /\ UNCHANGED <<owner, result, checkpoint, announced, lost>>
      BY <1>16, <1>0 DEF Resync, Simulates, mongo, redis, history
    <2>3. /\ OtherRooms(i) /\ SameClaim(rooms[i], rooms'[i]) /\ rooms'[i].physics = rooms[i].physics
          /\ rooms'[i].saved = rooms[i].saved /\ rooms'[i].end = e
          /\ rooms'[i].at = rooms[i].at
      BY <1>0, <2>1, AdvancedRoom DEF SameWorld
    <2>4. Stays(i) /\ ~At(i, "restored")
      BY <2>2, <2>3 DEF Stays, Running, At
    <2> QED BY <1>0, <2>1, <2>2, <2>3, <2>4, QuietOutcome
  <1>17. ASSUME NEW i \in Instances, NextUpdate(i) PROVE OutcomeOK'
    <2>1. /\ OtherRooms(i) /\ SameClaim(rooms[i], rooms'[i]) /\ rooms'[i].physics = rooms[i].physics
          /\ rooms'[i].saved = rooms[i].saved
          /\ rooms[i].end # None => rooms'[i].end = rooms[i].end
      BY <1>17, <1>0, NextUpdateRoom DEF NextUpdate, SameWorld, SameRun, SameFrames
    <2>2. Stays(i) /\ ~At(i, "restored")
      BY <1>17, <1>0, NextUpdateRoom DEF Stays, NextUpdate, Running, At
    <2>3. /\ owner'.generation = owner.generation /\ owner'.started = owner.started
          /\ owner'.completed = owner.completed
      BY <1>17, <1>0, TypedOwner DEF NextUpdate, Owners, mongo
    <2>4. UNCHANGED <<result, checkpoint, lost, announced>>
      BY <1>17, <1>0 DEF NextUpdate, mongo, redis, history
    <2> QED BY <1>0, <2>1, <2>2, <2>3, <2>4, QuietOutcome
  <1>18. ASSUME NEW i \in Instances, PublishUnsaved(i) PROVE OutcomeOK'
    <2>1. /\ OtherRooms(i) /\ SameClaim(rooms[i], rooms'[i]) /\ rooms'[i].physics = rooms[i].physics
          /\ rooms'[i].saved = rooms[i].saved /\ rooms'[i].end = rooms[i].end
          /\ rooms'[i].at = rooms[i].at
      BY <1>18, <1>0, DroppedRoom DEF PublishUnsaved, SameWorld, SameRun
    <2>2. Stays(i) /\ ~At(i, "restored")
      BY <1>18, <1>0, <2>1 DEF Stays, PublishUnsaved, Running, At
    <2>3. UNCHANGED <<owner, result, checkpoint, lost>>
      BY <1>18, <1>0 DEF PublishUnsaved, Published, mongo, redis
    <2>4. \A e \in announced' :
            e \in announced \/ (e = rooms[i].update.end /\ rooms[i].update.end # None)
      BY <1>18, <1>0 DEF PublishUnsaved, Published
    <2>5. \A e \in announced' : e \in announced \/ (~lost => Stands(e))
      BY <1>18, <1>0, <2>4, UnsavedStands
    <2> QED BY <1>0, <2>1, <2>2, <2>3, <2>5, QuietOutcome
  <1>19. ASSUME NEW i \in Instances, PublishSaved(i) PROVE OutcomeOK'
    <2> DEFINE f == rooms[i].update
    <2>1. /\ OtherRooms(i) /\ SameClaim(rooms[i], rooms'[i]) /\ SameWorld(rooms[i], rooms'[i])
          /\ rooms'[i].saved = f /\ rooms'[i].end = rooms[i].end
          /\ rooms'[i].at = rooms[i].at
      BY <1>19, <1>0, PublishSavedRoom DEF SameRun
    <2>2. /\ Running(i) /\ f # None /\ HoldsLease(i) /\ ~Outdated(i, f)
          /\ UNCHANGED <<owner, result, lost>>
          /\ checkpoint' = Stored(i, f)
      BY <1>19, <1>0 DEF PublishSaved, Published, mongo
    <2>3. Running(i)'
      BY <2>1, <2>2 DEF Running
    <2>4. \A e \in announced' : e \in announced \/ (e # None /\ e = f.end)
      BY <1>19, <1>0 DEF PublishSaved, Published
    <2>5. checkpoint' # None /\ checkpoint'.end = f.end
      BY <1>0, <2>2, UpdateTyped, StoredTyped, NoneAssumption DEF Stored
    <2>6. f \in FramesOf(rooms[i]) /\ rooms[i].physics
      BY <1>0, <2>2 DEF FramesOf, FramesOK, OneRun
    <2>7. /\ f.end # None => f.end = rooms[i].end
          /\ rooms[i].saved # None /\ rooms[i].saved.end # None => f.end = rooms[i].saved.end
      BY <1>0, <2>2, <2>6, NewerEnd
    <2> HIDE DEF f
    <2> QED BY <1>0, <2>1, <2>2, <2>3, <2>4, <2>5, <2>6, <2>7, StoresOutcome
  <1>20. ASSUME NEW i \in Instances, DropFrame(i) PROVE OutcomeOK'
    <2>1. /\ OtherRooms(i) /\ SameClaim(rooms[i], rooms'[i]) /\ rooms'[i].physics = rooms[i].physics
          /\ rooms'[i].saved = rooms[i].saved
          /\ rooms[i].end # None => rooms'[i].end = rooms[i].end
      BY <1>20, <1>0, DroppedRoom DEF DropFrame, SameWorld, SameRun, SameFrames
    <2>2. Stays(i) /\ ~At(i, "restored")
      BY <1>20, <1>0, DroppedRoom DEF Stays, DropFrame, Running, At
    <2>3. /\ owner'.generation = owner.generation /\ owner'.started = owner.started
          /\ owner'.completed = owner.completed
      BY <1>20, <1>0, TypedOwner DEF DropFrame, Owners, mongo
    <2>4. UNCHANGED <<result, checkpoint, lost, announced>>
      BY <1>20, <1>0 DEF DropFrame, mongo, redis, history
    <2> QED BY <1>0, <2>1, <2>2, <2>3, <2>4, QuietOutcome
  <1>21. ASSUME NEW i \in Instances, CancelRuntime(i) PROVE OutcomeOK'
    <2>1. /\ OtherRooms(i) /\ SameClaim(rooms[i], rooms'[i]) /\ rooms'[i].physics = rooms[i].physics
          /\ rooms'[i].saved = rooms[i].saved
          /\ rooms[i].end # None => rooms'[i].end = rooms[i].end
      BY <1>21, <1>0, CancelRuntimeRoom DEF CancelRuntime, SameWorld, SameRun, SameFrames
    <2>2. Stays(i) /\ ~At(i, "restored")
      BY <1>21, <1>0, CancelRuntimeRoom DEF Stays, CancelRuntime, Running, At
    <2>3. /\ owner'.generation = owner.generation /\ owner'.started = owner.started
          /\ owner'.completed = owner.completed
      BY <1>21, <1>0, TypedOwner DEF CancelRuntime, Owners, mongo
    <2>4. UNCHANGED <<result, checkpoint, lost, announced>>
      BY <1>21, <1>0 DEF CancelRuntime, mongo, redis, history
    <2> QED BY <1>0, <2>1, <2>2, <2>3, <2>4, QuietOutcome
  <1>22. ASSUME NEW i \in Instances, ProtectFinal(i) PROVE OutcomeOK'
    <2> DEFINE f == CurrentFrame(i)
    <2>1. /\ OtherRooms(i) /\ SameClaim(rooms[i], rooms'[i]) /\ SameWorld(rooms[i], rooms'[i])
          /\ rooms'[i].end = rooms[i].end
          /\ rooms'[i].at = "committing" /\ rooms[i].at = "playing"
      BY <1>22, <1>0, ProtectFinalRoom DEF ProtectFinal, At, SameRun
    <2>2. UNCHANGED <<owner, result, announced, lost>>
      BY <1>22, <1>0 DEF ProtectFinal, mongo, history
    <2>3. Running(i) /\ Running(i)' /\ Stays(i) /\ ~At(i, "restored")
      BY <2>1 DEF Running, Stays, At
    <2>4. CASE UNCHANGED checkpoint /\ rooms'[i].saved = rooms[i].saved
      BY <1>0, <2>1, <2>2, <2>3, <2>4, QuietOutcome DEF SameWorld
    <2>5. CASE /\ rooms[i].physics /\ ~Outdated(i, f) /\ HoldsLease(i)
               /\ checkpoint' = Stored(i, f) /\ rooms'[i].saved = f
      <3>1. f # None /\ checkpoint' # None /\ checkpoint'.end = f.end
        BY <1>0, <2>5, StoredTyped, NoneAssumption DEF Stored
      <3>2. /\ f.end # None => f.end = rooms[i].end
            /\ rooms[i].saved # None /\ rooms[i].saved.end # None => f.end = rooms[i].saved.end
        BY <1>0, <2>5, NewerEnd
      <3> HIDE DEF f
      <3> QED BY <1>0, <2>1, <2>2, <2>3, <2>5, <3>1, <3>2, StoresOutcome
    <2> QED BY <1>22, <1>0, <2>4, <2>5, ProtectFinalRoom
  <1>23. ASSUME NEW i \in Instances, Commit(i) PROVE OutcomeOK'
    <2>1. /\ rooms' = [rooms EXCEPT ![i].at = "committed"] /\ rooms[i].at = "committing"
          /\ UNCHANGED <<checkpoint, announced, lost>>
      BY <1>23, <1>0 DEF Commit, GoTo, At, redis, history
    <2>2. /\ OtherRooms(i) /\ SameClaim(rooms[i], rooms'[i]) /\ rooms'[i].physics = rooms[i].physics
          /\ rooms'[i].saved = rooms[i].saved /\ rooms'[i].end = rooms[i].end
          /\ rooms'[i].at = "committed"
      BY <1>0, <2>1, PlaceRoom, PositionNames DEF SameWorld, SameRun, SameFrames
    <2>3. Running(i) /\ Running(i)'
      BY <2>1, <2>2 DEF Running
    <2>4. CASE MayComplete(i) /\ Completed(i)
      BY <1>0, <2>1, <2>2, <2>3, <2>4, CommitsOutcome
    <2>5. CASE UNCHANGED mongo
      <3>1. Stays(i) /\ ~At(i, "restored")
        BY <2>1, <2>3 DEF Stays, At
      <3> QED BY <1>0, <2>1, <2>2, <2>5, <3>1, QuietOutcome DEF mongo
    <2> QED BY <1>23, <1>0, <2>4, <2>5 DEF Commit
  <1>24. ASSUME NEW i \in Instances, CommitFails(i) PROVE OutcomeOK'
    BY <1>24, <1>0, ResetOutcome DEF CommitFails, Close, mongo, redis, history
  <1>25. ASSUME NEW i \in Instances, ReleaseCheckpoint(i) PROVE OutcomeOK'
    BY <1>25, <1>0, ReleaseOutcome
  <1>26. ASSUME NEW i \in Instances, Leave(i) PROVE OutcomeOK'
    BY <1>26, <1>0, ResetOutcome DEF Leave, Close, mongo, redis, history
  <1>27. ASSUME NEW i \in Instances, LoseRoom(i) PROVE OutcomeOK'
    BY <1>27, <1>0, ResetOutcome DEF LoseRoom, mongo, redis, history
  <1>28. ASSUME NEW i \in Instances, Crash(i) PROVE OutcomeOK'
    BY <1>28, <1>0, ResetOutcome DEF Crash, mongo, redis, history
  <1>29. ASSUME NEW i \in Instances, CommitUnanswered(i) PROVE OutcomeOK'
    <2>1. /\ rooms' = [rooms EXCEPT ![i].at = "playing"] /\ rooms[i].at = "committing"
          /\ UNCHANGED <<checkpoint, announced, lost>>
      BY <1>29, <1>0 DEF CommitUnanswered, GoTo, At, redis, history
    <2>2. /\ OtherRooms(i) /\ SameClaim(rooms[i], rooms'[i]) /\ rooms'[i].physics = rooms[i].physics
          /\ rooms'[i].saved = rooms[i].saved /\ rooms'[i].end = rooms[i].end
          /\ rooms'[i].at = "playing"
      BY <1>0, <2>1, PlaceRoom, PositionNames DEF SameWorld, SameRun, SameFrames
    <2>3. Running(i) /\ Running(i)'
      BY <2>1, <2>2 DEF Running
    <2>4. MayComplete(i) /\ Completed(i)
      BY <1>29, <1>0 DEF CommitUnanswered
    <2> QED BY <1>0, <2>1, <2>2, <2>3, <2>4, CommitsOutcome
  <1>30. ASSUME NEW i \in Instances, NEW c \in Cancels, SaveTrigger(i, c) PROVE OutcomeOK'
    <2>1. /\ OtherRooms(i) /\ SameClaim(rooms[i], rooms'[i]) /\ rooms'[i].physics = rooms[i].physics
          /\ rooms'[i].saved = rooms[i].saved
          /\ rooms[i].end # None => rooms'[i].end = rooms[i].end
      BY <1>30, <1>0, SaveTriggerRoom DEF SaveTrigger, SameWorld, SameRun, SameFrames
    <2>2. Stays(i) /\ ~At(i, "restored")
      BY <1>30, <1>0, SaveTriggerRoom DEF Stays, SaveTrigger, Running, At
    <2>3. /\ owner'.generation = owner.generation /\ owner'.started = owner.started
          /\ owner'.completed = owner.completed
      BY <1>30, <1>0, TypedOwner DEF SaveTrigger, Owners, mongo
    <2>4. UNCHANGED <<result, checkpoint, lost, announced>>
      BY <1>30, <1>0 DEF SaveTrigger, mongo, redis, history
    <2> QED BY <1>0, <2>1, <2>2, <2>3, <2>4, QuietOutcome
  <1>31. ASSUME NEW i \in Instances, NEW c \in Cancels, HoldCancel(i, c) PROVE OutcomeOK'
    <2>1. /\ OtherRooms(i) /\ SameClaim(rooms[i], rooms'[i]) /\ rooms'[i].physics = rooms[i].physics
          /\ rooms'[i].saved = rooms[i].saved
          /\ rooms[i].end # None => rooms'[i].end = rooms[i].end
      BY <1>31, <1>0, HoldCancelRoom DEF HoldCancel, SameWorld, SameRun, SameFrames
    <2>2. Stays(i) /\ ~At(i, "restored")
      BY <1>31, <1>0, HoldCancelRoom DEF Stays, HoldCancel, Running, At
    <2>3. /\ owner'.generation = owner.generation /\ owner'.started = owner.started
          /\ owner'.completed = owner.completed
      BY <1>31, <1>0, TypedOwner DEF HoldCancel, Owners, mongo
    <2>4. UNCHANGED <<result, checkpoint, lost, announced>>
      BY <1>31, <1>0 DEF HoldCancel, mongo, redis, history
    <2> QED BY <1>0, <2>1, <2>2, <2>3, <2>4, QuietOutcome
  <1>32. ASSUME Lapse PROVE OutcomeOK'
    BY <1>32, <1>0, StillOutcome DEF Lapse, mongo, redis, history
  <1>33. ASSUME Expire PROVE OutcomeOK'
    BY <1>33, <1>0, StillOutcome DEF Expire, mongo, redis, history
  <1>34. ASSUME LoseCheckpoint PROVE OutcomeOK'
    BY <1>34, <1>0, StillOutcome DEF LoseCheckpoint, mongo, redis, history
  <1>35. ASSUME UNCHANGED vars PROVE OutcomeOK'
    BY <1>35, <1>0, StillOutcome DEF vars, mongo, redis, history
  <1> QED
    BY <1>1, <1>2, <1>3, <1>4, <1>5, <1>6, <1>7, <1>8, <1>9, <1>10, <1>11, <1>12,
       <1>13, <1>14, <1>15, <1>16, <1>17, <1>18, <1>19, <1>20, <1>21, <1>22, <1>23,
       <1>24, <1>25, <1>26, <1>27, <1>28, <1>29, <1>30, <1>31, <1>32, <1>33, <1>34,
       <1>35
    DEF Next, Step, Activate, Start, Play, Complete

-----------------------------------------------------------------------------
(* Theorems                                                                *)

\* Every variable keeps its type (RuntimeOwner, the room's fields, the lease and the
\* checkpoint in Redis).
THEOREM TypeCorrect == Spec => []TypeOK
  BY InitTypeOK, NextTypeOK, PTL DEF Spec

\* Initially there are no frames, ...
LEMMA InitFrames == Init => FramesOK
  <1> SUFFICES ASSUME Init, NEW i \in Instances PROVE OneRun(rooms[i]) /\ InPlace(rooms[i], result)
    BY DEF FramesOK
  <1>1. rooms[i] = Idle
    BY DEF Init
  <1> QED BY <1>1, IdleRun DEF InPlace, Idle

\* The frames of a room come from one run of its simulation (publishTickUpdates,
\* protectFinalCheckpoint).
THEOREM OneRunOfFrames == Spec => []FramesOK
  <1>1. Init => TypeOK /\ FramesOK
    BY InitTypeOK, InitFrames
  <1>2. TypeOK /\ FramesOK /\ [Next]_vars => (TypeOK /\ FramesOK)'
    BY NextTypeOK, NextFramesOK
  <1> QED BY <1>1, <1>2, PTL DEF Spec

\* ... no owner ...
LEMMA InitOwner == Init => OwnerInv
  <1> SUFFICES ASSUME Init PROVE OwnerInv
    OBVIOUS
  <1>1. \A i \in Instances : rooms[i].at = "idle"
    BY DEF Init, Idle
  <1>2. \A i \in Instances : ~Claimed(i) /\ ~Running(i) /\ ~Live(i)
                             /\ ~At(i, "leased") /\ ~At(i, "spawned") /\ ~At(i, "restored")
    BY <1>1 DEF Claimed, Running, Live, At
  <1>3. GenerationsOK /\ StartsOK
    BY <1>1, <1>2 DEF GenerationsOK, StartsOK, Current
  <1>4. WorldsOK
    BY <1>2 DEF Init, WorldsOK
  <1> QED BY <1>3, <1>4, InitTypeOK DEF OwnerInv

\* What keeps the match of a room single: generations are claimed one after the other
\* (ClaimRuntimeOwner), the start is recorded once (MarkRuntimeStarted) and there is
\* one world to see.
THEOREM OneOwner == Spec => [](OwnerInv /\ FramesOK)
  <1>1. Init => OwnerInv /\ FramesOK
    BY InitOwner, InitFrames
  <1>2. (OwnerInv /\ FramesOK) /\ [Next]_vars => (OwnerInv /\ FramesOK)'
    BY NextTypeOK, NextFramesOK, NextOwner DEF OwnerInv
  <1> QED BY <1>1, <1>2, PTL DEF Spec

\* Clients see the physics of one spawn only, for any number of instances, leases and
\* faults, and however often Redis loses the checkpoint (MarkRuntimeStarted,
\* restoreRuntime).
THEOREM OneWorldHolds == Spec => []OneWorld
  <1>1. OwnerInv => OneWorld
    <2> SUFFICES ASSUME OwnerInv PROVE TypeOK /\ Cardinality(worlds) <= 1
      BY DEF OneWorld
    <2>1. \A v, w \in worlds : v = w
      BY DEF OwnerInv, WorldsOK, Worlds
    <2>2. worlds = {} \/ \E w : worlds = {w}
      BY <2>1
    <2>3. Cardinality(worlds) = 0 \/ Cardinality(worlds) = 1
      BY <2>2, FS_EmptySet, FS_Singleton, Zenon
    <2> QED BY <2>3 DEF OwnerInv
  <1> QED BY <1>1, OneOwner, PTL

\* Only a claim gives the match another owner.
LEMMA OwnerMoves ==
  ASSUME TypeOK, [Next]_vars
  PROVE  owner'.generation = owner.generation \/ \E j \in Instances : Claim(j)
  <1>0. owner \in Owners
    BY TypedOwner
  <1>1. ASSUME NEW i \in Instances, Activate(i), ~Claim(i)
        PROVE  owner'.generation = owner.generation
    BY <1>1 DEF Activate, Read, Acquire, NotAcquired, ClaimFails, Open, mongo
  <1>2. ASSUME NEW i \in Instances, Start(i) PROVE owner'.generation = owner.generation
    BY <1>0, <1>2
    DEF Start, StartSession, Spawn, MarkStarted, MarkFails, Abandon, Restore, Resume, Owners,
        mongo
  <1>3. ASSUME NEW i \in Instances, Play(i) PROVE owner'.generation = owner.generation
    BY <1>3 DEF Play, Tick, Finish, Resync, NextUpdate, PublishUnsaved, PublishSaved,
      DropFrame, CancelRuntime, mongo
  <1>4. ASSUME NEW i \in Instances,
               Complete(i) \/ LoseRoom(i) \/ Crash(i) \/ CommitUnanswered(i)
        PROVE  owner'.generation = owner.generation
    BY <1>0, <1>4
    DEF Complete, ProtectFinal, Commit, CommitFails, ReleaseCheckpoint, Leave, LoseRoom, Crash,
      CommitUnanswered, Completed, Owners, mongo
  <1>5. ASSUME NEW i \in Instances, NEW c \in Cancels, SaveTrigger(i, c) \/ HoldCancel(i, c)
        PROVE  owner'.generation = owner.generation
    BY <1>0, <1>5 DEF SaveTrigger, HoldCancel, Owners, mongo
  <1>6. ASSUME Lapse \/ Expire \/ LoseCheckpoint \/ UNCHANGED vars
        PROVE  owner'.generation = owner.generation
    BY <1>6 DEF Lapse, Expire, LoseCheckpoint, vars, mongo
  <1> QED BY <1>1, <1>2, <1>3, <1>4, <1>5, <1>6 DEF Next, Step

\* No claim displaces an owner that still holds the lease (activateRoom,
\* ClaimRuntimeOwner): the claimant read the generation before it could take the lease.
THEOREM NotDisplaced == Spec => OwnerNotDisplaced
  <1>1. OwnerInv /\ [Next]_vars =>
          [\A i \in Instances :
             (Running(i) /\ HoldsLease(i) /\ OwnsGeneration(i)) =>
               owner'.generation = owner.generation]_vars
    <2> SUFFICES ASSUME OwnerInv, [Next]_vars, NEW i \in Instances,
                        Running(i), HoldsLease(i), OwnsGeneration(i)
                 PROVE  owner'.generation = owner.generation
      OBVIOUS
    <2>1. Claimed(i)
      BY DEF Claimed, Running
    <2>2. ASSUME NEW j \in Instances, Claim(j) PROVE FALSE
      BY <2>1, <2>2 DEF Claim, Claimable, OwnerInv, GenerationsOK
    <2> QED BY <2>2, OwnerMoves DEF OwnerInv
  <1> QED BY <1>1, OneOwner, PTL DEF Spec, OwnerNotDisplaced

\* Only the room that holds the lease stores a checkpoint, and none does when it has
\* released its own.
LEMMA CheckpointWritten ==
  ASSUME TypeOK, FramesOK, [Next]_vars, checkpoint = None, checkpoint' # None
  PROVE  \E i \in Instances : HoldsLease(i) /\ ~At(i, "closing")
  <1> SUFFICES ASSUME \A k \in Instances : HoldsLease(k) => At(k, "closing") PROVE FALSE
    OBVIOUS
  <1>0. \A i \in Instances : At(i, "closing") => rooms[i].released
    BY DEF FramesOK, InPlace, At
  <1>1. ASSUME NEW i \in Instances, Activate(i) PROVE FALSE
    BY <1>1 DEF Activate, Read, Acquire, NotAcquired, Claim, ClaimFails, Open, redis
  <1>2. ASSUME NEW i \in Instances, Start(i) PROVE FALSE
    BY <1>2
    DEF Start, StartSession, Spawn, MarkStarted, MarkFails, Abandon, Restore, Resume, At, redis
  <1>3. ASSUME NEW i \in Instances, Play(i) PROVE FALSE
    BY <1>0, <1>3 DEF Play, Tick, Finish, Resync, NextUpdate, PublishUnsaved, PublishSaved,
      DropFrame, CancelRuntime, redis
  <1>4. ASSUME NEW i \in Instances,
               Complete(i) \/ LoseRoom(i) \/ Crash(i) \/ CommitUnanswered(i)
        PROVE  FALSE
    BY <1>4 DEF Complete, ProtectFinal, Commit, CommitFails, ReleaseCheckpoint, Leave, LoseRoom,
      Crash, CommitUnanswered, At, redis
  <1>5. ASSUME NEW i \in Instances, NEW c \in Cancels, SaveTrigger(i, c) \/ HoldCancel(i, c)
        PROVE  FALSE
    BY <1>5 DEF SaveTrigger, HoldCancel, redis
  <1>6. ASSUME Lapse \/ Expire \/ LoseCheckpoint \/ UNCHANGED vars PROVE FALSE
    BY <1>6 DEF Lapse, Expire, LoseCheckpoint, vars, redis
  <1> QED BY <1>1, <1>2, <1>3, <1>4, <1>5, <1>6 DEF Next, Step

\* A frame still queued does not write the checkpoint of a completed match again
\* (releaseCheckpoint).
THEOREM NoGhost == Spec => NoGhostCheckpoint
  <1>1. (OwnerInv /\ FramesOK) /\ [Next]_vars =>
          [(checkpoint = None /\ \E i \in Instances : At(i, "closing") /\ HoldsLease(i))
             => checkpoint' = None]_vars
    <2> SUFFICES ASSUME OwnerInv, FramesOK, [Next]_vars, checkpoint = None,
                        NEW i \in Instances, At(i, "closing"), HoldsLease(i), checkpoint' # None
                 PROVE  FALSE
      OBVIOUS
    <2>1. PICK j \in Instances : HoldsLease(j) /\ ~At(j, "closing")
      BY CheckpointWritten DEF OwnerInv
    <2>2. [holder |-> i, id |-> rooms[i].lease].holder
            = [holder |-> j, id |-> rooms[j].lease].holder
      BY <2>1 DEF HoldsLease
    <2> QED BY <2>1, <2>2
  <1> QED BY <1>1, OneOwner, PTL DEF Spec, NoGhostCheckpoint

\* ... and no outcome.
LEMMA InitOutcome == Init => OutcomeInv
  <1> SUFFICES ASSUME Init PROVE OutcomeInv
    OBVIOUS
  <1>1. \A i \in Instances : rooms[i].at = "idle" /\ rooms[i].saved = None
    BY DEF Init, Idle
  <1>2. \A i \in Instances : ~Current(i)
    BY <1>1 DEF Current, Claimed
  <1>3. OutcomeOK
    BY <1>1, <1>2 DEF Init, OutcomeOK, ResultOK, EndsStand, Agreement
  <1> QED BY <1>3, InitOwner, InitFrames DEF OutcomeInv

\* Every end that was shown or stored is the one the last owner will commit.
THEOREM OneOutcome == Spec => []OutcomeInv
  <1>1. OutcomeInv /\ [Next]_vars => OutcomeInv'
    BY NextTypeOK, NextFramesOK, NextOwner, NextOutcome DEF OutcomeInv, OwnerInv
  <1> QED BY <1>1, InitOutcome, PTL DEF Spec

\* An end that clients were shown is the stored result, through crashes, lapsed leases,
\* cancels and lost replies, unless Redis lost a checkpoint (publishTickUpdates,
\* restoreRuntime, Complete).
THEOREM OutcomeStandsHolds == Spec => []OutcomeStands
  <1>1. OutcomeInv => OutcomeStands
    <2> SUFFICES ASSUME OutcomeInv, ~lost
                 PROVE  /\ Cardinality(announced) <= 1
                        /\ result # None => announced \subseteq {result}
      BY DEF OutcomeStands
    <2>1. \A e \in announced : Stands(e)
      BY DEF OutcomeInv, OutcomeOK, EndsStand
    <2>2. announced = {} \/ \E e : announced = {e}
      <3>1. \A e, g \in announced : e = g
        BY <2>1 DEF Stands
      <3> QED BY <3>1
    <2>3. Cardinality(announced) = 0 \/ Cardinality(announced) = 1
      BY <2>2, FS_EmptySet, FS_Singleton, Zenon
    <2> QED BY <2>1, <2>3 DEF Stands
  <1> QED BY <1>1, OneOutcome, PTL
=============================================================================
