----------------------------- MODULE RoomGateway -----------------------------
(***************************************************************************)
(* The sockets of one room (gateway.go, gatewayV2.go, admission.go) and    *)
(* what its owner publishes to them (roomPublish.go, room.go, tickHost.go):*)
(* a connection is admitted, joins its instance's hub, is listed as        *)
(* present, reads the session and becomes active, while sessions change,   *)
(* members leave the house, frames are played, the room changes its owner  *)
(* and a Redis subscription may fail.                                      *)
(*                                                                         *)
(* An instance holds one hub of the room at most.  Redis delivers what it  *)
(* accepted in order to every subscription until the subscription fails.   *)
(* A behaviour is a lobby, a turn game or a match (scene).  Commands and   *)
(* inputs appear by what they make the owner publish.                      *)
(***************************************************************************)
EXTENDS GatewayClient, FiniteSets

CONSTANTS
  Instances, Connections,
  InstanceOf,      \* the instance each connection is made to
  UserOf,          \* the user each connection belongs to
  MaxConnections,  \* limit of an instance
  Scenes           \* what is played, who connects, and the bounds

Users == {UserOf[c] : c \in Connections}

(* changes bounds commits, frames, revocations, resyncs, repeated binds and *)
(* idle rooms together, faults the owners, subscriptions and presences lost.*)
Scenarios ==
  [kind : {"lobby", "turn", "match"}, owner : Instances, connections : SUBSET Connections,
   changes : Nat, faults : Nat]

ASSUME GatewayAssumption ==
  /\ None \notin Instances \cup Connections
  /\ InstanceOf \in [Connections -> Instances]
  /\ MaxConnections \in Nat
  /\ Scenes \subseteq Scenarios

VARIABLES
  scene,
  stored,    \* MongoDB: the session's version
  members,   \* MongoDB: the house's members
  over,      \* MongoDB: the session is terminal
  room,      \* the owned room: who, epoch, what it is about to publish
  local,     \* per instance: an event accepted by Redis, not yet handed to local sockets
  hubs,      \* per instance: the registered hub, None without one
  arriving,  \* per connection: a subscription not yet turned into a hub
  stage,     \* per connection: how far its handler is
  read,      \* per connection: the version its handler read
  cl,        \* per connection: its gatewayClient
  presences, \* Redis: connections listed as present
  screen,    \* history: what each socket was written last, per kind
  published, \* history: the newest version and frame published
  changes, faults

store == <<stored, members, over>>
conns == <<arriving, stage, read, cl>>
vars == <<scene, store, room, local, hubs, conns, presences, screen, published, changes, faults>>

-----------------------------------------------------------------------------
(* Events and rooms                                                        *)

Targets == Connections \cup {None}
Event(m, source) == [message |-> m, to |-> None, among |-> {}, source |-> source]
Access(who, source) == [message |-> None, to |-> None, among |-> who, source |-> source]
Events == [message : Messages \cup {None}, to : Targets, among : SUBSET Users, source : Instances]

(* Mutant: a new owner announces nobody.                                   *)
NewRoomQuietly(owner, epoch, who) ==
  [owner |-> owner, epoch |-> epoch, sequence |-> 0, known |-> who, work |-> <<>>, frame |-> None]

(* work: events the lifecycle loop or the publisher still has to publish,  *)
(* in order.  frame: the runtime's newest periodic frame, not yet taken.   *)
NewRoom(owner, epoch, who) ==
  [owner |-> owner, epoch |-> epoch, sequence |-> 0, known |-> who,
   work |-> <<Access(who, owner)>>, frame |-> None]

Hub(c, queue) == [clients |-> {c}, running |-> TRUE, queue |-> queue]

Blank == [version |-> 0, board |-> 0, frame |-> <<0, 0>>, ended |-> FALSE, result |-> FALSE]

Init ==
  /\ scene \in Scenes
  /\ stored = 1 /\ members = Users /\ over = FALSE
  /\ room = [NewRoom(scene.owner, 1, Users) EXCEPT !.work = <<>>]
  /\ local = [i \in Instances |-> None]
  /\ hubs = [i \in Instances |-> None]
  /\ arriving = [c \in Connections |-> None]
  /\ stage = [c \in Connections |-> "idle"]
  /\ read = [c \in Connections |-> 0]
  /\ cl = [c \in Connections |-> NewClient(1)]
  /\ presences = {}
  /\ screen = [c \in Connections |-> Blank]
  /\ published = [version |-> 1, ended |-> {}]
  /\ changes = 0 /\ faults = 0

Change == changes < scene.changes /\ changes' = changes + 1
Fault == faults < scene.faults /\ faults' = faults + 1

Owned == room.owner # None
Registered == {c \in Connections : stage[c] \in {"subscribing", "joined", "read", "active", "resyncing"}}
InHub(c) == hubs[InstanceOf[c]] # None /\ c \in hubs[InstanceOf[c]].clients

-----------------------------------------------------------------------------
(* The owner                                                               *)

SessionEvent(version) == Event(Message("snapshot", 0, version), room.owner)

(* A membership read by the owner is announced when it differs from the    *)
(* one it knows.                                                           *)
Refreshed == IF room.known = members THEN <<>> ELSE <<Access(members, room.owner)>>

(* A lifecycle command or a deadline commits, the directory is refreshed   *)
(* and the new session is published.                                       *)
ProcessCommand ==
  /\ Owned /\ ~over /\ scene.kind # "match" /\ room.work = <<>> /\ local[room.owner] = None
  /\ Change
  /\ stored' = stored + 1
  /\ room' = [room EXCEPT !.known = members, !.work = Append(Refreshed, SessionEvent(stored + 1))]
  /\ UNCHANGED <<scene, members, over, local, hubs, conns, presences, screen, published, faults>>

RefreshParticipants ==
  /\ Owned /\ room.work = <<>> /\ local[room.owner] = None /\ room.known # members
  /\ room' = [room EXCEPT !.known = members, !.work = Refreshed]
  /\ UNCHANGED <<scene, store, local, hubs, conns, presences, screen, published, changes, faults>>

LeaveHouse(u) ==
  /\ u \in members /\ Change
  /\ members' = members \ {u}
  /\ UNCHANGED <<scene, stored, over, room, local, hubs, conns, presences, screen, published, faults>>

(* The runtime builds a frame; one nobody took yet is replaced.            *)
PublishFrame ==
  /\ Owned /\ scene.kind = "match" /\ ~over /\ Change
  /\ room' = [room EXCEPT !.sequence = @ + 1, !.frame = Message("frame", room.epoch, room.sequence + 1)]
  /\ UNCHANGED <<scene, store, local, hubs, conns, presences, screen, published, faults>>

(* The result is committed: the terminal session, the last frame and the   *)
(* result are announced, in that order.                                    *)
AnnounceCompletion ==
  /\ Owned /\ scene.kind = "match" /\ ~over /\ room.work = <<>> /\ local[room.owner] = None
  /\ over' = TRUE /\ stored' = stored + 1
  /\ room' = [room EXCEPT !.sequence = @ + 1,
                !.work = <<SessionEvent(stored + 1),
                           Event(Message("ended", room.epoch, room.sequence + 1), room.owner),
                           Event(Message("result", 0, 0), room.owner)>>]
  /\ UNCHANGED <<scene, members, local, hubs, conns, presences, screen, published, changes, faults>>

Periodic(e) == e.to = None /\ e.message # None /\ e.message.kind \in {"frame", "ended"}

(* A local answer and a frame nobody elsewhere watches skip Redis.  What   *)
(* the owner knows of who is present elsewhere is renewed in the           *)
(* background and may be outdated: remoteAudience may answer either.       *)
NeedsRedis(e) ==
  CASE e.to # None -> {~(InHub(e.to) /\ InstanceOf[e.to] = room.owner)}
    [] Periodic(e) -> BOOLEAN
    [] OTHER -> {TRUE}

(* Accepted by Redis, an event is in every subscription's queue.  The hub  *)
(* of the instance it came from ignores it there, so none is kept for it.  *)
Subscribed(e) ==
  /\ hubs' = [i \in Instances |->
                IF i # e.source /\ hubs[i] # None /\ hubs[i].running
                THEN [hubs[i] EXCEPT !.queue = Append(@, e)] ELSE hubs[i]]
  /\ arriving' = [c \in Connections |->
                    IF arriving[c] # None /\ InstanceOf[c] # e.source
                    THEN Append(arriving[c], e) ELSE arriving[c]]

Noticed(e) ==
  published' = IF e.message = None THEN published
               ELSE [published EXCEPT
                 !.version = IF e.message.kind = "snapshot" THEN e.message.n ELSE @,
                 !.ended = IF e.message.kind = "ended"
                           THEN {c \in Connections : cl[c].active /\ ~cl[c].stopped /\ InstanceOf[c] = room.owner} ELSE @]

(* publish: through Redis, fenced by the lease, unless nobody there needs  *)
(* it; then to this instance's sockets.                                    *)
Publish(e, rest) ==
  /\ local[room.owner] = None
  /\ local' = [local EXCEPT ![room.owner] = e]
  /\ \E needed \in NeedsRedis(e) : IF needed THEN Subscribed(e) ELSE UNCHANGED <<hubs, arriving>>
  /\ Noticed(e)
  /\ room' = rest
  /\ UNCHANGED <<scene, store, stage, read, cl, presences, screen, changes, faults>>

PublishWork == Owned /\ room.work # <<>> /\ Publish(Head(room.work), [room EXCEPT !.work = Tail(@)])
PublishLatest == Owned /\ room.frame # None /\ Publish(Event(room.frame, room.owner), [room EXCEPT !.frame = None])

(* The lease is lost, or Redis refuses an event: the room stops and what   *)
(* it had not published yet never is, nor is an input answered that was on *)
(* its way to it.  A terminal room ends.                                   *)
LoseRoom ==
  /\ Owned /\ Fault
  /\ room' = [room EXCEPT !.owner = None, !.work = <<>>, !.frame = None]
  /\ UNCHANGED <<scene, store, local, hubs, conns, presences, screen, published, changes>>

EndRoom ==
  /\ Owned /\ over /\ room.work = <<>> /\ local[room.owner] = None
  /\ room' = [room EXCEPT !.owner = None, !.frame = None]
  /\ UNCHANGED <<scene, store, local, hubs, conns, presences, screen, published, changes, faults>>

(* An empty lobby's room is given up; the next socket reopens it.          *)
IdleExpired ==
  /\ Owned /\ scene.kind = "lobby" /\ ~over /\ presences = {}
  /\ room.work = <<>> /\ local[room.owner] = None
  /\ Change
  /\ room' = [room EXCEPT !.owner = None]
  /\ UNCHANGED <<scene, store, local, hubs, conns, presences, screen, published, faults>>

(* EnsureRoom: a new owner announces the members once.                     *)
Taken(i) ==
  IF Owned \/ over THEN room ELSE NewRoom(i, room.epoch + 1, members)

EnsureRoom(i) ==
  /\ ~Owned /\ ~over
  /\ room' = Taken(i)
  /\ UNCHANGED <<scene, store, local, hubs, conns, presences, screen, published, changes, faults>>

-----------------------------------------------------------------------------
(* Fanout                                                                  *)

HandleEvent(c, e) ==
  LET client == cl[c] IN
  CASE client.stopped -> client
    [] e.message = None -> IF UserOf[c] \in e.among THEN client ELSE Stopped(client)
    [] e.message # None /\ e.message.kind = "snapshot" ->
         IF scene.kind = "turn" THEN Enqueue(Enqueue(client, e.message), Message("state", 0, e.message.n))
         ELSE Enqueue(client, e.message)
    [] e.message # None /\ e.message.kind \in {"frame", "ended"} ->
         EnqueueGameFrame(client, e.message, e.to # None)
    [] e.message # None /\ e.message.kind = "grant" -> Granted(client, e.message.epoch)
    [] OTHER -> Enqueue(client, e.message)

Reaches(e, c) == e.to \in {None, c}

Broadcast(i, e) ==
  cl' = [c \in Connections |-> IF hubs[i] # None /\ c \in hubs[i].clients /\ Reaches(e, c)
                               THEN HandleEvent(c, e) ELSE cl[c]]

DeliverLocal(i) ==
  /\ local[i] # None
  /\ Broadcast(i, local[i])
  /\ local' = [local EXCEPT ![i] = None]
  /\ UNCHANGED <<scene, store, room, hubs, arriving, stage, read, presences, screen, published, changes, faults>>

HubReceives(i) ==
  /\ hubs[i] # None /\ hubs[i].running /\ hubs[i].queue # <<>>
  /\ Broadcast(i, Head(hubs[i].queue))
  /\ hubs' = [hubs EXCEPT ![i].queue = Tail(@)]
  /\ UNCHANGED <<scene, store, room, local, arriving, stage, read, presences, screen, published, changes, faults>>

(* A subscription error disconnects the clients of the hub and ends its    *)
(* loop; the hub stays registered until they have left.                    *)
SubscriptionFails(i) ==
  /\ hubs[i] # None /\ hubs[i].running /\ Fault
  /\ hubs' = [hubs EXCEPT ![i].running = FALSE, ![i].queue = <<>>]
  /\ cl' = [c \in Connections |-> IF c \in hubs[i].clients THEN Stopped(cl[c]) ELSE cl[c]]
  /\ UNCHANGED <<scene, store, room, local, arriving, stage, read, presences, screen, published, changes>>

-----------------------------------------------------------------------------
(* A connection                                                            *)

Step(c, from, to) == stage[c] = from /\ stage' = [stage EXCEPT ![c] = to]

Held(i) == Cardinality({c \in Registered : InstanceOf[c] = i})
             + Cardinality({c \in Connections : stage[c] = "reserved" /\ InstanceOf[c] = i})

(* UpgradeMiddleware: a member of the house, a place, an owner of the room.*)
ReserveConnection(c) ==
  /\ UserOf[c] \in members /\ Held(InstanceOf[c]) < MaxConnections
  /\ ~over
  /\ room' = Taken(InstanceOf[c])
  /\ cl' = [cl EXCEPT ![c] = NewClient(room'.epoch)]
  /\ Step(c, "idle", "reserved")
  /\ UNCHANGED <<scene, store, local, hubs, arriving, read, presences, screen, published, changes, faults>>

(* The handshake took longer than the reservation lasts.                   *)
ReleaseReservation(c) ==
  /\ Step(c, "reserved", "closed")
  /\ UNCHANGED <<scene, store, room, local, hubs, arriving, read, cl, presences, screen, published, changes, faults>>

(* joinHub: the instance's hub, or a subscription of its own that becomes  *)
(* the hub unless another connection was faster.                           *)
JoinExistingHub(c) ==
  LET i == InstanceOf[c] IN
  /\ hubs[i] # None
  /\ Step(c, "reserved", "joined")
  /\ hubs' = [hubs EXCEPT ![i].clients = @ \cup {c}]
  /\ UNCHANGED <<scene, store, room, local, arriving, read, cl, presences, screen, published, changes, faults>>

Subscribe(c) ==
  /\ hubs[InstanceOf[c]] = None
  /\ Step(c, "reserved", "subscribing")
  /\ arriving' = [arriving EXCEPT ![c] = <<>>]
  /\ UNCHANGED <<scene, store, room, local, hubs, read, cl, presences, screen, published, changes, faults>>

SubscribeFails(c) ==
  /\ hubs[InstanceOf[c]] = None /\ Fault
  /\ Step(c, "reserved", "closed")
  /\ UNCHANGED <<scene, store, room, local, hubs, arriving, read, cl, presences, screen, published, changes>>

AddHub(c) ==
  LET i == InstanceOf[c] IN
  /\ Step(c, "subscribing", "joined")
  /\ hubs' = [hubs EXCEPT ![i] = IF @ = None THEN Hub(c, arriving[c]) ELSE [@ EXCEPT !.clients = @ \cup {c}]]
  /\ arriving' = [arriving EXCEPT ![c] = None]
  /\ UNCHANGED <<scene, store, room, local, read, cl, presences, screen, published, changes, faults>>

TouchPresence(c) == presences' = presences \cup {c}
RemovePresence(c) == presences' = presences \ {c}

(* Nobody lists a presence that was not touched for too long: one left     *)
(* behind, or one whose connection could not.                              *)
PresenceExpires(c) ==
  /\ c \in presences
  /\ IF stage[c] = "closed" THEN UNCHANGED faults ELSE Fault
  /\ RemovePresence(c)
  /\ UNCHANGED <<scene, store, room, local, hubs, conns, screen, published, changes>>

(* The connection is present, then GetGameSessionQuery reads the session,  *)
(* for a member.                                                           *)
ReadSession(c) ==
  /\ UserOf[c] \in members
  /\ Step(c, "joined", "read")
  /\ TouchPresence(c)
  /\ read' = [read EXCEPT ![c] = stored]
  /\ UNCHANGED <<scene, store, room, local, hubs, arriving, cl, screen, published, changes, faults>>

ActivateClient(c) ==
  /\ CanActivate(cl[c], read[c], scene.kind = "turn")
  /\ Step(c, "read", "active")
  /\ cl' = [cl EXCEPT ![c] = Activate(@, read[c], scene.kind = "turn")]
  /\ read' = [read EXCEPT ![c] = 0]
  /\ UNCHANGED <<scene, store, room, local, hubs, arriving, presences, screen, published, changes, faults>>

-----------------------------------------------------------------------------
(* An active connection                                                    *)

Running(c) == stage[c] \in {"active", "resyncing"} /\ ~cl[c].stopped

Shown(s, m) ==
  CASE m.kind = "snapshot" -> [s EXCEPT !.version = m.n]
    [] m.kind = "state" -> [s EXCEPT !.board = m.n]
    [] m.kind = "frame" -> [s EXCEPT !.frame = <<m.epoch, m.n>>]
    [] m.kind = "ended" -> [s EXCEPT !.frame = <<m.epoch, m.n>>, !.ended = TRUE]
    [] m.kind = "result" -> [s EXCEPT !.result = TRUE]
    [] OTHER -> s

(* writeLoop looks for something queued, then for either: a frame may go   *)
(* before what was queued between the two looks.                           *)
WriteQueued(c) ==
  /\ Running(c) /\ cl[c].outbound # <<>>
  /\ screen' = [screen EXCEPT ![c] = Shown(@, Head(cl[c].outbound))]
  /\ cl' = [cl EXCEPT ![c].outbound = Tail(@)]
  /\ UNCHANGED <<scene, store, room, local, hubs, arriving, stage, read, presences, published, changes, faults>>

WriteFrame(c) ==
  /\ Running(c) /\ cl[c].snapshots # None
  /\ screen' = [screen EXCEPT ![c] = Shown(@, cl[c].snapshots)]
  /\ cl' = [cl EXCEPT ![c].snapshots = None]
  /\ UNCHANGED <<scene, store, room, local, hubs, arriving, stage, read, presences, published, changes, faults>>

(* An input of this epoch that reaches the runtime is answered to its      *)
(* connection alone: a snapshot by a frame of its own, a bind by a grant.  *)
Answered(c, kinds) ==
  LET to(m) == [Event(m, room.owner) EXCEPT !.to = c] IN
  [room EXCEPT
     !.sequence = IF "snapshot" \in kinds THEN @ + 1 ELSE @,
     !.work = @ \o (IF "snapshot" \in kinds THEN <<to(Message("frame", room.epoch, room.sequence + 1))>> ELSE <<>>)
                \o (IF "bind" \in kinds THEN <<to(Message("grant", room.epoch, 0))>> ELSE <<>>)]

(* The gameplay bus keeps nothing it cannot deliver at once.               *)
Submitted(c, kinds) ==
  room' \in {room} \cup (IF Owned /\ ~over /\ cl[c].epoch = room.epoch THEN {Answered(c, kinds)} ELSE {})

Owed(client) ==
  (IF client.needSnapshot THEN {"snapshot"} ELSE {}) \cup (IF OwesBind(client) THEN {"bind"} ELSE {})

(* requestOwedControl, for a member whose access was verified again.       *)
RequestOwedControl(c) ==
  /\ Running(c) /\ scene.kind = "match" /\ Owed(cl[c]) # {}
  /\ IF UserOf[c] \in members THEN Submitted(c, Owed(cl[c])) ELSE room' = room
  /\ cl' = [cl EXCEPT ![c] = RequestsMade(@)]
  /\ UNCHANGED <<scene, store, local, hubs, arriving, stage, read, presences, screen, published, changes, faults>>

(* A second has passed since the last bind.                                *)
BindAgain(c) ==
  /\ cl[c].boundRecently /\ Change
  /\ cl' = [cl EXCEPT ![c].boundRecently = FALSE]
  /\ UNCHANGED <<scene, store, room, local, hubs, arriving, stage, read, presences, screen, published, faults>>

(* refreshPresence: a socket whose room has no owner elects its instance.  *)
RefreshPresence(c) ==
  /\ Running(c)
  /\ TouchPresence(c)
  /\ room' = Taken(InstanceOf[c])
  /\ cl' = IF Owned \/ over THEN cl ELSE [cl EXCEPT ![c] = Reelected(@, room'.epoch)]
  /\ UNCHANGED <<scene, store, local, hubs, arriving, stage, read, screen, published, changes, faults>>

(* The client asks for everything again: the session is read, then sent    *)
(* with its board, or in a match with a request for a frame and controls.  *)
Resync(c) ==
  /\ Running(c) /\ UserOf[c] \in members /\ Change
  /\ Step(c, "active", "resyncing")
  /\ read' = [read EXCEPT ![c] = stored]
  /\ UNCHANGED <<scene, store, room, local, hubs, arriving, cl, presences, screen, published, faults>>

Reply(c) ==
  /\ Running(c) /\ Step(c, "resyncing", "active")
  /\ LET replied == Enqueue(cl[c], Message("reply", 0, read[c])) IN
     cl' = [cl EXCEPT ![c] =
              CASE scene.kind = "turn" -> Enqueue(replied, Message("state", 0, read[c]))
                [] scene.kind = "match" -> Resynced(replied)
                [] OTHER -> replied]
  /\ IF scene.kind = "match" THEN Submitted(c, {"snapshot"}) ELSE room' = room
  /\ read' = [read EXCEPT ![c] = 0]
  /\ UNCHANGED <<scene, store, local, hubs, arriving, presences, screen, published, changes, faults>>

-----------------------------------------------------------------------------
(* The end of a connection                                                 *)

(* leaveHub: a hub is forgotten with its last client.                      *)
Left(hub, c) ==
  IF hub.clients = {c} THEN None ELSE [hub EXCEPT !.clients = @ \ {c}]

(* The socket closes or a step of the handler fails at any time; the loops *)
(* of a stopped client end.  Presence goes, unless a touch is on its way   *)
(* still, then the place in the hub, then the registration.                *)
Leave(c) ==
  LET i == InstanceOf[c] IN
  /\ stage[c] \in {"joined", "active", "resyncing"} \/ (stage[c] = "read" /\ ~CanActivate(cl[c], read[c], scene.kind = "turn"))
  /\ stage' = [stage EXCEPT ![c] = "closed"]
  /\ RemovePresence(c) \/ UNCHANGED presences
  /\ hubs' = [hubs EXCEPT ![i] = Left(@, c)]
  /\ cl' = [cl EXCEPT ![c] = NewClient(1)]
  /\ read' = [read EXCEPT ![c] = 0]
  /\ screen' = [screen EXCEPT ![c] = Blank]
  /\ UNCHANGED <<scene, store, room, local, arriving, published, changes, faults>>

-----------------------------------------------------------------------------
OwnerNext ==
  \/ ProcessCommand \/ RefreshParticipants \/ PublishFrame \/ AnnounceCompletion
  \/ PublishWork \/ PublishLatest \/ LoseRoom \/ EndRoom \/ IdleExpired
  \/ \E u \in Users : LeaveHouse(u)
  \/ \E i \in Instances : EnsureRoom(i)

FanoutNext == \E i \in Instances : DeliverLocal(i) \/ HubReceives(i) \/ SubscriptionFails(i)

ConnectionNext(c) ==
  \/ ReserveConnection(c) \/ ReleaseReservation(c)
  \/ JoinExistingHub(c) \/ Subscribe(c) \/ SubscribeFails(c) \/ AddHub(c) \/ ReadSession(c)
  \/ PresenceExpires(c) \/ ActivateClient(c) \/ WriteQueued(c) \/ WriteFrame(c) \/ RequestOwedControl(c)
  \/ BindAgain(c) \/ RefreshPresence(c) \/ Resync(c) \/ Reply(c) \/ Leave(c)

Next == OwnerNext \/ FanoutNext \/ \E c \in scene.connections : ConnectionNext(c)

Spec == Init /\ [][Next]_vars

-----------------------------------------------------------------------------
(* Properties                                                              *)

Stages == {"idle", "reserved", "subscribing", "joined",
           "read", "active", "resyncing", "closed"}

TypeOK ==
  /\ cl \in [Connections -> Clients] /\ stage \in [Connections -> Stages]
  /\ \A i \in Instances :
       /\ local[i] \in Events \cup {None}
       /\ hubs[i] # None => hubs[i].clients # {}
  /\ \A c \in Connections : stage[c] \in {"joined", "read", "active", "resyncing"} => InHub(c)

(* Everything published was handed to the hub of instance i.               *)
Settled(i) ==
  /\ \A j \in Instances : local[j] = None
  /\ hubs[i] # None => hubs[i].queue = <<>>

(* The hub's loop ended with its subscription: joinHub still adds          *)
(* connections to it until its last one has left, and they hear nothing    *)
(* from other instances.                                                   *)
Deaf(c) == hubs[InstanceOf[c]] # None /\ ~hubs[InstanceOf[c]].running

(* A connection that joined, read and became active in any order with what *)
(* was published misses nothing: once every event has arrived, it was      *)
(* given the newest published session.  The one exception is a connection  *)
(* that joined a hub whose loop had ended (PublishedArrives).              *)
NothingMissed ==
  \A c \in Connections :
    Running(c) /\ ~Deaf(c) /\ Settled(InstanceOf[c]) => cl[c].sessionVersion >= published.version

(* What ADR-014 promises without exception: an instance hands every event  *)
(* of the room to its connections, and those newer than the initial        *)
(* snapshot reach a new connection.  One that joins a hub whose loop has   *)
(* ended is told nothing, and nothing disconnects it: this does not hold.  *)
PublishedArrives ==
  \A c \in Connections :
    Running(c) /\ Settled(InstanceOf[c]) => cl[c].sessionVersion >= published.version

(* Once the owner's view of the house has been announced and has arrived,  *)
(* no socket of a user outside the house is open, whenever it was          *)
(* admitted; sockets in a hub whose loop has ended are excepted.           *)
RevokedAreDisconnected ==
  TypeOK /\ \A c \in Connections :
    Running(c) /\ ~Deaf(c) /\ Settled(InstanceOf[c])
      /\ Owned /\ room.work = <<>> /\ room.known = members
      => UserOf[c] \in members

(* Published sessions are shown in the order of their versions, whatever   *)
(* was read at joining; answers to a resync and boards are not compared.   *)
SessionNeverGoesBack ==
  [][\A c \in Connections : Running(c)' => screen'[c].version >= screen[c].version]_vars

(* A connection that was active at the owner's instance when the match's   *)
(* last frame was announced is shown it before the result.                 *)
EndedBeforeResult ==
  \A c \in published.ended : Running(c) /\ screen[c].result => screen[c].ended
=============================================================================
