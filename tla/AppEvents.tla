------------------------------ MODULE AppEvents ------------------------------
(***************************************************************************)
(* The application's events: infrastructure/appEvents, the Redis channel   *)
(* they travel on, and which command announces what (cmd/api/routes.go).   *)
(*                                                                         *)
(* A command commits its change, then looks up the members of the houses   *)
(* it changed and publishes. Every subscribed instance hands an event to   *)
(* its own sockets. An event says only that something has to be read       *)
(* again; a client reads everything when it is told it is ready, and what  *)
(* an event names when the event arrives. Of the data only what is out of  *)
(* date in a client's eyes is kept; `missed' records the changes that no   *)
(* event will ever announce, which the code accepts.                       *)
(*                                                                         *)
(* A house stands for its page, seen by its members; a user stands for     *)
(* their own profile and list of houses, seen by themselves.               *)
(***************************************************************************)
EXTENDS Naturals, Sequences, SequencesExt, FiniteSets

CONSTANTS
  Users, Houses,
  Instances, Commands,     \* commands that may be under way at a time
  Connections,             \* sockets a client may hold open
  MaxConnections,          \* maxConnections
  MaxConnectionsPerUser,   \* maxConnectionsPerUser
  QueueSize,               \* queueSize
  MaxChanges,              \* bound: commands ever committed
  MaxFaults,               \* bound: subscriptions lost, events not published
  MaxTroubles,             \* bound: commands and faults together
  Nobody                   \* the user of an unused socket

ASSUME AppEventsAssumption ==
  /\ {MaxConnections, MaxConnectionsPerUser, QueueSize} \subseteq Nat \ {0}
  /\ {MaxChanges, MaxFaults, MaxTroubles} \subseteq Nat
  /\ Users \cap Houses = {} /\ Nobody \notin Users
  /\ IsFiniteSet(Houses) /\ IsFiniteSet(Connections)
  /\ "user" \notin Houses   \* the kind of an event tells whom it is about

Things == Users \cup Houses

(* What a command has still to do. A house event is looked up, then sent. *)
Lookups == [do : {"lookup"}, house : Houses, listToo : BOOLEAN]
Events == [about : Houses \cup {"user"}, to : SUBSET Users]
Sends == [do : {"send"}, event : Events]
Removals == [do : {"remove"}, user : Users, houses : SUBSET Houses]

VARIABLES
  members,     \* members[h]: House.memberIds
  deleted,     \* users whose account has been removed
  todo,        \* todo[p]: what command p has still to do
  service,     \* service[i]: the Service of instance i and its subscription
  connection,  \* connection[c]: the socket c
  stale,       \* stale[c]: what has changed since the client of c read it
  missed,      \* history: what has changed and is never announced
  changes, faults

vars == <<members, deleted, todo, service, connection, stale, missed, changes, faults>>

Idle == [at |-> CHOOSE i \in Instances : TRUE, user |-> Nobody,
         state |-> "none", outbound |-> <<>>]

TypeOK ==
  /\ members \in [Houses -> SUBSET Users] /\ deleted \subseteq Users
  /\ \A p \in Commands :
       Range(todo[p]) \subseteq Lookups \cup Sends \cup Removals
  /\ \A i \in Instances :
       /\ service[i].subscription \in {"none", "live", "lost"}
       /\ {service[i].online, service[i].closed} \subseteq BOOLEAN
       /\ Range(service[i].events) \subseteq Events
  /\ \A c \in Connections :
       /\ connection[c].state \in {"none", "upgraded", "registered", "ready", "closing"}
       /\ connection[c].user \in Users \cup {Nobody}
       /\ Len(connection[c].outbound) <= QueueSize
  /\ stale \in [Connections -> SUBSET Things] /\ missed \subseteq Things
  /\ changes \in 0 .. MaxChanges /\ faults \in 0 .. MaxFaults

Clients(i) ==
  {c \in Connections : connection[c].at = i
                       /\ connection[c].state \in {"registered", "ready", "closing"}}
HousesOf(u) == {h \in Houses : u \in members[h]}

-----------------------------------------------------------------------------
(* Commands *)

LookupHouse(h, listToo) == [do |-> "lookup", house |-> h, listToo |-> listToo]
Send(about, to) == [do |-> "send", event |-> [about |-> about, to |-> to]]

(* Who sees a thing, once the members are m. *)
Audience(m, x) == IF x \in Houses THEN m[x] ELSE {x}

(* The data changes: the clients that have read it are out of date. *)
Changed(m, things) ==
  stale' = [c \in Connections |->
    IF connection[c].state = "ready"
      THEN stale[c] \cup {x \in things : connection[c].user \in Audience(m, x)}
      ELSE stale[c]]

MayChange == changes < MaxChanges /\ changes + faults < MaxTroubles
Fault == faults < MaxFaults /\ changes + faults < MaxTroubles /\ faults' = faults + 1

(* NotifyAfter: command p has succeeded and runs its notification. *)
Commits(p, m, things, notification) ==
  /\ MayChange /\ changes' = changes + 1
  /\ members' = m /\ Changed(m, things)
  /\ todo' = [todo EXCEPT ![p] = notification]
  /\ UNCHANGED <<service, connection, faults>>

Free(p) == todo[p] = <<>>

(* An announcement, a chore, a vote on one. *)
ChangeHouse(p, h) ==
  /\ Free(p) /\ members[h] # {}
  /\ Commits(p, members, {h}, <<LookupHouse(h, FALSE)>>)
  /\ UNCHANGED <<deleted, missed>>

(* A new name of the house: it is in its members' lists too. *)
UpdateHouseProfile(p, h) ==
  /\ Free(p) /\ members[h] # {}
  /\ Commits(p, members, {h} \cup members[h], <<LookupHouse(h, TRUE)>>)
  /\ UNCHANGED <<deleted, missed>>

JoinHouse(p, u, h) ==
  /\ Free(p) /\ u \notin members[h] \cup deleted
  /\ Commits(p, [members EXCEPT ![h] = @ \cup {u}], {h, u},
             <<LookupHouse(h, FALSE), Send("user", {u})>>)
  /\ UNCHANGED <<deleted, missed>>

ExitHouse(p, u, h) ==
  /\ Free(p) /\ u \in members[h]
  /\ Commits(p, [members EXCEPT ![h] = @ \ {u}], {h, u},
             <<LookupHouse(h, FALSE), Send("user", {u})>>)
  /\ UNCHANGED <<deleted, missed>>

LookupHouses(houses) ==
  [k \in 1 .. Cardinality(houses) |-> LookupHouse(SetToSeq(houses)[k], FALSE)]

UpdateProfile(p, u) ==
  /\ Free(p) /\ u \notin deleted
  /\ Commits(p, members, {u} \cup HousesOf(u),
             <<Send("user", {u})>> \o LookupHouses(HousesOf(u)))
  /\ UNCHANGED <<deleted, missed>>

(* NotifyDeleteUser reads the houses of the user before the user is        *)
(* removed, and goes on without them when they cannot be read; a removal a *)
(* provider asks for returns the houses it has left.                       *)
Listed(p, u, houses) ==
  todo' = [todo EXCEPT ![p] = <<[do |-> "remove", user |-> u, houses |-> houses]>>]

ListHouses(p, u) ==
  /\ Free(p) /\ u \notin deleted /\ MayChange
  /\ \/ Listed(p, u, HousesOf(u)) /\ UNCHANGED faults
     \/ Listed(p, u, {}) /\ Fault
  /\ UNCHANGED <<members, deleted, service, connection, stale, missed, changes>>

RemoveUser(p, u, listed) ==
  /\ u \notin deleted /\ deleted' = deleted \cup {u}
  /\ missed' = missed \cup (HousesOf(u) \ listed)
  /\ Commits(p, [h \in Houses |-> members[h] \ {u}], {u} \cup HousesOf(u),
             <<Send("user", {u})>> \o LookupHouses(listed))

DeleteUser(p) ==
  /\ ~Free(p) /\ Head(todo[p]).do = "remove"
  /\ RemoveUser(p, Head(todo[p]).user, Head(todo[p]).houses)

ProviderDataDeletion(p, u) == Free(p) /\ RemoveUser(p, u, HousesOf(u))

(* HouseChanged: the members at the time of the lookup are told. *)
HouseChanged(p) ==
  /\ ~Free(p) /\ Head(todo[p]).do = "lookup"
  /\ LET h == Head(todo[p]).house
         list == IF Head(todo[p]).listToo THEN <<Send("user", members[h])>> ELSE <<>>
     IN todo' = [todo EXCEPT ![p] = <<Send(h, members[h])>> \o list \o Tail(@)]
  /\ UNCHANGED <<members, deleted, service, connection, stale, missed, changes, faults>>

(* PublishAppEvent: every instance that is subscribed gets the event. *)
Publish(p) ==
  /\ ~Free(p) /\ Head(todo[p]).do = "send"
  /\ todo' = [todo EXCEPT ![p] = Tail(@)]
  /\ service' = [i \in Instances |->
       IF service[i].subscription = "live"
         THEN [service[i] EXCEPT !.events = Append(@, Head(todo[p]).event)]
         ELSE service[i]]
  /\ UNCHANGED <<members, deleted, connection, stale, missed, changes, faults>>

(* What is never announced when the rest of a command's notification is lost. *)
Announces(step) ==
  CASE step.do = "lookup" -> {step.house} \cup (IF step.listToo THEN Users ELSE {})
    [] step.do = "send" ->
         IF step.event.about = "user" THEN step.event.to ELSE {step.event.about}
    [] step.do = "remove" -> {}

(* The command fails before it has changed anything, or the instance dies, *)
(* Redis or the database do not answer in time: it is logged at most.      *)
Abandon(p) ==
  /\ ~Free(p) /\ Fault
  /\ missed' = missed \cup UNION {Announces(step) : step \in Range(todo[p])}
  /\ todo' = [todo EXCEPT ![p] = <<>>]
  /\ UNCHANGED <<members, deleted, service, connection, stale, changes>>

-----------------------------------------------------------------------------
(* The service of an instance *)

SameData == UNCHANGED <<members, deleted, todo, missed, changes>>

Confirmed(s) == [s EXCEPT !.subscription = "live", !.events = <<>>]
Ended(s) == [s EXCEPT !.subscription = "none", !.events = <<>>]

(* run: the subscription is confirmed, sockets are welcome. *)
Subscribe(i) ==
  /\ ~service[i].closed /\ service[i].subscription = "none"
  /\ service' = [service EXCEPT ![i] = [Confirmed(@) EXCEPT !.online = TRUE]]
  /\ UNCHANGED <<connection, stale, faults>> /\ SameData

(* The connection to Redis is gone; nobody has noticed yet. *)
LoseSubscription(i) ==
  /\ service[i].subscription = "live" /\ Fault
  /\ service' = [service EXCEPT ![i].subscription = "lost"]
  /\ UNCHANGED <<connection, stale>> /\ SameData

Closed(socket) == [socket EXCEPT !.state = "closing"]

DisconnectAll(i) ==
  connection' = [c \in Connections |->
    IF c \in Clients(i) THEN Closed(connection[c]) ELSE connection[c]]

(* consume returns on an error, whatever is still queued. *)
ConsumeEnds(i) ==
  /\ service[i].subscription = "lost"
  /\ service' = [service EXCEPT ![i] = [Ended(@) EXCEPT !.online = FALSE]]
  /\ DisconnectAll(i)
  /\ UNCHANGED <<stale, faults>> /\ SameData

CloseService(i) ==
  /\ ~service[i].closed /\ Fault
  /\ service' = [service EXCEPT
       ![i] = [Ended(@) EXCEPT !.closed = TRUE, !.online = FALSE]]
  /\ DisconnectAll(i)
  /\ UNCHANGED stale /\ SameData

\* Mutant of Delivered: an event that does not fit is dropped.
DeliveredOrDropped(socket, event) ==
  IF socket.user \notin event.to \/ Len(socket.outbound) = QueueSize THEN socket
  ELSE [socket EXCEPT !.outbound = Append(@, event.about)]

(* A socket that is too slow for its queue is closed. *)
Delivered(socket, event) ==
  IF socket.user \notin event.to THEN socket
  ELSE IF Len(socket.outbound) = QueueSize THEN Closed(socket)
  ELSE [socket EXCEPT !.outbound = Append(@, event.about)]

Deliver(i) ==
  /\ service[i].events # <<>>
  /\ service' = [service EXCEPT ![i].events = Tail(@)]
  /\ connection' = [c \in Connections |->
       IF c \in Clients(i) THEN Delivered(connection[c], Head(service[i].events))
                           ELSE connection[c]]
  /\ UNCHANGED <<stale, faults>> /\ SameData

-----------------------------------------------------------------------------
(* Sockets *)

Sockets == UNCHANGED <<service, faults>> /\ SameData

Available(i, u) ==
  /\ service[i].online /\ ~service[i].closed
  /\ Cardinality(Clients(i)) < MaxConnections
  /\ Cardinality({c \in Clients(i) : connection[c].user = u}) < MaxConnectionsPerUser

Upgrade(c, i, u) ==
  /\ connection[c].state = "none" /\ Available(i, u) /\ u \notin deleted
  /\ connection' = [connection EXCEPT
       ![c] = [at |-> i, user |-> u, state |-> "upgraded", outbound |-> <<>>]]
  /\ UNCHANGED stale /\ Sockets

\* Mutant of HandleConnection: the check of UpgradeMiddleware is trusted.
HandleConnectionAsUpgraded(c) ==
  /\ connection[c].state = "upgraded"
  /\ connection' = [connection EXCEPT ![c].state = "registered"]
  /\ UNCHANGED stale /\ Sockets

(* The limits are checked again, now together with the registration. *)
HandleConnection(c) ==
  /\ connection[c].state = "upgraded"
  /\ connection' = [connection EXCEPT ![c] =
       IF Available(@.at, @.user) THEN [@ EXCEPT !.state = "registered"] ELSE Idle]
  /\ UNCHANGED stale /\ Sockets

(* writeLoop: the client is told it is ready, and reads. *)
Ready(c) ==
  /\ connection[c].state = "registered"
  /\ connection' = [connection EXCEPT ![c].state = "ready"]
  /\ stale' = [stale EXCEPT ![c] = {}] /\ Sockets

Write(c) ==
  /\ connection[c].state = "ready" /\ connection[c].outbound # <<>>
  /\ LET about == Head(connection[c].outbound)
     IN stale' = [stale EXCEPT ![c] =
          @ \ {IF about = "user" THEN connection[c].user ELSE about}]
  /\ connection' = [connection EXCEPT ![c].outbound = Tail(@)]
  /\ Sockets

(* The client leaves, does not answer, or its token has expired. *)
Disconnect(c) ==
  /\ connection[c].state \in {"registered", "ready"}
  /\ connection' = [connection EXCEPT ![c] = Closed(@)]
  /\ UNCHANGED stale /\ Sockets

Unregister(c) ==
  /\ connection[c].state = "closing"
  /\ connection' = [connection EXCEPT ![c] = Idle]
  /\ stale' = [stale EXCEPT ![c] = {}] /\ Sockets

-----------------------------------------------------------------------------
Init ==
  /\ members \in [Houses -> SUBSET Users] /\ deleted = {}
  /\ todo = [p \in Commands |-> <<>>]
  /\ service = [i \in Instances |-> [online |-> FALSE, closed |-> FALSE,
                                     subscription |-> "none", events |-> <<>>]]
  /\ connection = [c \in Connections |-> Idle]
  /\ stale = [c \in Connections |-> {}] /\ missed = {}
  /\ changes = 0 /\ faults = 0

Next ==
  \/ \E p \in Commands, h \in Houses : ChangeHouse(p, h) \/ UpdateHouseProfile(p, h)
  \/ \E p \in Commands, u \in Users, h \in Houses :
       JoinHouse(p, u, h) \/ ExitHouse(p, u, h)
  \/ \E p \in Commands, u \in Users :
       UpdateProfile(p, u) \/ ListHouses(p, u) \/ ProviderDataDeletion(p, u)
  \/ \E p \in Commands : DeleteUser(p) \/ HouseChanged(p) \/ Publish(p) \/ Abandon(p)
  \/ \E i \in Instances :
       Subscribe(i) \/ LoseSubscription(i) \/ ConsumeEnds(i) \/ CloseService(i) \/ Deliver(i)
  \/ \E c \in Connections, i \in Instances, u \in Users : Upgrade(c, i, u)
  \/ \E c \in Connections :
       HandleConnection(c) \/ Ready(c) \/ Write(c) \/ Disconnect(c) \/ Unregister(c)

Spec == Init /\ [][Next]_vars

-----------------------------------------------------------------------------
(* Properties *)

(* An announcement of x is on its way to the client of c. *)
Told(c, event, x) ==
  /\ connection[c].user \in event.to
  /\ x = IF event.about = "user" THEN connection[c].user ELSE event.about

Coming(c, x) ==
  \/ \E p \in Commands : \E step \in Range(todo[p]) :
       \/ step.do = "lookup" /\ x = step.house
       \/ step.do = "lookup" /\ step.listToo /\ x \in members[step.house]
       \/ step.do = "send" /\ Told(c, step.event, x)
  \/ \E k \in DOMAIN service[connection[c].at].events :
       Told(c, service[connection[c].at].events[k], x)
  \/ \E k \in DOMAIN connection[c].outbound :
       x = IF connection[c].outbound[k] = "user" THEN connection[c].user
           ELSE connection[c].outbound[k]

(* A client whose socket stays open is not left with something it sees out *)
(* of date: an event about it is on its way, or the socket is about to be  *)
(* closed with all the others, whoever joins, leaves, subscribes, fills a  *)
(* queue or falls behind in between; except for what `missed' records.     *)
NobodyIsLeftStale ==
  \A c \in Connections :
    connection[c].state = "ready" /\ service[connection[c].at].subscription = "live"
      => \A x \in stale[c] \ missed :
           connection[c].user \in Audience(members, x) => Coming(c, x)

(* The sockets of a service never exceed its limits, though the check of   *)
(* UpgradeMiddleware and the registration are apart; and no open socket    *)
(* belongs to a service that receives no events and does not know it.      *)
AdmissionHolds ==
  \A i \in Instances :
    /\ Cardinality(Clients(i)) <= MaxConnections
    /\ \A u \in Users :
         Cardinality({c \in Clients(i) : connection[c].user = u}) <= MaxConnectionsPerUser
    /\ service[i].subscription = "none" =>
         \A c \in Clients(i) : connection[c].state = "closing"

(* The types, and the limits. *)
ServiceOK == TypeOK /\ AdmissionHolds
=============================================================================
