--------------------------- MODULE AppEventsProofs ---------------------------
(***************************************************************************)
(* No open client is left with something out of date, and a service stays  *)
(* within its limits, for any users, houses, instances, commands under way *)
(* and sockets, and queues of any size.                                    *)
(*                                                                         *)
(* An announcement goes through three queues: the rest of a command's      *)
(* notification, the events of a service, the outbound queue of a socket.  *)
(* Reaches says that one of them still holds an announcement of x for u;   *)
(* it reads the queues as sets, since the order does not matter to it.     *)
(***************************************************************************)
EXTENDS AppEvents, FiniteSetTheorems, TLAPS

Steps == Lookups \cup Sends \cup Removals
Abouts == Houses \cup {"user"}
States == {"none", "upgraded", "registered", "ready", "closing"}

\* A removal is announced only once it is done: it is a command's only step.
Announcements == Lookups \cup Sends
Notifications == Seq(Announcements) \cup {<<removal>> : removal \in Removals}

TodoOK == todo \in [Commands -> Notifications]

Services == [online : BOOLEAN, closed : BOOLEAN,
             subscription : {"none", "live", "lost"}, events : Seq(Events)]

\* Sockets are welcome only while there is a subscription.
ServicesOK ==
  /\ service \in [Instances -> Services]
  /\ \A i \in Instances : service[i].online => service[i].subscription # "none"

Socket == [at : Instances \cup {Idle.at}, user : Users \cup {Nobody},
           state : States, outbound : Seq(Abouts)]

SocketsOK ==
  /\ connection \in [Connections -> Socket]
  /\ \A c \in Connections :
       /\ Len(connection[c].outbound) <= QueueSize
       /\ connection[c].state # "none" =>
            connection[c].at \in Instances /\ connection[c].user \in Users

DataOK ==
  /\ members \in [Houses -> SUBSET Users] /\ deleted \subseteq Users
  /\ stale \in [Connections -> SUBSET Things] /\ missed \subseteq Things
  /\ changes \in 0 .. MaxChanges /\ faults \in 0 .. MaxFaults

(* u learns of x by one of the steps, the events or the entries of outbound. *)
Tells(u, event, x) ==
  u \in event.to /\ x = IF event.about = "user" THEN u ELSE event.about

StepTells(m, u, step, x) ==
  \/ step.do = "lookup" /\ x = step.house
  \/ step.do = "lookup" /\ step.listToo /\ x \in m[step.house]
  \/ step.do = "send" /\ Tells(u, step.event, x)

Reaches(m, td, events, outbound, u, x) ==
  \/ \E p \in Commands : \E step \in Range(td[p]) : StepTells(m, u, step, x)
  \/ \E event \in Range(events) : Tells(u, event, x)
  \/ \E about \in Range(outbound) : x = IF about = "user" THEN u ELSE about

\* What is out of date for the client of c will be announced to it.
Informed(c) ==
  connection[c].state = "ready" /\ service[connection[c].at].subscription = "live"
    => \A x \in stale[c] \ missed :
         connection[c].user \in Audience(members, x) =>
           Reaches(members, todo, service[connection[c].at].events,
                   connection[c].outbound, connection[c].user, x)

AllInformed == \A c \in Connections : Informed(c)

Typed == DataOK /\ TodoOK /\ ServicesOK /\ SocketsOK
Inv == Typed /\ AdmissionHolds /\ AllInformed


-----------------------------------------------------------------------------
(* Queues as sets *)

LEMMA RangeOfEmpty == Range(<<>>) = {}
BY DEF Range

LEMMA RangeOfOne == ASSUME NEW e PROVE Range(<<e>>) = {e}
BY DEF Range

LEMMA RangeOfAppend ==
  ASSUME NEW S, NEW s \in Seq(S), NEW e \in S
  PROVE  Range(Append(s, e)) = Range(s) \cup {e}
<1>1. \A k \in 1 .. Len(s) : Append(s, e)[k] = s[k]
  OBVIOUS
<1>2. DOMAIN Append(s, e) = 1 .. Len(s) + 1 /\ Append(s, e)[Len(s) + 1] = e
  OBVIOUS
<1>3. Len(s) \in Nat /\ DOMAIN s = 1 .. Len(s)
  OBVIOUS
<1> QED
  BY <1>1, <1>2, <1>3 DEF Range

LEMMA RangeOfConcat ==
  ASSUME NEW S, NEW s \in Seq(S), NEW t \in Seq(S)
  PROVE  Range(s \o t) = Range(s) \cup Range(t)
<1> DEFINE r == s \o t
<1>1. /\ Len(s) \in Nat /\ DOMAIN s = 1 .. Len(s)
      /\ Len(t) \in Nat /\ DOMAIN t = 1 .. Len(t)
      /\ DOMAIN r = 1 .. Len(s) + Len(t)
  OBVIOUS
<1>2. \A k \in 1 .. Len(s) : r[k] = s[k]
  OBVIOUS
<1>3. \A k \in 1 .. Len(t) : r[Len(s) + k] = t[k]
  OBVIOUS
<1> HIDE DEF r
<1>4. \A k \in DOMAIN r : k \in DOMAIN s \/ k - Len(s) \in DOMAIN t
  BY <1>1
<1>5. \A k \in DOMAIN r : r[k] \in Range(s) \cup Range(t)
  <2> SUFFICES ASSUME NEW k \in DOMAIN r PROVE r[k] \in Range(s) \cup Range(t)
    OBVIOUS
  <2>1. CASE k \in DOMAIN s
    BY <2>1, <1>1, <1>2 DEF Range
  <2>2. CASE k - Len(s) \in DOMAIN t
    <3>1. r[Len(s) + (k - Len(s))] = t[k - Len(s)] /\ Len(s) + (k - Len(s)) = k
      BY <2>2, <1>1, <1>3
    <3> QED
      BY <3>1, <2>2 DEF Range
  <2> QED
    BY <2>1, <2>2, <1>4
<1>6. \A k \in DOMAIN s : s[k] \in Range(r)
  BY <1>1, <1>2 DEF Range
<1>7. \A k \in DOMAIN t : t[k] \in Range(r)
  <2> SUFFICES ASSUME NEW k \in DOMAIN t PROVE t[k] \in Range(r)
    OBVIOUS
  <2>1. Len(s) + k \in DOMAIN r /\ r[Len(s) + k] = t[k]
    BY <1>1, <1>3
  <2> QED
    BY <2>1 DEF Range
<1>8. Range(r) = Range(s) \cup Range(t)
  <2>1. Range(r) \subseteq Range(s) \cup Range(t)
    BY <1>5 DEF Range
  <2>2. Range(s) \subseteq Range(r) /\ Range(t) \subseteq Range(r)
    BY <1>6, <1>7 DEF Range
  <2> QED
    BY <2>1, <2>2
<1> QED
  BY <1>8 DEF r

LEMMA RangeOfTail ==
  ASSUME NEW S, NEW s \in Seq(S), s # <<>>
  PROVE  /\ Head(s) \in S /\ Tail(s) \in Seq(S) /\ Len(Tail(s)) = Len(s) - 1
         /\ Range(s) = {Head(s)} \cup Range(Tail(s))
<1>1. /\ Len(s) \in Nat \ {0} /\ DOMAIN s = 1 .. Len(s) /\ Head(s) = s[1]
      /\ Tail(s) \in Seq(S) /\ Len(Tail(s)) = Len(s) - 1
      /\ DOMAIN Tail(s) = 1 .. Len(s) - 1
  OBVIOUS
<1>2. \A k \in 1 .. Len(s) - 1 : Tail(s)[k] = s[k + 1]
  OBVIOUS
<1>3. \A k \in DOMAIN s : s[k] \in {Head(s)} \cup Range(Tail(s))
  <2> SUFFICES ASSUME NEW k \in DOMAIN s, k # 1 PROVE s[k] \in Range(Tail(s))
    BY <1>1
  <2>1. k - 1 \in DOMAIN Tail(s) /\ Tail(s)[k - 1] = s[(k - 1) + 1] /\ (k - 1) + 1 = k
    BY <1>1, <1>2
  <2> QED
    BY <2>1 DEF Range
<1>4. \A k \in DOMAIN Tail(s) : Tail(s)[k] \in Range(s)
  <2> SUFFICES ASSUME NEW k \in DOMAIN Tail(s) PROVE Tail(s)[k] \in Range(s)
    OBVIOUS
  <2>1. k + 1 \in DOMAIN s /\ Tail(s)[k] = s[k + 1]
    BY <1>1, <1>2
  <2> QED
    BY <2>1 DEF Range
<1>5. Range(s) \subseteq {Head(s)} \cup Range(Tail(s))
  BY <1>3 DEF Range
<1>6. Range(Tail(s)) \subseteq Range(s)
  BY <1>4 DEF Range
<1>7. Head(s) \in Range(s) /\ Head(s) \in S
  BY <1>1 DEF Range
<1> QED
  BY <1>1, <1>5, <1>6, <1>7

LEMMA RangeInSet ==
  ASSUME NEW S, NEW s \in Seq(S) PROVE Range(s) \subseteq S
BY DEF Range

\* A finite set is listed completely.
LEMMA ListsTheSet ==
  ASSUME NEW S, IsFiniteSet(S)
  PROVE  /\ Cardinality(S) \in Nat /\ SetToSeq(S) \in [1 .. Cardinality(S) -> S]
         /\ \A x \in S : \E k \in 1 .. Cardinality(S) : SetToSeq(S)[k] = x
<1> DEFINE D == 1 .. Cardinality(S)
<1>1. Cardinality(S) \in Nat /\ ExistsBijection(D, S)
  BY FS_CardinalityType
<1>2. PICK f \in Bijection(D, S) : TRUE
  BY <1>1 DEF ExistsBijection
<1>3. f \in [D -> S] /\ IsInjective(f)
  BY <1>2 DEF Bijection, Injection, IsInjective
<1>4. SetToSeq(S) \in [D -> S] /\ IsInjective(SetToSeq(S))
  BY <1>3 DEF SetToSeq
<1>5. SetToSeq(S) \in Injection(D, S)
  BY <1>4 DEF Injection, IsInjective
<1>6. IsFiniteSet(D) /\ Cardinality(D) = Cardinality(S)
  BY <1>1, FS_Interval
<1>7. SetToSeq(S) \in Surjection(D, S)
  BY <1>5, <1>6, FS_Injection
<1> QED
  BY <1>1, <1>4, <1>7 DEF Surjection

-----------------------------------------------------------------------------
(* Notifications *)

LEMMA StepTypes ==
  /\ \A h \in Houses, l \in BOOLEAN : LookupHouse(h, l) \in Lookups
  /\ \A about \in Abouts, to \in SUBSET Users :
       Send(about, to) \in Sends /\ Send(about, to).event \in Events
  /\ Steps \subseteq Lookups \cup Sends \cup Removals
BY DEF LookupHouse, Send, Lookups, Sends, Events, Abouts, Steps

\* What a step of a notification is, by its kind.
LEMMA StepKinds ==
  ASSUME NEW step \in Steps
  PROVE  /\ step.do = "lookup" => /\ step \in Lookups /\ step.house \in Houses
                                  /\ step.listToo \in BOOLEAN
         /\ step.do = "send" => /\ step.event \in Events /\ step.event.about \in Abouts
                                /\ step.event.to \in SUBSET Users
         /\ step.do = "remove" => step.user \in Users /\ step.houses \in SUBSET Houses
         /\ step.do \in {"lookup", "send", "remove"}
BY DEF Steps, Lookups, Sends, Removals, Events, Abouts

\* A command has only steps to do.
LEMMA NotificationsAreSteps ==
  /\ Seq(Announcements) \subseteq Seq(Steps)
  /\ Notifications \subseteq Seq(Steps)
<1>1. Seq(Announcements) \subseteq Seq(Steps)
  <2>1. Announcements \subseteq Steps
    BY DEF Announcements, Steps
  <2> QED
    BY <2>1
<1>2. ASSUME NEW removal \in Removals PROVE <<removal>> \in Seq(Steps)
  BY DEF Steps
<1> QED
  BY <1>1, <1>2 DEF Notifications

LEMMA TodoIsSteps ==
  ASSUME Typed, NEW p \in Commands
  PROVE  todo[p] \in Seq(Steps) /\ Range(todo[p]) \subseteq Steps
<1>1. todo[p] \in Seq(Steps)
  BY NotificationsAreSteps DEF Typed, TodoOK
<1> QED
  BY <1>1, RangeInSet

\* The lookups of a finite set of houses tell of each of them.
LEMMA LookupsOfHouses ==
  ASSUME NEW houses \in SUBSET Houses
  PROVE  /\ LookupHouses(houses) \in Seq(Announcements)
         /\ \A h \in houses : \A u, m :
              \E step \in Range(LookupHouses(houses)) : StepTells(m, u, step, h)
<1> DEFINE n == Cardinality(houses)
           list == SetToSeq(houses)
           L == LookupHouses(houses)
<1>1. IsFiniteSet(houses)
  BY FS_Subset, AppEventsAssumption
<1>2. /\ n \in Nat /\ list \in [1 .. n -> houses]
      /\ \A h \in houses : \E k \in 1 .. n : list[k] = h
  BY <1>1, ListsTheSet
<1>3. L = [k \in 1 .. n |-> LookupHouse(list[k], FALSE)]
  BY DEF LookupHouses
<1> HIDE DEF n, list, L
<1>4. \A k \in 1 .. n : LookupHouse(list[k], FALSE) \in Announcements
  BY <1>2, StepTypes DEF Announcements
<1>5. L \in Seq(Announcements)
  <2>1. L \in [1 .. n -> Announcements]
    BY <1>3, <1>4
  <2>2. \A k \in Nat : \A s \in [1 .. k -> Announcements] : s \in Seq(Announcements)
    OBVIOUS
  <2> QED
    BY <1>2, <2>1, <2>2
<1>6. ASSUME NEW h \in houses, NEW u, NEW m
      PROVE  \E step \in Range(L) : StepTells(m, u, step, h)
  <2>1. PICK k \in 1 .. n : list[k] = h
    BY <1>2
  <2>2. k \in DOMAIN L /\ L[k] = LookupHouse(h, FALSE)
    BY <2>1, <1>3
  <2>3. L[k] \in Range(L)
    BY <2>2 DEF Range
  <2>4. StepTells(m, u, L[k], h)
    BY <2>2 DEF StepTells, LookupHouse
  <2> QED
    BY <2>3, <2>4
<1> QED
  BY <1>5, <1>6 DEF L

\* The first step of a command that is not free.
LEMMA FirstStep ==
  ASSUME Typed, NEW p \in Commands, ~Free(p)
  PROVE  /\ Head(todo[p]) \in Steps /\ Tail(todo[p]) \in Seq(Announcements)
         /\ Range(todo[p]) = {Head(todo[p])} \cup Range(Tail(todo[p]))
         /\ Head(todo[p]).do = "remove" => Tail(todo[p]) = <<>>
<1> DEFINE s == todo[p]
<1>1. s \in Seq(Steps) /\ s # <<>> /\ s \in Notifications
  BY TodoIsSteps DEF Typed, TodoOK, Free
<1> HIDE DEF s
<1>2. Head(s) \in Steps /\ Range(s) = {Head(s)} \cup Range(Tail(s))
  BY <1>1, RangeOfTail
<1>3. CASE s \in Seq(Announcements)
  <2>1. Head(s) \in Announcements /\ Tail(s) \in Seq(Announcements)
    BY <1>1, <1>3, RangeOfTail
  <2>2. Head(s).do # "remove"
    BY <2>1 DEF Announcements, Lookups, Sends
  <2> QED
    BY <1>2, <2>1, <2>2 DEF s
<1>4. CASE \E removal \in Removals : s = <<removal>>
  <2>1. Tail(s) = <<>> /\ <<>> \in Seq(Announcements)
    BY <1>4
  <2> QED
    BY <1>2, <2>1 DEF s
<1> QED
  BY <1>1, <1>3, <1>4 DEF Notifications

-----------------------------------------------------------------------------
(* Commands *)

LEMMA AdmissionUntouched ==
  ASSUME AdmissionHolds, UNCHANGED <<service, connection>>
  PROVE  AdmissionHolds'
BY DEF AdmissionHolds, Clients

LEMMA SocketsUntouched ==
  ASSUME SocketsOK, UNCHANGED connection
  PROVE  SocketsOK'
BY DEF SocketsOK

LEMMA ServicesUntouched ==
  ASSUME ServicesOK, UNCHANGED service
  PROVE  ServicesOK'
BY DEF ServicesOK

LEMMA CountsAreNatural ==
  /\ MaxChanges \in Nat /\ MaxFaults \in Nat /\ MaxTroubles \in Nat
  /\ MaxConnections \in Nat \ {0} /\ MaxConnectionsPerUser \in Nat \ {0}
  /\ QueueSize \in Nat \ {0}
BY AppEventsAssumption

LEMMA CommitsTyped ==
  ASSUME Typed, NEW p \in Commands, NEW m \in [Houses -> SUBSET Users],
         NEW things \in SUBSET Things, NEW n \in Seq(Announcements),
         Commits(p, m, things, n), deleted' \subseteq Users, missed' \subseteq Things
  PROVE  Typed'
<1>1. DataOK'
  <2>1. changes' \in 0 .. MaxChanges
    BY CountsAreNatural DEF Typed, DataOK, Commits, MayChange
  <2>2. stale' \in [Connections -> SUBSET Things]
    BY DEF Typed, DataOK, Commits, Changed
  <2> QED
    BY <2>1, <2>2 DEF Typed, DataOK, Commits
<1>2. TodoOK'
  <2>1. todo' = [todo EXCEPT ![p] = n]
    BY DEF Commits
  <2> QED
    BY <2>1 DEF Typed, TodoOK, Notifications
<1>3. ServicesOK' /\ SocketsOK'
  BY ServicesUntouched, SocketsUntouched DEF Typed, Commits
<1> QED
  BY <1>1, <1>2, <1>3 DEF Typed

\* A commit whose notification tells everyone who sees what has changed.
LEMMA CommitsInform ==
  ASSUME Typed, AllInformed,
         NEW p \in Commands, NEW m \in [Houses -> SUBSET Users],
         NEW things \in SUBSET Things, NEW n \in Seq(Announcements),
         Commits(p, m, things, n),
         \A step \in Range(todo[p]) : step.do = "remove",
         missed \subseteq missed',
         \A x \in things \ missed', u \in Users :
           u \in Audience(m, x) => \E step \in Range(n) : StepTells(m, u, step, x),
         \A h \in Houses \ things : m[h] = members[h],
         \A h \in Houses : members[h] \ m[h] \subseteq things
  PROVE  AllInformed'
<1> SUFFICES ASSUME NEW c \in Connections PROVE Informed(c)'
  BY DEF AllInformed
<1> DEFINE s == connection[c]
           events == service[s.at].events
<1>1. /\ todo' = [todo EXCEPT ![p] = n] /\ members' = m
      /\ service' = service /\ connection' = connection
  BY DEF Commits
<1>2. todo'[p] = n /\ \A q \in Commands \ {p} : todo'[q] = todo[q]
  BY <1>1 DEF Typed, TodoOK
<1> SUFFICES ASSUME s.state = "ready", service[s.at].subscription = "live",
                    NEW x \in stale'[c] \ missed', s.user \in Audience(m, x)
             PROVE  Reaches(m, todo', events, s.outbound, s.user, x)
  BY <1>1 DEF Informed
<1>3. s.user \in Users
  BY DEF Typed, SocketsOK
<1>4. stale'[c] = stale[c] \cup {y \in things : s.user \in Audience(m, y)}
  BY <1>1 DEF Commits, Changed
<1>5. CASE x \in things
  <2>1. PICK step \in Range(n) : StepTells(m, s.user, step, x)
    BY <1>3, <1>5
  <2> QED
    BY <1>2, <2>1 DEF Reaches
<1>6. CASE x \notin things
  <2>1. x \in stale[c] \ missed
    BY <1>4, <1>6
  <2>2. x \in Things
    BY <2>1 DEF Typed, DataOK
  <2>3. s.user \in Audience(members, x)
    BY <1>6, <2>2 DEF Audience, Things
  <2>4. Reaches(members, todo, events, s.outbound, s.user, x)
    BY <2>1, <2>3 DEF AllInformed, Informed
  <2>5. ASSUME NEW q \in Commands, NEW step \in Range(todo[q]),
               StepTells(members, s.user, step, x)
        PROVE  step \in Range(todo'[q]) /\ StepTells(m, s.user, step, x)
    <3>1. q # p
      BY <2>5 DEF StepTells
    <3>2. step \in Steps
      BY TodoIsSteps
    <3>3. CASE step.do = "lookup" /\ step.listToo /\ x \in members[step.house]
      <4>1. step.house \in Houses
        BY <3>2, <3>3, StepKinds
      <4>2. x \in m[step.house]
        BY <3>3, <4>1, <1>6
      <4> QED
        BY <1>2, <3>1, <3>3, <4>2 DEF StepTells
    <3>4. CASE \/ step.do = "lookup" /\ x = step.house
               \/ step.do = "send" /\ Tells(s.user, step.event, x)
      BY <1>2, <3>1, <3>4 DEF StepTells
    <3> QED
      BY <2>5, <3>3, <3>4 DEF StepTells
  <2> QED
    BY <2>4, <2>5 DEF Reaches
<1> QED
  BY <1>5, <1>6

LEMMA CommitsKeep ==
  ASSUME Inv,
         NEW p \in Commands, NEW m \in [Houses -> SUBSET Users],
         NEW things \in SUBSET Things, NEW n \in Seq(Announcements),
         Commits(p, m, things, n),
         \A step \in Range(todo[p]) : step.do = "remove",
         deleted' \subseteq Users, missed \subseteq missed', missed' \subseteq Things,
         \A x \in things \ missed', u \in Users :
           u \in Audience(m, x) => \E step \in Range(n) : StepTells(m, u, step, x),
         \A h \in Houses \ things : m[h] = members[h],
         \A h \in Houses : members[h] \ m[h] \subseteq things
  PROVE  Inv'
<1>1. Typed'
  BY CommitsTyped DEF Inv
<1>2. AllInformed'
  BY CommitsInform DEF Inv
<1>3. AdmissionHolds'
  BY AdmissionUntouched DEF Inv, Commits
<1> QED
  BY <1>1, <1>2, <1>3 DEF Inv

LEMMA FreeSaysNothing ==
  ASSUME NEW p, Free(p)
  PROVE  \A step \in Range(todo[p]) : step.do = "remove"
BY RangeOfEmpty DEF Free

LEMMA ShortLists ==
  ASSUME NEW S, NEW e \in S, NEW f \in S
  PROVE  /\ <<e>> \in Seq(S) /\ Range(<<e>>) = {e}
         /\ <<e, f>> \in Seq(S) /\ e \in Range(<<e, f>>) /\ f \in Range(<<e, f>>)
<1>1. DOMAIN <<e, f>> = {1, 2} /\ <<e, f>>[1] = e /\ <<e, f>>[2] = f
  OBVIOUS
<1>2. e \in Range(<<e, f>>) /\ f \in Range(<<e, f>>)
  BY <1>1 DEF Range
<1> QED
  BY <1>2, RangeOfOne

LEMMA UsersAreNotHouses ==
  \A u \in Users : u \notin Houses /\ u \in Things /\ \A m : Audience(m, u) = {u}
BY AppEventsAssumption DEF Audience, Things

LEMMA HousesHaveMembers ==
  \A h \in Houses : h \notin Users /\ h \in Things /\ \A m : Audience(m, h) = m[h]
BY AppEventsAssumption DEF Audience, Things

\* The announcement of a user reaches that user.
LEMMA SendTellsUser ==
  ASSUME NEW u, NEW to, u \in to, NEW m
  PROVE  StepTells(m, u, Send("user", to), u)
BY DEF StepTells, Send, Tells

LEMMA LookupTellsHouse ==
  ASSUME NEW h, NEW l, NEW u, NEW m
  PROVE  StepTells(m, u, LookupHouse(h, l), h)
BY DEF StepTells, LookupHouse

\* The special case of a commit that leaves the members as they are.
LEMMA ContentCommitsKeep ==
  ASSUME Inv,
         NEW p \in Commands, NEW things \in SUBSET Things, NEW n \in Seq(Announcements),
         Commits(p, members, things, n),
         \A step \in Range(todo[p]) : step.do = "remove",
         deleted' \subseteq Users, missed \subseteq missed', missed' \subseteq Things,
         \A x \in things \ missed', u \in Users :
           u \in Audience(members, x) =>
             \E step \in Range(n) : StepTells(members, u, step, x)
  PROVE  Inv'
<1> DEFINE m == members
<1>1. /\ m \in [Houses -> SUBSET Users] /\ Commits(p, m, things, n)
      /\ \A x \in things \ missed', u \in Users :
           u \in Audience(m, x) => \E step \in Range(n) : StepTells(m, u, step, x)
  BY DEF Inv, Typed, DataOK
<1>2. /\ \A h \in Houses \ things : m[h] = members[h]
      /\ \A h \in Houses : members[h] \ m[h] \subseteq things
  OBVIOUS
<1> HIDE DEF m
<1> QED
  BY <1>1, <1>2, CommitsKeep

LEMMA ChangeHouseKeeps ==
  ASSUME Inv, NEW p \in Commands, NEW h \in Houses, ChangeHouse(p, h)
  PROVE  Inv'
<1> DEFINE n == <<LookupHouse(h, FALSE)>>
<1>1. LookupHouse(h, FALSE) \in Announcements
  BY StepTypes DEF Announcements
<1>2. n \in Seq(Announcements) /\ Range(n) = {LookupHouse(h, FALSE)}
  BY <1>1, ShortLists
<1> HIDE DEF n
<1>3. /\ Free(p) /\ Commits(p, members, {h}, n)
      /\ deleted' = deleted /\ missed' = missed
  BY DEF ChangeHouse, n
<1>4. \A x \in {h} \ missed', u \in Users :
        u \in Audience(members, x) => \E step \in Range(n) : StepTells(members, u, step, x)
  BY <1>2, LookupTellsHouse
<1>5. /\ members \in [Houses -> SUBSET Users] /\ {h} \in SUBSET Things
      /\ deleted \subseteq Users /\ missed \subseteq Things
  BY HousesHaveMembers DEF Inv, Typed, DataOK
<1>6. \A step \in Range(todo[p]) : step.do = "remove"
  BY <1>3, FreeSaysNothing
<1>7. deleted' \subseteq Users /\ missed \subseteq missed' /\ missed' \subseteq Things
  BY <1>3, <1>5
<1> QED
  BY <1>2, <1>3, <1>4, <1>5, <1>6, <1>7, ContentCommitsKeep

LEMMA UpdateHouseProfileKeeps ==
  ASSUME Inv, NEW p \in Commands, NEW h \in Houses, UpdateHouseProfile(p, h)
  PROVE  Inv'
<1> DEFINE n == <<LookupHouse(h, TRUE)>>
           things == {h} \cup members[h]
<1>1. LookupHouse(h, TRUE) \in Announcements
  BY StepTypes DEF Announcements
<1>2. n \in Seq(Announcements) /\ Range(n) = {LookupHouse(h, TRUE)}
  BY <1>1, ShortLists
<1>3. /\ members \in [Houses -> SUBSET Users]
      /\ deleted \subseteq Users /\ missed \subseteq Things
  BY DEF Inv, Typed, DataOK
<1>4. things \in SUBSET Things
  BY <1>3, HousesHaveMembers, UsersAreNotHouses
<1> HIDE DEF n
<1>5. /\ Free(p) /\ Commits(p, members, things, n)
      /\ deleted' = deleted /\ missed' = missed
  BY DEF UpdateHouseProfile, n
<1>6. \A x \in things, u \in Users :
        u \in Audience(members, x) => StepTells(members, u, LookupHouse(h, TRUE), x)
  BY LookupTellsHouse DEF StepTells, LookupHouse
<1>7. \A x \in things \ missed', u \in Users :
        u \in Audience(members, x) => \E step \in Range(n) : StepTells(members, u, step, x)
  BY <1>2, <1>6
<1> HIDE DEF things
<1>8. \A step \in Range(todo[p]) : step.do = "remove"
  BY <1>5, FreeSaysNothing
<1>9. deleted' \subseteq Users /\ missed \subseteq missed' /\ missed' \subseteq Things
  BY <1>3, <1>5
<1> QED
  BY <1>2, <1>3, <1>4, <1>5, <1>7, <1>8, <1>9, ContentCommitsKeep

\* u joins or leaves h: both are announced, h to the members it has then.
LEMMA MembershipKeeps ==
  ASSUME Inv, NEW p \in Commands, NEW u \in Users, NEW h \in Houses,
         NEW now \in SUBSET Users, now \ {u} = members[h] \ {u}, Free(p),
         Commits(p, [members EXCEPT ![h] = now], {h, u},
                 <<LookupHouse(h, FALSE), Send("user", {u})>>),
         UNCHANGED <<deleted, missed>>
  PROVE  Inv'
<1> DEFINE n == <<LookupHouse(h, FALSE), Send("user", {u})>>
           m == [members EXCEPT ![h] = now]
<1>1. LookupHouse(h, FALSE) \in Announcements /\ Send("user", {u}) \in Announcements
  BY StepTypes DEF Announcements, Abouts
<1>2. n \in Seq(Announcements)
  BY <1>1, ShortLists
<1>3. LookupHouse(h, FALSE) \in Range(n) /\ Send("user", {u}) \in Range(n)
  BY <1>1, ShortLists
<1>4. /\ members \in [Houses -> SUBSET Users]
      /\ deleted \subseteq Users /\ missed \subseteq Things
  BY DEF Inv, Typed, DataOK
<1>5. {h, u} \in SUBSET Things
  BY HousesHaveMembers, UsersAreNotHouses
<1>6. /\ m \in [Houses -> SUBSET Users] /\ m[h] = now
      /\ \A g \in Houses \ {h} : m[g] = members[g]
  BY <1>4
<1> HIDE DEF n, m
<1>7. Commits(p, m, {h, u}, n)
  BY DEF n, m
<1>8. \A x \in {h, u} \ missed', v \in Users :
        v \in Audience(m, x) => \E step \in Range(n) : StepTells(m, v, step, x)
  <2>1. \A v : StepTells(m, v, LookupHouse(h, FALSE), h)
    BY LookupTellsHouse
  <2>2. StepTells(m, u, Send("user", {u}), u)
    BY SendTellsUser
  <2>3. \A v \in Users : v \in Audience(m, u) => v = u
    BY UsersAreNotHouses
  <2> QED
    BY <1>3, <2>1, <2>2, <2>3
<1>9. /\ \A g \in Houses \ {h, u} : m[g] = members[g]
      /\ \A g \in Houses : members[g] \ m[g] \subseteq {h, u}
  BY <1>6
<1> QED
  BY <1>2, <1>4, <1>5, <1>6, <1>7, <1>8, <1>9, FreeSaysNothing, CommitsKeep

LEMMA JoinHouseKeeps ==
  ASSUME Inv, NEW p \in Commands, NEW u \in Users, NEW h \in Houses, JoinHouse(p, u, h)
  PROVE  Inv'
<1> DEFINE now == members[h] \cup {u}
<1>1. members[h] \subseteq Users
  BY DEF Inv, Typed, DataOK
<1>2. now \in SUBSET Users /\ now \ {u} = members[h] \ {u}
  BY <1>1
<1>3. /\ Free(p) /\ UNCHANGED <<deleted, missed>>
      /\ Commits(p, [members EXCEPT ![h] = now], {h, u},
                 <<LookupHouse(h, FALSE), Send("user", {u})>>)
  BY DEF JoinHouse
<1> HIDE DEF now
<1> QED
  BY <1>2, <1>3, MembershipKeeps

LEMMA ExitHouseKeeps ==
  ASSUME Inv, NEW p \in Commands, NEW u \in Users, NEW h \in Houses, ExitHouse(p, u, h)
  PROVE  Inv'
<1> DEFINE now == members[h] \ {u}
<1>1. members[h] \subseteq Users
  BY DEF Inv, Typed, DataOK
<1>2. now \in SUBSET Users /\ now \ {u} = members[h] \ {u}
  BY <1>1
<1>3. /\ Free(p) /\ UNCHANGED <<deleted, missed>>
      /\ Commits(p, [members EXCEPT ![h] = now], {h, u},
                 <<LookupHouse(h, FALSE), Send("user", {u})>>)
  BY DEF ExitHouse
<1> HIDE DEF now
<1> QED
  BY <1>2, <1>3, MembershipKeeps

\* A user is announced to themselves and the houses are looked up.
LEMMA UserAndHouses ==
  ASSUME NEW u \in Users, NEW houses \in SUBSET Houses
  PROVE  LET n == <<Send("user", {u})>> \o LookupHouses(houses)
         IN  /\ n \in Seq(Announcements)
             /\ \A x \in {u} \cup houses, v \in Users : \A m :
                  v \in Audience(m, x) => \E step \in Range(n) : StepTells(m, v, step, x)
<1> DEFINE first == <<Send("user", {u})>>
           rest == LookupHouses(houses)
           n == first \o rest
<1>1. Send("user", {u}) \in Announcements
  BY StepTypes DEF Announcements, Abouts
<1>2. first \in Seq(Announcements) /\ Range(first) = {Send("user", {u})}
  BY <1>1, ShortLists
<1>3. /\ rest \in Seq(Announcements)
      /\ \A h \in houses : \A v, m : \E step \in Range(rest) : StepTells(m, v, step, h)
  BY LookupsOfHouses
<1> HIDE DEF first, rest
<1>4. n \in Seq(Announcements)
  BY <1>2, <1>3
<1>5. Range(n) = Range(first) \cup Range(rest)
  <2>1. \A s, t \in Seq(Announcements) : Range(s \o t) = Range(s) \cup Range(t)
    BY RangeOfConcat
  <2> QED
    BY <1>2, <1>3, <2>1
<1> HIDE DEF n
<1>6. ASSUME NEW x \in {u} \cup houses, NEW v \in Users, NEW m, v \in Audience(m, x)
      PROVE  \E step \in Range(n) : StepTells(m, v, step, x)
  <2>1. CASE x = u
    <3>1. v = u
      BY <1>6, <2>1, UsersAreNotHouses
    <3>2. StepTells(m, u, Send("user", {u}), u)
      BY SendTellsUser
    <3> QED
      BY <1>2, <1>5, <2>1, <3>1, <3>2
  <2>2. CASE x \in houses
    BY <1>3, <1>5, <2>2
  <2> QED
    BY <1>6, <2>1, <2>2
<1> QED
  BY <1>4, <1>6 DEF n, first, rest

LEMMA HousesOfAreHouses ==
  ASSUME NEW u
  PROVE  HousesOf(u) \in SUBSET Houses
BY DEF HousesOf

LEMMA UpdateProfileKeeps ==
  ASSUME Inv, NEW p \in Commands, NEW u \in Users, UpdateProfile(p, u)
  PROVE  Inv'
<1> DEFINE n == <<Send("user", {u})>> \o LookupHouses(HousesOf(u))
           things == {u} \cup HousesOf(u)
<1>1. /\ n \in Seq(Announcements)
      /\ \A x \in things, v \in Users : \A m :
           v \in Audience(m, x) => \E step \in Range(n) : StepTells(m, v, step, x)
  BY UserAndHouses, HousesOfAreHouses
<1>2. things \in SUBSET Things
  BY HousesOfAreHouses DEF Things
<1>3. /\ Free(p) /\ Commits(p, members, things, n)
      /\ deleted' = deleted /\ missed' = missed
  BY DEF UpdateProfile
<1>4. deleted \subseteq Users /\ missed \subseteq Things
  BY DEF Inv, Typed, DataOK
<1> HIDE DEF n, things
<1>5. \A x \in things \ missed', v \in Users :
        v \in Audience(members, x) => \E step \in Range(n) : StepTells(members, v, step, x)
  BY <1>1
<1>6. \A step \in Range(todo[p]) : step.do = "remove"
  BY <1>3, FreeSaysNothing
<1>7. deleted' \subseteq Users /\ missed \subseteq missed' /\ missed' \subseteq Things
  BY <1>3, <1>4
<1> QED
  BY <1>1, <1>2, <1>3, <1>5, <1>6, <1>7, ContentCommitsKeep

\* A removal announces the houses that were listed; the others are recorded
\* as missed.
LEMMA RemoveUserKeeps ==
  ASSUME Inv, NEW p \in Commands, NEW u \in Users, NEW listed \in SUBSET Houses,
         RemoveUser(p, u, listed), \A step \in Range(todo[p]) : step.do = "remove"
  PROVE  Inv'
<1> DEFINE n == <<Send("user", {u})>> \o LookupHouses(listed)
           things == {u} \cup HousesOf(u)
           m == [h \in Houses |-> members[h] \ {u}]
<1>1. /\ n \in Seq(Announcements)
      /\ \A x \in {u} \cup listed, v \in Users : \A now :
           v \in Audience(now, x) => \E step \in Range(n) : StepTells(now, v, step, x)
  BY UserAndHouses
<1>2. things \in SUBSET Things
  BY HousesOfAreHouses DEF Things
<1>3. /\ Commits(p, m, things, n)
      /\ deleted' = deleted \cup {u} /\ missed' = missed \cup (HousesOf(u) \ listed)
  BY DEF RemoveUser
<1>4. /\ members \in [Houses -> SUBSET Users]
      /\ deleted \subseteq Users /\ missed \subseteq Things
  BY DEF Inv, Typed, DataOK
<1>5. m \in [Houses -> SUBSET Users] /\ \A h \in Houses : m[h] = members[h] \ {u}
  BY <1>4
<1>6. /\ \A h \in Houses \ things : m[h] = members[h]
      /\ \A h \in Houses : members[h] \ m[h] \subseteq things
  BY <1>5 DEF HousesOf
<1> HIDE DEF n, m
<1>7. \A x \in things \ missed', v \in Users :
        v \in Audience(m, x) => \E step \in Range(n) : StepTells(m, v, step, x)
  <2>1. things \ missed' \subseteq {u} \cup listed
    BY <1>3
  <2> QED
    BY <1>1, <2>1
<1>8. deleted' \subseteq Users /\ missed \subseteq missed' /\ missed' \subseteq Things
  BY <1>3, <1>4, HousesOfAreHouses DEF Things
<1>9. n \in Seq(Announcements) /\ Commits(p, m, things, n)
  BY <1>1, <1>3
<1> HIDE DEF things
<1> QED
  BY <1>2, <1>5, <1>6, <1>7, <1>8, <1>9, CommitsKeep

LEMMA DeleteUserKeeps ==
  ASSUME Inv, NEW p \in Commands, DeleteUser(p)
  PROVE  Inv'
<1> DEFINE step == Head(todo[p])
<1>1. /\ ~Free(p) /\ step.do = "remove" /\ RemoveUser(p, step.user, step.houses)
  BY DEF DeleteUser
<1>2. /\ step \in Steps /\ Range(todo[p]) = {step} \cup Range(Tail(todo[p]))
      /\ Tail(todo[p]) = <<>>
  BY <1>1, FirstStep DEF Inv
<1>3. step.user \in Users /\ step.houses \in SUBSET Houses
  BY <1>1, <1>2, StepKinds
<1>4. \A s \in Range(todo[p]) : s.do = "remove"
  BY <1>1, <1>2, RangeOfEmpty
<1> QED
  BY <1>1, <1>3, <1>4, RemoveUserKeeps

LEMMA ProviderDataDeletionKeeps ==
  ASSUME Inv, NEW p \in Commands, NEW u \in Users, ProviderDataDeletion(p, u)
  PROVE  Inv'
<1>1. Free(p) /\ RemoveUser(p, u, HousesOf(u))
  BY DEF ProviderDataDeletion
<1> QED
  BY <1>1, FreeSaysNothing, HousesOfAreHouses, RemoveUserKeeps

\* A step of a notification: nobody who was to be told is forgotten.
LEMMA NotificationMoves ==
  ASSUME Inv, UNCHANGED <<members, deleted, service, connection, stale, changes>>,
         TodoOK', missed \subseteq missed', missed' \subseteq Things,
         faults' \in 0 .. MaxFaults,
         \A u \in Users, x \in Things \ missed', p \in Commands :
           \A step \in Range(todo[p]) :
             u \in Audience(members, x) /\ StepTells(members, u, step, x) =>
               \E q \in Commands : \E s \in Range(todo'[q]) : StepTells(members, u, s, x)
  PROVE  Inv'
<1>1. Typed'
  <2>1. DataOK'
    BY DEF Inv, Typed, DataOK
  <2> QED
    BY <2>1, ServicesUntouched, SocketsUntouched DEF Inv, Typed
<1>2. AdmissionHolds'
  BY AdmissionUntouched DEF Inv
<1>3. ASSUME NEW c \in Connections PROVE Informed(c)'
  <2> DEFINE s == connection[c]
             events == service[s.at].events
  <2> SUFFICES ASSUME s.state = "ready", service[s.at].subscription = "live",
                      NEW x \in stale[c] \ missed', s.user \in Audience(members, x)
               PROVE  Reaches(members, todo', events, s.outbound, s.user, x)
    BY DEF Informed
  <2>1. Reaches(members, todo, events, s.outbound, s.user, x)
    BY DEF Inv, AllInformed, Informed
  <2>2. s.user \in Users /\ x \in Things
    BY DEF Inv, Typed, SocketsOK, DataOK
  <2> QED
    BY <2>1, <2>2 DEF Reaches
<1> QED
  BY <1>1, <1>2, <1>3 DEF Inv, AllInformed

LEMMA FaultTyped ==
  ASSUME Inv, Fault
  PROVE  faults' \in 0 .. MaxFaults
BY CountsAreNatural DEF Inv, Typed, DataOK, Fault

LEMMA ListHousesKeeps ==
  ASSUME Inv, NEW p \in Commands, NEW u \in Users, ListHouses(p, u)
  PROVE  Inv'
<1>1. /\ Free(p) /\ (UNCHANGED faults \/ Fault)
      /\ UNCHANGED <<members, deleted, service, connection, stale, missed, changes>>
  BY DEF ListHouses
<1>2. PICK houses \in SUBSET Houses : Listed(p, u, houses)
  BY HousesOfAreHouses DEF ListHouses
<1> DEFINE step == [do |-> "remove", user |-> u, houses |-> houses]
<1>3. todo \in [Commands -> Notifications] /\ todo' = [todo EXCEPT ![p] = <<step>>]
  BY <1>2 DEF Inv, Typed, TodoOK, Listed
<1>4. TodoOK'
  <2>1. step \in Removals
    BY DEF Removals
  <2> HIDE DEF step
  <2> QED
    BY <1>1, <1>3, <2>1 DEF TodoOK, Notifications
<1>5. \A q \in Commands : q # p => todo'[q] = todo[q]
  BY <1>3
<1>6. \A v \in Users, x \in Things \ missed', q \in Commands :
        \A s \in Range(todo[q]) :
          v \in Audience(members, x) /\ StepTells(members, v, s, x) =>
            \E r \in Commands : \E t \in Range(todo'[r]) : StepTells(members, v, t, x)
  <2>1. Range(todo[p]) = {}
    BY <1>1, RangeOfEmpty DEF Free
  <2> QED
    BY <1>5, <2>1
<1>7. faults' \in 0 .. MaxFaults
  BY <1>1, FaultTyped DEF Inv, Typed, DataOK
<1>8. missed' \subseteq Things
  BY <1>1 DEF Inv, Typed, DataOK
<1> QED
  BY <1>1, <1>4, <1>6, <1>7, <1>8, NotificationMoves

\* The members at the time of the lookup are those who see the house.
LEMMA HouseChangedKeeps ==
  ASSUME Inv, NEW p \in Commands, HouseChanged(p)
  PROVE  Inv'
<1> DEFINE step == Head(todo[p])
           h == step.house
           list == IF step.listToo THEN <<Send("user", members[h])>> ELSE <<>>
           first == <<Send(h, members[h])>>
           now == first \o list \o Tail(todo[p])
<1>1. /\ ~Free(p) /\ step.do = "lookup" /\ todo' = [todo EXCEPT ![p] = now]
      /\ UNCHANGED <<members, deleted, service, connection, stale, missed, changes, faults>>
  BY DEF HouseChanged
<1>2. /\ step \in Steps /\ Tail(todo[p]) \in Seq(Announcements)
      /\ Range(todo[p]) = {step} \cup Range(Tail(todo[p]))
  BY <1>1, FirstStep DEF Inv
<1>3. h \in Houses /\ members[h] \in SUBSET Users
  BY <1>1, <1>2, StepKinds DEF Inv, Typed, DataOK
<1>4. Send(h, members[h]) \in Announcements /\ Send("user", members[h]) \in Announcements
  BY <1>3, StepTypes DEF Announcements, Abouts
<1>5. first \in Seq(Announcements) /\ Range(first) = {Send(h, members[h])}
  BY <1>4, ShortLists
<1>6. /\ list \in Seq(Announcements)
      /\ step.listToo => Range(list) = {Send("user", members[h])}
  <2>1. <<Send("user", members[h])>> \in Seq(Announcements)
        /\ Range(<<Send("user", members[h])>>) = {Send("user", members[h])}
    <3>1. \A e \in Announcements : <<e>> \in Seq(Announcements) /\ Range(<<e>>) = {e}
      BY ShortLists
    <3> QED
      BY <1>4, <3>1
  <2>2. <<>> \in Seq(Announcements)
    OBVIOUS
  <2> QED
    BY <2>1, <2>2
<1>7. first \o list \in Seq(Announcements) /\ now \in Seq(Announcements)
      /\ Range(now) = Range(first) \cup Range(list) \cup Range(Tail(todo[p]))
  <2> HIDE DEF first, list
  <2>1. \A s, t \in Seq(Announcements) : s \o t \in Seq(Announcements)
                                 /\ Range(s \o t) = Range(s) \cup Range(t)
    BY RangeOfConcat
  <2>2. first \o list \in Seq(Announcements) /\ Range(first \o list) = Range(first) \cup Range(list)
    BY <1>5, <1>6, <2>1
  <2> QED
    BY <1>2, <2>1, <2>2
<1> HIDE DEF first, list, now
<1>8. TodoOK'
  BY <1>1, <1>7 DEF Inv, Typed, TodoOK, Notifications
<1>9. todo'[p] = now /\ \A q \in Commands : q # p => todo'[q] = todo[q]
  BY <1>1 DEF Inv, Typed, TodoOK
<1>10. ASSUME NEW u \in Users, NEW x \in Things \ missed', u \in Audience(members, x),
              StepTells(members, u, step, x)
       PROVE  \E s \in Range(now) : StepTells(members, u, s, x)
  <2>1. CASE x = h
    <3>1. u \in members[h] /\ h # "user"
      BY <1>3, <1>10, <2>1, AppEventsAssumption, HousesHaveMembers
    <3>2. StepTells(members, u, Send(h, members[h]), x)
      BY <2>1, <3>1 DEF StepTells, Tells, Send
    <3> QED
      BY <1>5, <1>7, <3>2
  <2>2. CASE step.listToo /\ x \in members[h]
    <3>1. x \in Users /\ x = u
      BY <1>3, <1>10, <2>2, UsersAreNotHouses
    <3>2. StepTells(members, u, Send("user", members[h]), x)
      BY <2>2, <3>1, SendTellsUser
    <3> QED
      BY <1>6, <1>7, <2>2, <3>2
  <2> QED
    BY <1>1, <1>10, <2>1, <2>2 DEF StepTells
<1>11. \A u \in Users, x \in Things \ missed', q \in Commands :
        \A s \in Range(todo[q]) :
          u \in Audience(members, x) /\ StepTells(members, u, s, x) =>
            \E r \in Commands : \E t \in Range(todo'[r]) : StepTells(members, u, t, x)
  <2> SUFFICES ASSUME NEW u \in Users, NEW x \in Things \ missed', NEW q \in Commands,
                      NEW s \in Range(todo[q]), u \in Audience(members, x),
                      StepTells(members, u, s, x)
               PROVE  \E r \in Commands : \E t \in Range(todo'[r]) : StepTells(members, u, t, x)
    OBVIOUS
  <2>1. CASE q = p /\ s = step
    BY <1>9, <1>10, <2>1
  <2>2. CASE q = p /\ s # step
    BY <1>2, <1>7, <1>9, <2>2
  <2>3. CASE q # p
    BY <1>9, <2>3
  <2> QED
    BY <2>1, <2>2, <2>3
<1>12. missed' \subseteq Things /\ faults' \in 0 .. MaxFaults
  BY <1>1 DEF Inv, Typed, DataOK
<1> QED
  BY <1>1, <1>8, <1>11, <1>12, NotificationMoves

\* What an abandoned step would have told is what it announces.
LEMMA AnnouncesWhatItTells ==
  ASSUME NEW step \in Steps, members \in [Houses -> SUBSET Users]
  PROVE  /\ Announces(step) \subseteq Things
         /\ \A u \in Users : \A x : StepTells(members, u, step, x) => x \in Announces(step)
<1>1. CASE step.do = "lookup"
  <2>1. Announces(step) = {step.house} \cup (IF step.listToo THEN Users ELSE {})
    BY <1>1 DEF Announces
  <2>2. step.house \in Houses /\ members[step.house] \subseteq Users
    BY <1>1, StepKinds
  <2> QED
    BY <1>1, <2>1, <2>2 DEF StepTells, Things
<1>2. CASE step.do = "send"
  <2>1. Announces(step) = IF step.event.about = "user" THEN step.event.to
                                                       ELSE {step.event.about}
    BY <1>2 DEF Announces
  <2>2. step.event.about \in Abouts /\ step.event.to \in SUBSET Users
    BY <1>2, StepKinds
  <2> QED
    BY <1>2, <2>1, <2>2 DEF StepTells, Tells, Things, Abouts
<1>3. CASE step.do = "remove"
  BY <1>3 DEF Announces, StepTells
<1> QED
  BY <1>1, <1>2, <1>3, StepKinds

LEMMA AbandonKeeps ==
  ASSUME Inv, NEW p \in Commands, Abandon(p)
  PROVE  Inv'
<1>1. /\ Fault /\ todo' = [todo EXCEPT ![p] = <<>>]
      /\ missed' = missed \cup UNION {Announces(step) : step \in Range(todo[p])}
      /\ UNCHANGED <<members, deleted, service, connection, stale, changes>>
  BY DEF Abandon
<1>2. todo \in [Commands -> Notifications] /\ members \in [Houses -> SUBSET Users]
      /\ missed \subseteq Things
  BY DEF Inv, Typed, TodoOK, DataOK
<1>3. Range(todo[p]) \subseteq Steps
  BY TodoIsSteps DEF Inv
<1>4. /\ \A step \in Range(todo[p]) : Announces(step) \subseteq Things
      /\ \A step \in Range(todo[p]), u \in Users : \A x :
           StepTells(members, u, step, x) => x \in missed'
  BY <1>1, <1>2, <1>3, AnnouncesWhatItTells
<1>5. missed \subseteq missed' /\ missed' \subseteq Things
  BY <1>1, <1>2, <1>4
<1>6. TodoOK'
  <2>1. <<>> \in Seq(Announcements)
    OBVIOUS
  <2> QED
    BY <1>1, <1>2, <2>1 DEF TodoOK, Notifications
<1>7. \A q \in Commands : q # p => todo'[q] = todo[q]
  BY <1>1, <1>2
<1>8. \A u \in Users, x \in Things \ missed', q \in Commands :
        \A step \in Range(todo[q]) :
          u \in Audience(members, x) /\ StepTells(members, u, step, x) =>
            \E r \in Commands : \E s \in Range(todo'[r]) : StepTells(members, u, s, x)
  BY <1>4, <1>7
<1> QED
  BY <1>1, <1>5, <1>6, <1>8, FaultTyped, NotificationMoves

\* Every live service has the event once the step is done.
LEMMA PublishKeeps ==
  ASSUME Inv, NEW p \in Commands, Publish(p)
  PROVE  Inv'
<1> DEFINE step == Head(todo[p])
           event == step.event
<1>1. /\ ~Free(p) /\ step.do = "send" /\ todo' = [todo EXCEPT ![p] = Tail(todo[p])]
      /\ service' = [i \in Instances |->
           IF service[i].subscription = "live"
             THEN [service[i] EXCEPT !.events = Append(@, event)]
             ELSE service[i]]
      /\ UNCHANGED <<members, deleted, connection, stale, missed, changes, faults>>
  BY DEF Publish
<1>2. /\ step \in Steps /\ Tail(todo[p]) \in Seq(Announcements)
      /\ Range(todo[p]) = {step} \cup Range(Tail(todo[p]))
  BY <1>1, FirstStep DEF Inv
<1>3. event \in Events
  BY <1>1, <1>2, StepKinds
<1> HIDE DEF event
<1>4. ASSUME NEW i \in Instances
      PROVE  /\ service'[i] \in Services
             /\ service'[i].subscription = service[i].subscription
             /\ service'[i].online = service[i].online
             /\ service[i].subscription # "live" => service'[i] = service[i]
             /\ service[i].subscription = "live" =>
                  Range(service'[i].events) = Range(service[i].events) \cup {event}
  <2>1. service[i] \in Services
    BY DEF Inv, Typed, ServicesOK
  <2>2. service[i].events \in Seq(Events)
    BY <2>1 DEF Services
  <2>3. CASE service[i].subscription = "live"
    <3>1. service'[i] = [service[i] EXCEPT !.events = Append(service[i].events, event)]
      BY <1>1, <2>3
    <3>2. Append(service[i].events, event) \in Seq(Events)
      BY <1>3, <2>2
    <3>3. Range(Append(service[i].events, event)) = Range(service[i].events) \cup {event}
      BY <1>3, <2>2, RangeOfAppend
    <3>4. service'[i] \in Services /\ service'[i].events = Append(service[i].events, event)
          /\ service'[i].subscription = service[i].subscription
          /\ service'[i].online = service[i].online
      BY <2>1, <3>1, <3>2 DEF Services
    <3> QED
      BY <2>3, <3>3, <3>4
  <2>4. CASE service[i].subscription # "live"
    BY <1>1, <2>1, <2>4
  <2> QED
    BY <2>3, <2>4
<1>5. Typed'
  <2>1. DataOK'
    BY <1>1 DEF Inv, Typed, DataOK
  <2>2. TodoOK'
    BY <1>1, <1>2 DEF Inv, Typed, TodoOK, Notifications
  <2>3. ServicesOK'
    <3>1. service' \in [Instances -> Services]
      BY <1>1, <1>4
    <3> QED
      BY <3>1, <1>4 DEF Inv, Typed, ServicesOK
  <2>4. SocketsOK'
    BY <1>1, SocketsUntouched DEF Inv, Typed
  <2> QED
    BY <2>1, <2>2, <2>3, <2>4 DEF Typed
<1>6. AdmissionHolds'
  BY <1>1, <1>4 DEF Inv, AdmissionHolds, Clients
<1>7. todo'[p] = Tail(todo[p]) /\ \A q \in Commands : q # p => todo'[q] = todo[q]
  BY <1>1 DEF Inv, Typed, TodoOK
<1>8. ASSUME NEW c \in Connections PROVE Informed(c)'
  <2> DEFINE s == connection[c]
  <2> SUFFICES ASSUME s.state = "ready", service'[s.at].subscription = "live",
                      NEW x \in stale[c] \ missed, s.user \in Audience(members, x)
               PROVE  Reaches(members, todo', service'[s.at].events, s.outbound, s.user, x)
    BY <1>1 DEF Informed
  <2>1. s.at \in Instances
    BY DEF Inv, Typed, SocketsOK
  <2>2. /\ service[s.at].subscription = "live"
        /\ Range(service'[s.at].events) = Range(service[s.at].events) \cup {event}
    BY <1>4, <2>1
  <2>3. Reaches(members, todo, service[s.at].events, s.outbound, s.user, x)
    BY <2>2 DEF Inv, AllInformed, Informed
  <2>4. CASE \E q \in Commands : \E t \in Range(todo[q]) : StepTells(members, s.user, t, x)
    <3> PICK q \in Commands : \E t \in Range(todo[q]) : StepTells(members, s.user, t, x)
      BY <2>4
    <3>1. PICK t \in Range(todo[q]) : StepTells(members, s.user, t, x)
      OBVIOUS
    <3>2. CASE q = p /\ t = step
      <4>1. Tells(s.user, event, x)
        BY <1>1, <3>1, <3>2 DEF StepTells, event
      <4> QED
        BY <2>2, <4>1 DEF Reaches
    <3>3. CASE q = p /\ t # step
      BY <1>2, <1>7, <3>1, <3>3 DEF Reaches
    <3>4. CASE q # p
      BY <1>7, <3>1, <3>4 DEF Reaches
    <3> QED
      BY <3>2, <3>3, <3>4
  <2> QED
    BY <2>2, <2>3, <2>4 DEF Reaches
<1> QED
  BY <1>5, <1>6, <1>8 DEF Inv, AllInformed

-----------------------------------------------------------------------------
(* The service of an instance *)

\* A service may have clients up to its limits, and a user theirs.
Limited(i) ==
  /\ Cardinality(Clients(i)) <= MaxConnections
  /\ \A u \in Users :
       Cardinality({c \in Clients(i) : connection[c].user = u}) <= MaxConnectionsPerUser

\* Without a subscription all sockets are being closed.
Deaf(i) ==
  service[i].subscription = "none" => \A c \in Clients(i) : connection[c].state = "closing"

LEMMA AdmissionParts ==
  /\ AdmissionHolds <=> \A i \in Instances : Limited(i) /\ Deaf(i)
  /\ AdmissionHolds' <=> \A i \in Instances : Limited(i)' /\ Deaf(i)'
BY DEF AdmissionHolds, Limited, Deaf

LEMMA ClientsAreFinite ==
  ASSUME NEW i
  PROVE  /\ IsFiniteSet(Clients(i)) /\ IsFiniteSet(Clients(i)')
         /\ Clients(i) \subseteq Connections /\ Clients(i)' \subseteq Connections
<1>1. Clients(i) \subseteq Connections /\ Clients(i)' \subseteq Connections
  BY DEF Clients
<1>2. IsFiniteSet(Connections)
  BY AppEventsAssumption
<1> QED
  BY <1>1, <1>2, FS_Subset

\* No limit is passed by fewer clients.
LEMMA FewerClients ==
  ASSUME NEW i \in Instances, Limited(i), Clients(i)' \subseteq Clients(i),
         \A c \in Clients(i)' : connection'[c].user = connection[c].user
  PROVE  Limited(i)'
<1> DEFINE old == Clients(i)
           now == Clients(i)'
<1>1. IsFiniteSet(old) /\ now \subseteq old
  BY ClientsAreFinite
<1>2. Cardinality(now) \in Nat /\ Cardinality(old) \in Nat /\ Cardinality(now) <= Cardinality(old)
  BY <1>1, FS_Subset, FS_CardinalityType
<1>3. Cardinality(now) <= MaxConnections
  BY <1>2, CountsAreNatural DEF Limited
<1>4. ASSUME NEW u \in Users
      PROVE  Cardinality({c \in now : connection'[c].user = u}) <= MaxConnectionsPerUser
  <2> DEFINE mine == {c \in old : connection[c].user = u}
             mineNow == {c \in now : connection'[c].user = u}
  <2>1. mine \subseteq old /\ mineNow \subseteq mine
    BY <1>1
  <2>2. Cardinality(mine) <= MaxConnectionsPerUser
    BY DEF Limited
  <2> HIDE DEF mine, mineNow, old, now
  <2>3. IsFiniteSet(mine)
    BY <1>1, <2>1, FS_Subset
  <2>4. Cardinality(mine) \in Nat /\ IsFiniteSet(mineNow)
        /\ Cardinality(mineNow) <= Cardinality(mine)
    BY <2>1, <2>3, FS_Subset, FS_CardinalityType
  <2>5. Cardinality(mineNow) \in Nat
    BY <2>4, FS_CardinalityType
  <2>6. Cardinality(mineNow) <= MaxConnectionsPerUser
    BY <2>2, <2>4, <2>5, CountsAreNatural
  <2> QED
    BY <2>6 DEF mineNow
<1> QED
  BY <1>3, <1>4 DEF Limited

\* What a change of one service, or of sockets, has to respect.
LEMMA ServiceStepKeeps ==
  ASSUME Inv, UNCHANGED <<members, deleted, todo, missed, changes>>,
         stale' \in [Connections -> SUBSET Things], faults' \in 0 .. MaxFaults,
         ServicesOK', SocketsOK',
         \A i \in Instances : Limited(i)' /\ Deaf(i)',
         \A c \in Connections : Informed(c)'
  PROVE  Inv'
<1>1. DataOK' /\ TodoOK'
  BY DEF Inv, Typed, DataOK, TodoOK
<1> QED
  BY <1>1, AdmissionParts DEF Inv, Typed, AllInformed

\* A socket that is left as it is, at a service that is left as it is.
LEMMA StillInformed ==
  ASSUME Inv, UNCHANGED <<members, todo, missed>>, NEW c \in Connections,
         connection'[c] = connection[c], stale'[c] = stale[c],
         service'[connection[c].at] = service[connection[c].at]
  PROVE  Informed(c)'
<1>1. Informed(c)
  BY DEF Inv, AllInformed
<1>2. /\ members' = members /\ todo' = todo /\ missed' = missed
  OBVIOUS
<1> QED
  BY <1>1, <1>2 DEF Informed

LEMMA OneService ==
  ASSUME Inv, NEW i \in Instances, NEW s, service' = [service EXCEPT ![i] = s],
         s \in Services, s.online => s.subscription # "none"
  PROVE  /\ ServicesOK' /\ service'[i] = s
         /\ \A j \in Instances : j # i => service'[j] = service[j]
<1>1. /\ service \in [Instances -> Services]
      /\ \A j \in Instances : service[j].online => service[j].subscription # "none"
  BY DEF Inv, Typed, ServicesOK
<1>2. /\ service' \in [Instances -> Services] /\ service'[i] = s
      /\ \A j \in Instances : j # i => service'[j] = service[j]
  BY <1>1
<1> QED
  BY <1>1, <1>2 DEF ServicesOK

LEMMA ServiceFacts ==
  ASSUME Inv, NEW i \in Instances
  PROVE  /\ service[i] \in Services /\ service[i].events \in Seq(Events)
         /\ service[i].online \in BOOLEAN /\ service[i].closed \in BOOLEAN
         /\ service[i].online => service[i].subscription # "none"
BY DEF Inv, Typed, ServicesOK, Services

LEMMA SocketFacts ==
  ASSUME Inv, NEW c \in Connections
  PROVE  /\ connection[c] \in Socket /\ connection[c].outbound \in Seq(Abouts)
         /\ connection[c].state \in States /\ Len(connection[c].outbound) <= QueueSize
         /\ connection[c].state # "none" =>
              connection[c].at \in Instances /\ connection[c].user \in Users
BY DEF Inv, Typed, SocketsOK, Socket

LEMMA DataFacts ==
  ASSUME Inv
  PROVE  /\ stale \in [Connections -> SUBSET Things] /\ missed \subseteq Things
         /\ faults \in 0 .. MaxFaults /\ connection \in [Connections -> Socket]
         /\ \A i \in Instances : Limited(i) /\ Deaf(i)
BY AdmissionParts DEF Inv, Typed, DataOK, SocketsOK

\* Sockets that change their state to closing, or not at all.
LEMMA ClosingIsStill ==
  ASSUME NEW c \in Connections, connection[c] \in Socket
  PROVE  /\ Closed(connection[c]) \in Socket
         /\ Closed(connection[c]).at = connection[c].at
         /\ Closed(connection[c]).user = connection[c].user
         /\ Closed(connection[c]).outbound = connection[c].outbound
         /\ Closed(connection[c]).state = "closing"
BY DEF Closed, Socket, States

LEMMA AllDisconnected ==
  ASSUME Inv, NEW i \in Instances, DisconnectAll(i)
  PROVE  /\ SocketsOK'
         /\ \A c \in Connections : c \notin Clients(i) => connection'[c] = connection[c]
         /\ \A c \in Clients(i) : connection'[c].state = "closing"
         /\ \A j \in Instances : Limited(j)' /\ Clients(j)' = Clients(j)
<1>1. \A c \in Connections :
        connection'[c] = IF c \in Clients(i) THEN Closed(connection[c]) ELSE connection[c]
  BY DEF DisconnectAll
<1>2. \A c \in Connections : connection[c] \in Socket
  BY SocketFacts
<1>3. ASSUME NEW c \in Connections
      PROVE  /\ connection'[c] \in Socket
             /\ connection'[c].at = connection[c].at /\ connection'[c].user = connection[c].user
             /\ connection'[c].outbound = connection[c].outbound
             /\ c \in Clients(i) => connection'[c].state = "closing"
             /\ c \notin Clients(i) => connection'[c] = connection[c]
  BY <1>1, <1>2, ClosingIsStill
<1>4. \A c \in Clients(i) : c \in Connections /\ connection[c].at = i
                            /\ connection[c].state \in {"registered", "ready", "closing"}
  BY DEF Clients
<1>5. SocketsOK'
  <2>1. connection' \in [Connections -> Socket]
    BY <1>3 DEF DisconnectAll
  <2>2. ASSUME NEW c \in Connections
        PROVE  /\ Len(connection'[c].outbound) <= QueueSize
               /\ connection'[c].state # "none" =>
                    connection'[c].at \in Instances /\ connection'[c].user \in Users
    <3>1. CASE c \in Clients(i)
      BY <1>3, <1>4, <3>1, SocketFacts
    <3>2. CASE c \notin Clients(i)
      BY <1>3, <3>2, SocketFacts
    <3> QED
      BY <3>1, <3>2
  <2> QED
    BY <2>1, <2>2 DEF SocketsOK
<1>6. ASSUME NEW j \in Instances PROVE Limited(j)' /\ Clients(j)' = Clients(j)
  <2>1. \A c \in Connections : c \in Clients(j)' <=> c \in Clients(j)
    BY <1>3, <1>4 DEF Clients
  <2>2. Clients(j)' = Clients(j)
    BY <2>1, ClientsAreFinite
  <2>3. \A c \in Clients(j)' : connection'[c].user = connection[c].user
    BY <1>3, ClientsAreFinite
  <2> QED
    BY <2>2, <2>3, FewerClients, DataFacts
<1> QED
  BY <1>3, <1>5, <1>6, ClientsAreFinite

\* The services a subscription begins and ends with.
LEMMA ServiceShapes ==
  ASSUME NEW x \in Services
  PROVE  /\ Confirmed(x) \in Services /\ Confirmed(x).subscription = "live"
         /\ Ended(x) \in Services /\ Ended(x).subscription = "none"
<1>1. <<>> \in Seq(Events)
  OBVIOUS
<1> QED
  BY <1>1 DEF Confirmed, Ended, Services

\* A new subscription finds no open socket.
LEMMA SubscribeKeeps ==
  ASSUME Inv, NEW i \in Instances, Subscribe(i)
  PROVE  Inv'
<1> DEFINE x == Confirmed(service[i])
           s == [x EXCEPT !.online = TRUE]
<1>1. /\ service[i].subscription = "none" /\ service' = [service EXCEPT ![i] = s]
      /\ UNCHANGED <<connection, stale, faults, members, deleted, todo, missed, changes>>
  BY DEF Subscribe, SameData
<1>2. s \in Services /\ s.subscription = "live"
  <2>1. x \in Services /\ x.subscription = "live"
    BY ServiceFacts, ServiceShapes
  <2> HIDE DEF x
  <2> QED
    BY <2>1 DEF Services
<1> HIDE DEF s
<1>3. /\ ServicesOK' /\ service'[i] = s
      /\ \A j \in Instances : j # i => service'[j] = service[j]
  BY <1>1, <1>2, OneService
<1>4. SocketsOK' /\ \A j \in Instances : Clients(j)' = Clients(j)
  BY <1>1, SocketsUntouched DEF Inv, Typed, Clients
<1>5. ASSUME NEW j \in Instances PROVE Limited(j)' /\ Deaf(j)'
  <2>1. Limited(j)'
    BY <1>1, <1>4, FewerClients, DataFacts
  <2>2. Deaf(j)'
    BY <1>1, <1>2, <1>3, <1>4, DataFacts DEF Deaf
  <2> QED
    BY <2>1, <2>2
<1>6. ASSUME NEW c \in Connections PROVE Informed(c)'
  <2>1. CASE connection[c].state = "ready" /\ connection[c].at = i
    <3>1. c \in Clients(i)
      BY <2>1 DEF Clients
    <3> QED
      BY <1>1, <2>1, <3>1, DataFacts DEF Deaf
  <2>2. CASE connection[c].state # "ready"
    BY <1>1, <2>2 DEF Informed
  <2>3. CASE connection[c].state = "ready" /\ connection[c].at # i
    BY <1>1, <1>3, <2>3, SocketFacts, StillInformed
  <2> QED
    BY <2>1, <2>2, <2>3
<1> QED
  BY <1>1, <1>3, <1>4, <1>5, <1>6, DataFacts, ServiceStepKeeps

LEMMA LoseSubscriptionKeeps ==
  ASSUME Inv, NEW i \in Instances, LoseSubscription(i)
  PROVE  Inv'
<1> DEFINE s == [service[i] EXCEPT !.subscription = "lost"]
<1>1. /\ Fault /\ service' = [service EXCEPT ![i] = s]
      /\ UNCHANGED <<connection, stale, members, deleted, todo, missed, changes>>
  BY DEF LoseSubscription, SameData
<1>2. s \in Services /\ s.subscription = "lost"
  BY ServiceFacts DEF Services
<1> HIDE DEF s
<1>3. /\ ServicesOK' /\ service'[i] = s
      /\ \A j \in Instances : j # i => service'[j] = service[j]
  BY <1>1, <1>2, OneService
<1>4. SocketsOK' /\ \A j \in Instances : Clients(j)' = Clients(j)
  BY <1>1, SocketsUntouched DEF Inv, Typed, Clients
<1>5. ASSUME NEW j \in Instances PROVE Limited(j)' /\ Deaf(j)'
  <2>1. Limited(j)'
    BY <1>1, <1>4, FewerClients, DataFacts
  <2>2. Deaf(j)'
    BY <1>1, <1>2, <1>3, <1>4, DataFacts DEF Deaf
  <2> QED
    BY <2>1, <2>2
<1>6. ASSUME NEW c \in Connections PROVE Informed(c)'
  <2>1. CASE connection[c].at = i
    BY <1>1, <1>2, <1>3, <2>1 DEF Informed
  <2>2. CASE connection[c].state # "ready"
    BY <1>1, <2>2 DEF Informed
  <2>3. CASE connection[c].state = "ready" /\ connection[c].at # i
    BY <1>1, <1>3, <2>3, SocketFacts, StillInformed
  <2> QED
    BY <2>1, <2>2, <2>3
<1> QED
  BY <1>1, <1>3, <1>4, <1>5, <1>6, DataFacts, FaultTyped, ServiceStepKeeps

\* A service that ends its subscription closes every socket with it.
LEMMA EndingKeeps ==
  ASSUME Inv, NEW i \in Instances, NEW s \in Services,
         service' = [service EXCEPT ![i] = s],
         s.subscription = "none", s.online = FALSE, DisconnectAll(i),
         faults' \in 0 .. MaxFaults,
         UNCHANGED <<stale, members, deleted, todo, missed, changes>>
  PROVE  Inv'
<1>1. /\ ServicesOK' /\ service'[i] = s
      /\ \A j \in Instances : j # i => service'[j] = service[j]
  BY OneService
<1>2. /\ SocketsOK'
      /\ \A c \in Connections : c \notin Clients(i) => connection'[c] = connection[c]
      /\ \A c \in Clients(i) : connection'[c].state = "closing"
      /\ \A j \in Instances : Limited(j)' /\ Clients(j)' = Clients(j)
  BY AllDisconnected
<1>3. ASSUME NEW j \in Instances PROVE Deaf(j)'
  <2>1. CASE j = i
    BY <1>2, <2>1 DEF Deaf
  <2>2. CASE j # i
    <3>1. \A c \in Clients(j) : c \in Connections /\ c \notin Clients(i)
      BY <2>2 DEF Clients
    <3> QED
      BY <1>1, <1>2, <2>2, <3>1, DataFacts DEF Deaf
  <2> QED
    BY <2>1, <2>2
<1>4. ASSUME NEW c \in Connections PROVE Informed(c)'
  <2>1. CASE c \in Clients(i)
    BY <1>2, <2>1 DEF Informed
  <2>2. CASE c \notin Clients(i)
    <3>1. connection'[c] = connection[c]
      BY <1>2, <2>2
    <3>2. CASE connection[c].at = i
      BY <1>1, <3>1, <3>2 DEF Informed
    <3>3. CASE connection[c].state # "ready"
      BY <3>1, <3>3 DEF Informed
    <3>4. CASE connection[c].state = "ready" /\ connection[c].at # i
      BY <1>1, <3>1, <3>4, SocketFacts, StillInformed
    <3> QED
      BY <3>2, <3>3, <3>4
  <2> QED
    BY <2>1, <2>2
<1> QED
  BY <1>1, <1>2, <1>3, <1>4, DataFacts, ServiceStepKeeps

LEMMA ConsumeEndsKeeps ==
  ASSUME Inv, NEW i \in Instances, ConsumeEnds(i)
  PROVE  Inv'
<1> DEFINE x == Ended(service[i])
           s == [x EXCEPT !.online = FALSE]
<1>1. s \in Services /\ s.subscription = "none" /\ s.online = FALSE
  <2>1. x \in Services /\ x.subscription = "none"
    BY ServiceFacts, ServiceShapes
  <2> HIDE DEF x
  <2> QED
    BY <2>1 DEF Services
<1>2. /\ service' = [service EXCEPT ![i] = s] /\ DisconnectAll(i)
      /\ UNCHANGED <<stale, faults, members, deleted, todo, missed, changes>>
  BY DEF ConsumeEnds, SameData
<1> HIDE DEF s
<1> QED
  BY <1>1, <1>2, DataFacts, EndingKeeps

LEMMA CloseServiceKeeps ==
  ASSUME Inv, NEW i \in Instances, CloseService(i)
  PROVE  Inv'
<1> DEFINE x == Ended(service[i])
           s == [x EXCEPT !.closed = TRUE, !.online = FALSE]
<1>1. s \in Services /\ s.subscription = "none" /\ s.online = FALSE
  <2>1. x \in Services /\ x.subscription = "none"
    BY ServiceFacts, ServiceShapes
  <2> HIDE DEF x
  <2> QED
    BY <2>1 DEF Services
<1>2. /\ service' = [service EXCEPT ![i] = s] /\ DisconnectAll(i) /\ Fault
      /\ UNCHANGED <<stale, members, deleted, todo, missed, changes>>
  BY DEF CloseService, SameData
<1> HIDE DEF s
<1> QED
  BY <1>1, <1>2, FaultTyped, EndingKeeps

\* An open socket to which an event was delivered holds it.
LEMMA DeliveredFacts ==
  ASSUME NEW s \in Socket, NEW event \in Events, Len(s.outbound) <= QueueSize
  PROVE  LET t == Delivered(s, event)
         IN  /\ t \in Socket /\ t.at = s.at /\ t.user = s.user
             /\ Len(t.outbound) <= QueueSize
             /\ t.state \in {s.state, "closing"}
             /\ t.state # "closing" =>
                  Range(t.outbound) = Range(s.outbound)
                    \cup (IF s.user \in event.to THEN {event.about} ELSE {})
<1>1. s.outbound \in Seq(Abouts) /\ event.about \in Abouts /\ s.state \in States
  BY DEF Socket, Events, Abouts
<1>2. CASE s.user \notin event.to
  BY <1>2 DEF Delivered
<1>3. CASE s.user \in event.to /\ Len(s.outbound) = QueueSize
  BY <1>3 DEF Delivered, Closed, Socket, States
<1>4. CASE s.user \in event.to /\ Len(s.outbound) # QueueSize
  <2> DEFINE o == Append(s.outbound, event.about)
  <2>1. o \in Seq(Abouts) /\ Len(o) = Len(s.outbound) + 1
    BY <1>1
  <2>2. Range(o) = Range(s.outbound) \cup {event.about}
    BY <1>1, RangeOfAppend
  <2>3. Len(o) <= QueueSize
    BY <1>1, <1>4, <2>1, CountsAreNatural
  <2>4. Delivered(s, event) = [s EXCEPT !.outbound = o]
    BY <1>4 DEF Delivered
  <2> HIDE DEF o
  <2> QED
    BY <1>4, <2>1, <2>2, <2>3, <2>4 DEF Socket
<1> QED
  BY <1>2, <1>3, <1>4

LEMMA DeliverKeeps ==
  ASSUME Inv, NEW i \in Instances, Deliver(i)
  PROVE  Inv'
<1> DEFINE event == Head(service[i].events)
           rest == Tail(service[i].events)
           s == [service[i] EXCEPT !.events = rest]
<1>1. /\ service[i].events # <<>> /\ service' = [service EXCEPT ![i] = s]
      /\ connection' = [c \in Connections |->
           IF c \in Clients(i) THEN Delivered(connection[c], event) ELSE connection[c]]
      /\ UNCHANGED <<stale, faults, members, deleted, todo, missed, changes>>
  BY DEF Deliver, SameData
<1>2. /\ event \in Events /\ rest \in Seq(Events)
      /\ Range(service[i].events) = {event} \cup Range(rest)
  BY <1>1, ServiceFacts, RangeOfTail
<1> HIDE DEF event, rest
<1>3. /\ s \in Services /\ s.events = rest /\ s.subscription = service[i].subscription
      /\ s.online => s.subscription # "none"
  BY <1>2, ServiceFacts DEF Services
<1> HIDE DEF s
<1>4. /\ ServicesOK' /\ service'[i] = s
      /\ \A j \in Instances : j # i => service'[j] = service[j]
  BY <1>1, <1>3, OneService
<1>5. ASSUME NEW c \in Connections
      PROVE  /\ connection'[c] \in Socket /\ connection'[c].at = connection[c].at
             /\ connection'[c].user = connection[c].user
             /\ Len(connection'[c].outbound) <= QueueSize
             /\ connection'[c].state \in {connection[c].state, "closing"}
             /\ c \notin Clients(i) => connection'[c] = connection[c]
             /\ c \in Clients(i) /\ connection'[c].state # "closing" =>
                  Range(connection'[c].outbound) = Range(connection[c].outbound)
                    \cup (IF connection[c].user \in event.to THEN {event.about} ELSE {})
  <2>1. connection[c] \in Socket /\ Len(connection[c].outbound) <= QueueSize
    BY SocketFacts
  <2>2. CASE c \in Clients(i)
    <3>1. connection'[c] = Delivered(connection[c], event)
      BY <1>1, <2>2
    <3> DEFINE x == connection[c]
               t == Delivered(x, event)
    <3>2. /\ t \in Socket /\ t.at = x.at /\ t.user = x.user
          /\ Len(t.outbound) <= QueueSize /\ t.state \in {x.state, "closing"}
          /\ t.state # "closing" => Range(t.outbound) = Range(x.outbound)
               \cup (IF x.user \in event.to THEN {event.about} ELSE {})
      <4> HIDE DEF x
      <4>1. x \in Socket /\ Len(x.outbound) <= QueueSize
        BY <2>1 DEF x
      <4> QED
        BY <1>2, <4>1, DeliveredFacts
    <3>3. connection'[c] = t
      BY <3>1
    <3> HIDE DEF t
    <3> QED
      BY <2>2, <3>2, <3>3
  <2>3. CASE c \notin Clients(i)
    BY <1>1, <2>1, <2>3
  <2> QED
    BY <2>2, <2>3
<1>6. \A c \in Clients(i) : c \in Connections /\ connection[c].at = i
                            /\ connection[c].state \in {"registered", "ready", "closing"}
  BY DEF Clients
<1>7. SocketsOK'
  <2>1. connection' \in [Connections -> Socket]
    BY <1>1, <1>5
  <2>2. ASSUME NEW c \in Connections, connection'[c].state # "none"
        PROVE  connection'[c].at \in Instances /\ connection'[c].user \in Users
    <3>1. connection[c].state # "none"
      BY <1>5, <1>6, <2>2
    <3> QED
      BY <1>5, <3>1, SocketFacts
  <2> QED
    BY <1>5, <2>1, <2>2 DEF SocketsOK
<1>8. ASSUME NEW j \in Instances PROVE Limited(j)' /\ Deaf(j)'
  <2>1. \A c \in Connections : c \in Clients(j)' => c \in Clients(j)
    <3> SUFFICES ASSUME NEW c \in Connections, c \in Clients(j)' PROVE c \in Clients(j)
      OBVIOUS
    <3>1. CASE c \in Clients(i)
      BY <1>5, <1>6, <3>1 DEF Clients
    <3>2. CASE c \notin Clients(i)
      BY <1>5, <3>2 DEF Clients
    <3> QED
      BY <3>1, <3>2
  <2>2. Clients(j)' \subseteq Clients(j)
    BY <2>1, ClientsAreFinite
  <2>3. \A c \in Clients(j)' : connection'[c].user = connection[c].user
    BY <1>5, ClientsAreFinite
  <2>4. Limited(j)'
    BY <2>2, <2>3, FewerClients, DataFacts
  <2>5. Deaf(j)'
    <3>1. service'[j].subscription = service[j].subscription
      BY <1>3, <1>4
    <3>2. \A c \in Clients(j)' : connection[c].state = "closing" =>
            connection'[c].state = "closing"
      BY <1>5, ClientsAreFinite
    <3> QED
      BY <2>2, <3>1, <3>2, DataFacts DEF Deaf
  <2> QED
    BY <2>4, <2>5
<1>9. ASSUME NEW c \in Connections PROVE Informed(c)'
  <2>1. CASE c \notin Clients(i) /\ connection[c].state # "ready"
    BY <1>5, <2>1 DEF Informed
  <2>2. CASE c \notin Clients(i) /\ connection[c].state = "ready"
    <3>1. connection[c].at # i
      BY <2>2 DEF Clients
    <3>2. connection'[c] = connection[c] /\ stale'[c] = stale[c]
          /\ service'[connection[c].at] = service[connection[c].at]
      BY <1>1, <1>4, <1>5, <2>2, <3>1, SocketFacts
    <3> QED
      BY <1>1, <3>2, StillInformed
  <2>3. CASE c \in Clients(i)
    <3> DEFINE u == connection[c].user
               out == connection[c].outbound
               now == connection'[c].outbound
    <3> SUFFICES ASSUME connection'[c].state = "ready", s.subscription = "live",
                        NEW x \in stale[c] \ missed, u \in Audience(members, x)
                 PROVE  Reaches(members, todo, rest, now, u, x)
      BY <1>1, <1>3, <1>4, <1>5, <1>6, <2>3 DEF Informed
    <3>1. connection[c].state = "ready"
      BY <1>5
    <3>2. Reaches(members, todo, service[i].events, out, u, x)
      BY <1>3, <1>6, <2>3, <3>1 DEF Inv, AllInformed, Informed
    <3>3. Range(now) = Range(out) \cup (IF u \in event.to THEN {event.about} ELSE {})
      BY <1>5, <2>3
    <3> HIDE DEF u, out, now
    <3>4. CASE Tells(u, event, x)
      <4>1. event.about \in Range(now)
        BY <3>3, <3>4 DEF Tells
      <4> QED
        BY <3>4, <4>1 DEF Reaches, Tells
    <3>5. CASE ~Tells(u, event, x)
      BY <1>2, <3>2, <3>3, <3>5 DEF Reaches
    <3> QED
      BY <3>4, <3>5
  <2> QED
    BY <2>1, <2>2, <2>3
<1> QED
  BY <1>1, <1>4, <1>7, <1>8, <1>9, DataFacts, ServiceStepKeeps

-----------------------------------------------------------------------------
(* Sockets *)

\* One socket changes; the data, the services and the others do not.
LEMMA SocketStepKeeps ==
  ASSUME Inv, NEW c \in Connections, NEW k \in Socket,
         connection' = [connection EXCEPT ![c] = k],
         UNCHANGED <<service, faults, members, deleted, todo, missed, changes>>,
         stale' \in [Connections -> SUBSET Things],
         \A d \in Connections : d # c => stale'[d] = stale[d],
         Len(k.outbound) <= QueueSize,
         k.state # "none" => k.at \in Instances /\ k.user \in Users,
         k.state \in {"registered", "ready", "closing"} =>
           k.state = "closing" \/ service[k.at].subscription # "none",
         \A i \in Instances : Limited(i)',
         Informed(c)'
  PROVE  Inv'
<1>1. connection \in [Connections -> Socket]
  BY DataFacts
<1>2. connection'[c] = k /\ \A d \in Connections : d # c => connection'[d] = connection[d]
  BY <1>1
<1>3. SocketsOK'
  <2>1. connection' \in [Connections -> Socket]
    BY <1>1
  <2> QED
    BY <1>2, <2>1, SocketFacts DEF SocketsOK
<1>4. ServicesOK'
  BY ServicesUntouched DEF Inv, Typed
<1>5. ASSUME NEW i \in Instances PROVE Deaf(i)'
  <2> SUFFICES ASSUME service[i].subscription = "none", NEW d \in Clients(i)'
               PROVE  connection'[d].state = "closing"
    BY DEF Deaf
  <2>1. d \in Connections /\ connection'[d].at = i
        /\ connection'[d].state \in {"registered", "ready", "closing"}
    BY DEF Clients
  <2>2. CASE d = c
    BY <1>2, <2>1, <2>2
  <2>3. CASE d # c
    <3>1. d \in Clients(i)
      BY <1>2, <2>1, <2>3 DEF Clients
    <3> QED
      BY <1>2, <2>1, <2>3, <3>1, DataFacts DEF Deaf
  <2> QED
    BY <2>2, <2>3
<1>6. ASSUME NEW d \in Connections PROVE Informed(d)'
  <2>1. CASE d # c
    BY <1>2, <2>1, StillInformed
  <2> QED
    BY <2>1
<1>7. faults' \in 0 .. MaxFaults
  BY DataFacts
<1> QED
  BY <1>3, <1>4, <1>5, <1>6, <1>7, ServiceStepKeeps

\* A socket that does not become a client leaves the limits alone.
LEMMA NoNewClient ==
  ASSUME Inv, NEW c \in Connections, NEW k \in Socket,
         connection' = [connection EXCEPT ![c] = k],
         k.state \in {"registered", "ready", "closing"} =>
           /\ connection[c].state \in {"registered", "ready", "closing"}
           /\ k.at = connection[c].at /\ k.user = connection[c].user
  PROVE  \A i \in Instances : Limited(i)'
<1> TAKE i \in Instances
<1>1. connection'[c] = k /\ \A d \in Connections : d # c => connection'[d] = connection[d]
  BY DataFacts
<1>2. ASSUME NEW d \in Clients(i)'
      PROVE  d \in Clients(i) /\ connection'[d].user = connection[d].user
  <2>1. d \in Connections /\ connection'[d].at = i
        /\ connection'[d].state \in {"registered", "ready", "closing"}
    BY DEF Clients
  <2>2. CASE d = c
    BY <1>1, <2>1, <2>2 DEF Clients
  <2>3. CASE d # c
    BY <1>1, <2>1, <2>3 DEF Clients
  <2> QED
    BY <2>2, <2>3
<1> QED
  BY <1>2, FewerClients, DataFacts

\* A socket that is let in while there is room stays within the limits.
LEMMA OneMoreClient ==
  ASSUME Inv, NEW c \in Connections, NEW k \in Socket, NEW i \in Instances,
         connection' = [connection EXCEPT ![c] = k],
         k.state = "registered", k.at = i, k.user \in Users,
         connection[c].state = "upgraded", Available(i, k.user)
  PROVE  \A j \in Instances : Limited(j)'
<1> DEFINE old == Clients(i)
           now == Clients(i)'
<1>1. connection'[c] = k /\ \A d \in Connections : d # c => connection'[d] = connection[d]
  BY DataFacts
<1>2. c \notin old /\ old \subseteq Connections /\ IsFiniteSet(old)
  BY ClientsAreFinite DEF Clients
<1>3. now = old \cup {c}
  <2>1. \A d \in Connections : d \in now <=> d \in old \cup {c}
    BY <1>1 DEF Clients
  <2>2. now \subseteq Connections
    BY ClientsAreFinite
  <2> QED
    BY <1>2, <2>1, <2>2
<1>4. Cardinality(old) \in Nat /\ Cardinality(old) < MaxConnections
  BY <1>2, FS_CardinalityType DEF Available
<1>5. Limited(i)'
  <2>1. Cardinality(now) <= MaxConnections
    <3> HIDE DEF old, now
    <3>1. Cardinality(now) = Cardinality(old) + 1
      BY <1>2, <1>3, FS_AddElement
    <3> QED
      BY <1>4, <3>1, CountsAreNatural
  <2>2. ASSUME NEW u \in Users
        PROVE  Cardinality({d \in now : connection'[d].user = u}) <= MaxConnectionsPerUser
    <3> DEFINE mine == {d \in old : connection[d].user = u}
               mineNow == {d \in now : connection'[d].user = u}
    <3>1. mine \subseteq old /\ c \notin mine
      BY <1>2
    <3>2. mineNow = IF k.user = u THEN mine \cup {c} ELSE mine
      BY <1>1, <1>2, <1>3
    <3>3. Cardinality(mine) <= MaxConnectionsPerUser
      BY DataFacts DEF Limited
    <3>4. k.user = u => Cardinality(mine) < MaxConnectionsPerUser
      BY DEF Available
    <3> HIDE DEF mine, mineNow, old, now
    <3>5. IsFiniteSet(mine)
      BY <1>2, <3>1, FS_Subset
    <3>6. Cardinality(mine) \in Nat /\ Cardinality(mine \cup {c}) = Cardinality(mine) + 1
      BY <3>1, <3>5, FS_CardinalityType, FS_AddElement
    <3>7. Cardinality(mineNow) <= MaxConnectionsPerUser
      BY <3>2, <3>3, <3>4, <3>6, CountsAreNatural
    <3> QED
      BY <3>7 DEF mineNow
  <2> QED
    BY <2>1, <2>2 DEF Limited
<1>6. ASSUME NEW j \in Instances, j # i PROVE Limited(j)'
  <2>1. ASSUME NEW d \in Clients(j)'
        PROVE  d \in Clients(j) /\ connection'[d].user = connection[d].user
    <3>1. d \in Connections /\ connection'[d].at = j
          /\ connection'[d].state \in {"registered", "ready", "closing"}
      BY DEF Clients
    <3>2. d # c
      BY <1>1, <1>6, <3>1
    <3> QED
      BY <1>1, <3>1, <3>2 DEF Clients
  <2> QED
    BY <2>1, FewerClients, DataFacts
<1> QED
  BY <1>5, <1>6

\* What is not ready need not be informed.
LEMMA NotReady ==
  ASSUME NEW c \in Connections, connection'[c].state # "ready"
  PROVE  Informed(c)'
BY DEF Informed

LEMMA IdleIsSocket ==
  Idle \in Socket /\ Idle.state = "none" /\ Len(Idle.outbound) <= QueueSize
<1>1. <<>> \in Seq(Abouts) /\ Len(<<>>) <= QueueSize
  BY CountsAreNatural
<1> QED
  BY <1>1 DEF Idle, Socket, States

LEMMA UpgradeKeeps ==
  ASSUME Inv, NEW c \in Connections, NEW i \in Instances, NEW u \in Users, Upgrade(c, i, u)
  PROVE  Inv'
<1> DEFINE k == [at |-> i, user |-> u, state |-> "upgraded", outbound |-> <<>>]
<1>1. /\ connection' = [connection EXCEPT ![c] = k]
      /\ UNCHANGED <<stale, service, faults, members, deleted, todo, missed, changes>>
  BY DEF Upgrade, Sockets, SameData
<1>2. k \in Socket /\ k.state = "upgraded" /\ Len(k.outbound) <= QueueSize
      /\ k.at \in Instances /\ k.user \in Users
  <2>1. <<>> \in Seq(Abouts) /\ Len(<<>>) <= QueueSize
    BY CountsAreNatural
  <2> QED
    BY <2>1 DEF Socket, States
<1> HIDE DEF k
<1>3. \A j \in Instances : Limited(j)'
  BY <1>1, <1>2, NoNewClient
<1>4. connection'[c] = k
  BY <1>1, DataFacts
<1>5. Informed(c)'
  BY <1>2, <1>4, NotReady
<1>6. stale' \in [Connections -> SUBSET Things] /\ \A d \in Connections : stale'[d] = stale[d]
  BY <1>1, DataFacts
<1> QED
  BY <1>1, <1>2, <1>3, <1>5, <1>6, SocketStepKeeps

LEMMA HandleConnectionKeeps ==
  ASSUME Inv, NEW c \in Connections, HandleConnection(c)
  PROVE  Inv'
<1> DEFINE s == connection[c]
           i == s.at
           k == [s EXCEPT !.state = "registered"]
<1>1. /\ s.state = "upgraded"
      /\ connection' = [connection EXCEPT ![c] = IF Available(s.at, s.user) THEN k ELSE Idle]
      /\ UNCHANGED <<stale, service, faults, members, deleted, todo, missed, changes>>
  BY DEF HandleConnection, Sockets, SameData
<1>2. /\ s \in Socket /\ i \in Instances /\ s.user \in Users /\ Len(s.outbound) <= QueueSize
  BY <1>1, SocketFacts
<1>3. stale' \in [Connections -> SUBSET Things] /\ \A d \in Connections : stale'[d] = stale[d]
  BY <1>1, DataFacts
<1>4. CASE Available(i, s.user)
  <2>1. /\ k \in Socket /\ k.state = "registered" /\ k.at = i /\ k.user = s.user
        /\ Len(k.outbound) <= QueueSize
    <3> HIDE DEF s
    <3> QED
      BY <1>2 DEF Socket, States
  <2> HIDE DEF k
  <2>2. connection' = [connection EXCEPT ![c] = k]
    BY <1>1, <1>4
  <2>3. \A j \in Instances : Limited(j)'
    BY <1>1, <1>2, <1>4, <2>1, <2>2, OneMoreClient
  <2>4. connection'[c] = k
    BY <2>2, DataFacts
  <2>5. Informed(c)'
    BY <2>1, <2>4, NotReady
  <2>6. service[k.at].subscription # "none"
    BY <1>2, <1>4, <2>1, ServiceFacts DEF Available
  <2> QED
    BY <1>1, <1>2, <1>3, <2>1, <2>2, <2>3, <2>5, <2>6, SocketStepKeeps
<1>5. CASE ~Available(i, s.user)
  <2>1. connection' = [connection EXCEPT ![c] = Idle]
    BY <1>1, <1>5
  <2>2. \A j \in Instances : Limited(j)'
    BY <2>1, IdleIsSocket, NoNewClient
  <2>3. connection'[c] = Idle
    BY <2>1, DataFacts
  <2>4. Informed(c)'
    BY <2>3, IdleIsSocket, NotReady
  <2> QED
    BY <1>1, <1>3, <2>1, <2>2, <2>4, IdleIsSocket, SocketStepKeeps
<1> QED
  BY <1>4, <1>5

\* A client that is told it is ready reads everything.
LEMMA ReadyKeeps ==
  ASSUME Inv, NEW c \in Connections, Ready(c)
  PROVE  Inv'
<1> DEFINE s == connection[c]
           k == [s EXCEPT !.state = "ready"]
<1>1. /\ s.state = "registered" /\ connection' = [connection EXCEPT ![c] = k]
      /\ stale' = [stale EXCEPT ![c] = {}]
      /\ UNCHANGED <<service, faults, members, deleted, todo, missed, changes>>
  BY DEF Ready, Sockets, SameData
<1>2. /\ s \in Socket /\ s.at \in Instances /\ s.user \in Users /\ Len(s.outbound) <= QueueSize
  BY <1>1, SocketFacts
<1>3. c \in Clients(s.at)
  BY <1>1 DEF Clients
<1>4. service[s.at].subscription # "none"
  BY <1>1, <1>2, <1>3, DataFacts DEF Deaf
<1>5. /\ stale' \in [Connections -> SUBSET Things] /\ stale'[c] = {}
      /\ \A d \in Connections : d # c => stale'[d] = stale[d]
  BY <1>1, DataFacts
<1>6. Informed(c)'
  BY <1>5 DEF Informed
<1>7. /\ k \in Socket /\ k.state = "ready" /\ k.at = s.at /\ k.user = s.user
      /\ Len(k.outbound) <= QueueSize
  <2> HIDE DEF s
  <2> QED
    BY <1>2 DEF Socket, States
<1> HIDE DEF k
<1>8. \A j \in Instances : Limited(j)'
  BY <1>1, <1>7, NoNewClient
<1> QED
  BY <1>1, <1>2, <1>4, <1>5, <1>6, <1>7, <1>8, SocketStepKeeps

\* A client reads what an entry of its queue names, and nothing else is lost.
LEMMA WriteKeeps ==
  ASSUME Inv, NEW c \in Connections, Write(c)
  PROVE  Inv'
<1> DEFINE s == connection[c]
           about == Head(s.outbound)
           rest == Tail(s.outbound)
           read == IF about = "user" THEN s.user ELSE about
           k == [s EXCEPT !.outbound = rest]
<1>1. /\ s.state = "ready" /\ s.outbound # <<>>
      /\ connection' = [connection EXCEPT ![c] = k]
      /\ stale' = [stale EXCEPT ![c] = stale[c] \ {read}]
      /\ UNCHANGED <<service, faults, members, deleted, todo, missed, changes>>
  BY DEF Write, Sockets, SameData
<1>2. /\ s \in Socket /\ s.at \in Instances /\ s.user \in Users
      /\ Len(s.outbound) <= QueueSize /\ s.outbound \in Seq(Abouts)
  BY <1>1, SocketFacts
<1>3. c \in Clients(s.at)
  BY <1>1 DEF Clients
<1>4. service[s.at].subscription # "none"
  BY <1>1, <1>2, <1>3, DataFacts DEF Deaf
<1>5. /\ rest \in Seq(Abouts) /\ Len(rest) = Len(s.outbound) - 1
      /\ Range(s.outbound) = {about} \cup Range(rest)
  BY <1>1, <1>2, RangeOfTail
<1>6. Len(rest) <= QueueSize
  <2>1. Len(s.outbound) \in Nat
    BY <1>2
  <2> QED
    BY <1>2, <1>5, <2>1, CountsAreNatural
<1> HIDE DEF about, rest
<1>7. /\ k \in Socket /\ k.state = "ready" /\ k.at = s.at /\ k.user = s.user
      /\ k.outbound = rest
  <2> HIDE DEF s
  <2> QED
    BY <1>1, <1>2, <1>5 DEF Socket
<1> HIDE DEF k
<1>8. \A j \in Instances : Limited(j)'
  BY <1>1, <1>7, NoNewClient
<1>9. /\ stale' \in [Connections -> SUBSET Things] /\ stale'[c] = stale[c] \ {read}
      /\ \A d \in Connections : d # c => stale'[d] = stale[d]
  BY <1>1, DataFacts
<1>10. connection'[c] = k
  BY <1>1, DataFacts
<1>11. Informed(c)'
  <2> DEFINE u == s.user
             events == service[s.at].events
  <2> SUFFICES ASSUME service[s.at].subscription = "live",
                      NEW x \in (stale[c] \ {read}) \ missed, u \in Audience(members, x)
               PROVE  Reaches(members, todo, events, rest, u, x)
    BY <1>1, <1>7, <1>9, <1>10 DEF Informed
  <2>1. Reaches(members, todo, events, s.outbound, u, x)
    BY <1>1 DEF Inv, AllInformed, Informed
  <2>2. x # read
    OBVIOUS
  <2> QED
    BY <1>5, <2>1, <2>2 DEF Reaches
<1> QED
  BY <1>1, <1>2, <1>4, <1>6, <1>7, <1>8, <1>9, <1>11, SocketStepKeeps

LEMMA DisconnectKeeps ==
  ASSUME Inv, NEW c \in Connections, Disconnect(c)
  PROVE  Inv'
<1> DEFINE s == connection[c]
           k == Closed(s)
<1>1. /\ s.state \in {"registered", "ready"} /\ connection' = [connection EXCEPT ![c] = k]
      /\ UNCHANGED <<stale, service, faults, members, deleted, todo, missed, changes>>
  BY DEF Disconnect, Sockets, SameData
<1>2. /\ s \in Socket /\ s.at \in Instances /\ s.user \in Users /\ Len(s.outbound) <= QueueSize
  BY <1>1, SocketFacts
<1>3. /\ k \in Socket /\ k.state = "closing" /\ k.at = s.at /\ k.user = s.user
      /\ k.outbound = s.outbound
  BY <1>2, ClosingIsStill
<1> HIDE DEF k
<1>4. \A j \in Instances : Limited(j)'
  BY <1>1, <1>3, NoNewClient
<1>5. connection'[c] = k
  BY <1>1, DataFacts
<1>6. Informed(c)'
  BY <1>3, <1>5, NotReady
<1>7. stale' \in [Connections -> SUBSET Things] /\ \A d \in Connections : stale'[d] = stale[d]
  BY <1>1, DataFacts
<1> QED
  BY <1>1, <1>2, <1>3, <1>4, <1>6, <1>7, SocketStepKeeps

LEMMA UnregisterKeeps ==
  ASSUME Inv, NEW c \in Connections, Unregister(c)
  PROVE  Inv'
<1>1. /\ connection' = [connection EXCEPT ![c] = Idle]
      /\ stale' = [stale EXCEPT ![c] = {}]
      /\ UNCHANGED <<service, faults, members, deleted, todo, missed, changes>>
  BY DEF Unregister, Sockets, SameData
<1>2. \A j \in Instances : Limited(j)'
  BY <1>1, IdleIsSocket, NoNewClient
<1>3. connection'[c] = Idle
  BY <1>1, DataFacts
<1>4. Informed(c)'
  BY <1>3, IdleIsSocket, NotReady
<1>5. /\ stale' \in [Connections -> SUBSET Things]
      /\ \A d \in Connections : d # c => stale'[d] = stale[d]
  BY <1>1, DataFacts
<1> QED
  BY <1>1, <1>2, <1>4, <1>5, IdleIsSocket, SocketStepKeeps

-----------------------------------------------------------------------------
(* The theorems *)

LEMMA InitHasInv == Init => Inv
<1> SUFFICES ASSUME Init PROVE Inv
  OBVIOUS
<1>1. DataOK
  BY CountsAreNatural DEF Init, DataOK
<1>2. TodoOK
  <2>1. <<>> \in Notifications
    BY DEF Notifications
  <2> QED
    BY <2>1 DEF Init, TodoOK
<1>3. ServicesOK
  <2>1. <<>> \in Seq(Events)
    OBVIOUS
  <2> QED
    BY <2>1 DEF Init, ServicesOK, Services
<1>4. \A c \in Connections : connection[c] = Idle
  BY DEF Init
<1>5. SocketsOK
  <2>1. connection \in [Connections -> Socket]
    BY IdleIsSocket DEF Init
  <2> QED
    BY <1>4, <2>1, IdleIsSocket DEF SocketsOK
<1>6. \A i \in Instances : Clients(i) = {}
  BY <1>4, IdleIsSocket DEF Clients
<1>7. ASSUME NEW i \in Instances PROVE Limited(i) /\ Deaf(i)
  <2>1. Cardinality({}) = 0
    BY FS_EmptySet
  <2>2. \A u \in Users : {c \in Clients(i) : connection[c].user = u} = {}
    BY <1>6
  <2>3. Limited(i)
    BY <1>6, <2>1, <2>2, CountsAreNatural DEF Limited
  <2>4. Deaf(i)
    BY <1>6 DEF Deaf
  <2> QED
    BY <2>3, <2>4
<1>8. AllInformed
  BY <1>4, IdleIsSocket DEF AllInformed, Informed
<1> QED
  BY <1>1, <1>2, <1>3, <1>5, <1>7, <1>8, AdmissionParts DEF Inv, Typed

LEMMA NextKeepsInv ==
  ASSUME Inv, [Next]_vars
  PROVE  Inv'
<1>1. CASE \E p \in Commands, h \in Houses : ChangeHouse(p, h) \/ UpdateHouseProfile(p, h)
  BY <1>1, ChangeHouseKeeps, UpdateHouseProfileKeeps
<1>2. CASE \E p \in Commands, u \in Users, h \in Houses :
             JoinHouse(p, u, h) \/ ExitHouse(p, u, h)
  BY <1>2, JoinHouseKeeps, ExitHouseKeeps
<1>3. CASE \E p \in Commands, u \in Users :
             UpdateProfile(p, u) \/ ListHouses(p, u) \/ ProviderDataDeletion(p, u)
  BY <1>3, UpdateProfileKeeps, ListHousesKeeps, ProviderDataDeletionKeeps
<1>4. CASE \E p \in Commands :
             DeleteUser(p) \/ HouseChanged(p) \/ Publish(p) \/ Abandon(p)
  BY <1>4, DeleteUserKeeps, HouseChangedKeeps, PublishKeeps, AbandonKeeps
<1>5. CASE \E i \in Instances :
             Subscribe(i) \/ LoseSubscription(i) \/ ConsumeEnds(i) \/ CloseService(i)
               \/ Deliver(i)
  BY <1>5, SubscribeKeeps, LoseSubscriptionKeeps, ConsumeEndsKeeps, CloseServiceKeeps,
     DeliverKeeps
<1>6. CASE \E c \in Connections, i \in Instances, u \in Users : Upgrade(c, i, u)
  BY <1>6, UpgradeKeeps
<1>7. CASE \E c \in Connections :
             HandleConnection(c) \/ Ready(c) \/ Write(c) \/ Disconnect(c) \/ Unregister(c)
  BY <1>7, HandleConnectionKeeps, ReadyKeeps, WriteKeeps, DisconnectKeeps, UnregisterKeeps
<1>8. CASE UNCHANGED vars
  <2>1. /\ UNCHANGED <<service, connection>>
        /\ UNCHANGED <<members, deleted, todo, stale, missed, changes, faults>>
    BY <1>8 DEF vars
  <2>2. DataOK' /\ TodoOK'
    BY <2>1 DEF Inv, Typed, DataOK, TodoOK
  <2>3. ServicesOK' /\ SocketsOK' /\ AdmissionHolds'
    BY <2>1, ServicesUntouched, SocketsUntouched, AdmissionUntouched DEF Inv, Typed
  <2>4. AllInformed'
    BY <2>1, StillInformed DEF AllInformed
  <2> QED
    BY <2>2, <2>3, <2>4 DEF Inv, Typed
<1> QED
  BY <1>1, <1>2, <1>3, <1>4, <1>5, <1>6, <1>7, <1>8 DEF Next

(* Appevents/service.go, cmd/api/routes.go: notifications, services and     *)
(* sockets have the shapes the proof uses, the limits hold, and whoever is  *)
(* out of date will be told.                                                *)
THEOREM EventsInvHolds == Spec => []Inv
<1> USE DEF Spec
<1>1. Init => Inv
  BY InitHasInv
<1>2. Inv /\ [Next]_vars => Inv'
  BY NextKeepsInv
<1> QED
  BY <1>1, <1>2, PTL DEF Spec

(* The limits of appEvents/service.go: however many sockets pass            *)
(* UpgradeMiddleware at once, the registration lets in no more than         *)
(* maxConnections, nor more than maxConnectionsPerUser of a user; and a     *)
(* service without a subscription has no socket left open.                  *)
THEOREM ServiceStaysOK == Spec => []ServiceOK
<1>1. Inv => ServiceOK
  <2> SUFFICES ASSUME Inv PROVE ServiceOK
    OBVIOUS
  <2>1. \A p \in Commands : Range(todo[p]) \subseteq Lookups \cup Sends \cup Removals
    BY TodoIsSteps DEF Inv, Steps
  <2>2. ASSUME NEW i \in Instances
        PROVE  /\ service[i].subscription \in {"none", "live", "lost"}
               /\ {service[i].online, service[i].closed} \subseteq BOOLEAN
               /\ Range(service[i].events) \subseteq Events
    <3>1. Range(service[i].events) \subseteq Events
      BY ServiceFacts, RangeInSet
    <3>2. service[i].subscription \in {"none", "live", "lost"}
      BY ServiceFacts DEF Services
    <3> QED
      BY <3>1, <3>2, ServiceFacts
  <2>3. ASSUME NEW c \in Connections
        PROVE  /\ connection[c].state \in {"none", "upgraded", "registered", "ready", "closing"}
               /\ connection[c].user \in Users \cup {Nobody}
               /\ Len(connection[c].outbound) <= QueueSize
    BY SocketFacts DEF Socket, States
  <2>4. DataOK /\ AdmissionHolds
    BY DEF Inv, Typed
  <2> QED
    BY <2>1, <2>2, <2>3, <2>4 DEF ServiceOK, TypeOK, DataOK
<1>2. Spec => []Inv
  BY EventsInvHolds
<1> QED
  BY <1>1, <1>2, PTL

(* The contract of the events: a client whose socket is open at a live      *)
(* subscription sees nothing out of date that no announcement on its way    *)
(* names: not when members change between the lookup and the delivery, not  *)
(* when a queue overflows, not when the subscription was lost and is back.  *)
(* What `missed' records is excepted.                                       *)
THEOREM NobodyStaysStale == Spec => []NobodyIsLeftStale
<1>1. Inv => NobodyIsLeftStale
  <2> SUFFICES ASSUME Inv, NEW c \in Connections, connection[c].state = "ready",
                      service[connection[c].at].subscription = "live",
                      NEW x \in stale[c] \ missed,
                      connection[c].user \in Audience(members, x)
               PROVE  Coming(c, x)
    BY DEF NobodyIsLeftStale
  <2> DEFINE u == connection[c].user
             events == service[connection[c].at].events
             out == connection[c].outbound
  <2>1. Reaches(members, todo, events, out, u, x)
    BY DEF Inv, AllInformed, Informed
  <2>2. \A event : Tells(u, event, x) <=> Told(c, event, x)
    BY DEF Tells, Told
  <2>3. CASE \E p \in Commands : \E step \in Range(todo[p]) : StepTells(members, u, step, x)
    BY <2>2, <2>3 DEF StepTells, Coming
  <2>4. CASE \E event \in Range(events) : Tells(u, event, x)
    <3>1. \E k \in DOMAIN events : Told(c, events[k], x)
      BY <2>2, <2>4 DEF Range
    <3> QED
      BY <3>1 DEF Coming
  <2>5. CASE \E about \in Range(out) : x = IF about = "user" THEN u ELSE about
    <3>1. \E k \in DOMAIN out : x = IF out[k] = "user" THEN u ELSE out[k]
      BY <2>5 DEF Range
    <3> QED
      BY <3>1 DEF Coming
  <2> QED
    BY <2>1, <2>3, <2>4, <2>5 DEF Reaches
<1>2. Spec => []Inv
  BY EventsInvHolds
<1> QED
  BY <1>1, <1>2, PTL
=============================================================================
