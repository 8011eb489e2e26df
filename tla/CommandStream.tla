---------------------------- MODULE CommandStream ----------------------------
(***************************************************************************)
(* One turn-game room between instances: clients' commands travel over the *)
(* Redis streams of instances to the room's owner, whose loop hands them   *)
(* to the command handlers, next to turn deadlines and exclusions.         *)
(*                                                                         *)
(* An entry stays in its instance's stream until it is acknowledged and is *)
(* delivered again and again meanwhile.  The handler's transaction (session*)
(* version, receipt, result) is one step: SessionStore is about that.  Two *)
(* rooms can process at once while the older one has not noticed that its  *)
(* lease lapsed; turn games have no runtime owner that would fence it.     *)
(*                                                                         *)
(* External: Redis and MongoDB, as the code uses them.                     *)
(***************************************************************************)
EXTENDS TurnGame

CONSTANTS
  Instances,
  Nowhere,     \* no instance, no room
  Scenes,      \* what clients may be up to: [begun, commands, faults, copies], whether
               \* the match has begun, what each player sends, in order, how much goes
               \* wrong and how often a client sends one command
  LastTime,    \* bound: the clock stops here
  QueueSize    \* CommandQueueSize

Requests == [kind : {"ready", "unready", "leave", "cancel", "move"}, cell : Cells]

ASSUME StreamAssumption ==
  /\ Nowhere \notin Instances
  /\ QueueSize \in Nat \ {0}
  /\ LastTime \in Nat
  /\ \A s \in Scenes :
       /\ s.begun \in BOOLEAN /\ s.faults \in Nat /\ s.copies \in Nat
       /\ s.commands \in [Players -> Seq(Requests)]

VARIABLES
  scene,
  clock,
  match,      \* session, game and result in the database
  members,    \* of the house
  receipts,   \* commands with a receipt
  advanced,   \* deadlines with a receipt
  sent,       \* how many commands of its script each player has sent
  copies,     \* stream entries made of each command
  owner,      \* who holds the room's lease
  alive,      \* running instances
  stream,     \* per instance: entries not yet read and entries not acknowledged
  rooms,      \* per instance: the room's loop, or Nowhere
  applied,    \* history: commands that changed or confirmed the session, in order
  decided,    \* history: commands with a verdict
  dropped,    \* history: commands that were in the stream of a dead instance
  faults

streamVars == <<scene, clock, match, members, receipts, advanced, sent, copies, owner, alive,
          stream, rooms, applied, decided, dropped, faults>>

Commands == UNION {{<<p, n>> : n \in DOMAIN scene.commands[p]} : p \in Players}
Sent == {c \in Commands : c[2] <= sent[c[1]]}
Entry(c, n) == [command |-> c, copy |-> n]

\* entries of one command: what its client sends, and what instances pass on
\* when the room moves
MaxEntries == scene.copies + 2 * scene.faults + 1

Room(s) == [queue |-> <<>>, snapshot |-> s]

\* Everybody has joined; or everybody was ready too, the window is closed and
\* the countdown has just ended.
Joined(player) ==
  Recorded([NewGameSession(1) EXCEPT !.players =
              [p \in Players |-> IF p \in ToSet(JoinOrder) THEN player ELSE NoPlayer]],
           Len(JoinOrder), 1)

Lobby == [session |-> Joined(Waiting), game |-> NoGame, result |-> NoResult]

Begin ==
  LET ready == Recorded(Joined([Waiting EXCEPT !.state = "ready", !.readyAt = 1]), Len(JoinOrder), 1)
      locked == StartCountdown(OpenReadyWindow(ready, 1), 1)
  IN  AdvanceMatch([Lobby EXCEPT !.session = locked], 1 + Countdown)

StreamInit ==
  /\ scene \in Scenes
  /\ match = IF scene.begun THEN Begin ELSE Lobby
  /\ clock = match.session.updatedAt
  /\ members = Players
  /\ receipts = {} /\ advanced = {}
  /\ sent = [p \in Players |-> 0]
  /\ copies = [c \in Commands |-> 0]
  /\ owner = Nowhere
  /\ alive = Instances
  /\ stream = [i \in Instances |-> [unread |-> <<>>, pending |-> {}]]
  /\ rooms = [i \in Instances |-> Nowhere]
  /\ applied = <<>> /\ decided = {} /\ dropped = {}
  /\ faults = 0

-----------------------------------------------------------------------------
(* Sending                                                                 *)

\* PublishCommand: a new entry at the end of the owner's stream.
Published(str, i, c) ==
  [str EXCEPT ![i].unread = Append(@, Entry(c, copies[c] + 1))]

\* activateRoom at instance i, which holds no room: it takes a free lease, or
\* one it held itself before, unless the session has ended.
CanActivate(i) == owner \in {Nowhere, i} /\ ~Terminal(match.session)

\* Dispatch by the gateway at instance g: to the owner, dead or alive, or to
\* this instance after it took the room.  A room that ended takes nothing.
Dispatch(g, c) ==
  /\ g \in alive
  /\ copies[c] < scene.copies
  /\ copies' = [copies EXCEPT ![c] = @ + 1]
  /\ \/ /\ owner # Nowhere
        /\ stream' = Published(stream, owner, c)
        /\ dropped' = IF owner \in alive THEN dropped ELSE dropped \cup {c}
        /\ UNCHANGED <<owner, rooms>>
     \/ /\ owner = Nowhere /\ rooms[g] = Nowhere /\ CanActivate(g)
        /\ owner' = g
        /\ rooms' = [rooms EXCEPT ![g] = Room(match.session)]
        /\ stream' = Published(stream, g, c)
        /\ UNCHANGED dropped
     \/ /\ owner = Nowhere /\ rooms[g] # Nowhere
        /\ stream' = Published(stream, g, c)
        /\ UNCHANGED <<owner, rooms, dropped>>
  /\ UNCHANGED <<scene, clock, match, members, receipts, advanced, alive, applied, decided, faults>>

\* A player's connection sends its commands in order.
Send(p) ==
  /\ sent[p] < Len(scene.commands[p])
  /\ sent' = [sent EXCEPT ![p] = @ + 1]
  /\ \E g \in Instances : Dispatch(g, <<p, sent[p] + 1>>)

\* A client that got no answer sends the same command again.
Resend(c) ==
  /\ c \in Sent
  /\ \E g \in Instances : Dispatch(g, c)
  /\ UNCHANGED sent

-----------------------------------------------------------------------------
(* Delivery                                                                *)

Unacknowledged(str, i, e) == [str EXCEPT ![i].pending = @ \ {e}]

\* Mutant: a full queue acknowledges what it cannot take.
QueuedOrLost(i, e, str) ==
  \/ /\ Len(rooms[i].queue) < QueueSize
     /\ rooms' = [rooms EXCEPT ![i].queue = Append(@, e)]
     /\ stream' = str
  \/ /\ Len(rooms[i].queue) >= QueueSize
     /\ stream' = Unacknowledged(str, i, e)
     /\ UNCHANGED rooms

\* A full queue leaves the entry for a later delivery.
Queued(i, e, str) ==
  /\ rooms' = IF Len(rooms[i].queue) < QueueSize
                THEN [rooms EXCEPT ![i].queue = Append(@, e)] ELSE rooms
  /\ stream' = str

\* routeDelivery: into the local room's queue; to the room's owner elsewhere,
\* as a new entry; nowhere if the session has ended.
Route(i, e, str) ==
  IF rooms[i] # Nowhere
    THEN Queued(i, e, str) /\ UNCHANGED <<owner, copies, faults>>
    ELSE \/ /\ CanActivate(i)
            /\ owner' = i
            /\ rooms' = [rooms EXCEPT ![i] = [Room(match.session) EXCEPT !.queue = <<e>>]]
            /\ stream' = str
            /\ UNCHANGED <<copies, faults>>
         \/ /\ owner \in {Nowhere, i} /\ Terminal(match.session)
            /\ owner' = Nowhere
            /\ stream' = Unacknowledged(str, i, e)
            /\ UNCHANGED <<rooms, copies, faults>>
         \/ /\ owner \notin {Nowhere, i}
            /\ copies' = [copies EXCEPT ![e.command] = @ + 1]
            /\ \/ /\ stream' = Published(Unacknowledged(str, i, e), owner, e.command)
                  /\ UNCHANGED faults
               \/ /\ faults < scene.faults   \* the acknowledgement fails
                  /\ faults' = faults + 1
                  /\ stream' = Published(str, owner, e.command)
            /\ UNCHANGED <<owner, rooms>>

Forwarded(i, e) ==
  dropped' = IF rooms[i] = Nowhere /\ owner \notin alive \cup {Nowhere}
               THEN dropped \cup {e.command} ELSE dropped

\* readLoop hands the next entry over; commandLoop routes it.
Read(i) ==
  /\ i \in alive
  /\ stream[i].unread # <<>>
  /\ LET e == Head(stream[i].unread)
     IN  /\ Route(i, e, [stream EXCEPT ![i] = [unread |-> Tail(@.unread), pending |-> @.pending \cup {e}]])
         /\ Forwarded(i, e)
  /\ UNCHANGED <<scene, clock, match, members, receipts, advanced, sent, alive, applied, decided>>

\* redeliverPending: in no particular order, also what is queued already.
Redeliver(i, e) ==
  /\ i \in alive
  /\ e \in stream[i].pending
  /\ rooms[i] # Nowhere => Len(rooms[i].queue) < QueueSize
  /\ Route(i, e, stream)
  /\ Forwarded(i, e)
  /\ UNCHANGED <<scene, clock, match, members, receipts, advanced, sent, alive, applied, decided>>

-----------------------------------------------------------------------------
(* The room's loop                                                         *)

Request(c) == scene.commands[c[1]][c[2]]

Accepted(c) ==
  LET p == c[1]
      r == Request(c)
  IN  CASE r.kind \in {"ready", "unready"} -> CanReadyUp(match, p, clock)
        [] r.kind = "leave" -> CanLeaveMatch(match, p, clock)
        [] r.kind = "cancel" -> CanCancelMatch(match, clock)
        [] r.kind = "move" -> CanMove(match, p, r.cell, clock)

Result(c) ==
  LET p == c[1]
      r == Request(c)
  IN  CASE r.kind = "ready" -> ReadyUp(match, p, TRUE, clock)
        [] r.kind = "unready" -> ReadyUp(match, p, FALSE, clock)
        [] r.kind = "leave" -> LeaveMatch(match, p, clock)
        [] r.kind = "cancel" -> CancelMatch(match, clock)
        [] r.kind = "move" -> Move(match, p, r.cell, clock)

\* Mutant: nobody looks for the receipt.
ProcessedNever(c) == FALSE

Processed(c) == c \in receipts

\* The handler's transaction.  Only a member's command is looked at at all.
Handled(c) ==
  IF c[1] \in members /\ ~Processed(c) /\ Accepted(c)
    THEN /\ match' = Result(c)
         /\ receipts' = receipts \cup {c}
         /\ applied' = Append(applied, c)
    ELSE UNCHANGED <<match, receipts, applied>>

\* What becomes of room i, whose queue is q, with a new snapshot: without the
\* lease nothing can be published and the room stops, as it does at the end.
After(i, q, s) ==
  IF owner = i /\ ~Terminal(s)
    THEN rooms' = [rooms EXCEPT ![i] = [queue |-> q, snapshot |-> s]] /\ UNCHANGED owner
    ELSE /\ rooms' = [rooms EXCEPT ![i] = Nowhere]
         /\ owner' = IF owner = i THEN Nowhere ELSE owner

\* publishCommandRejected needs the lease; a success is in the database.
Answered(i, c, success) ==
  decided' = IF success \/ owner = i THEN decided \cup {c} ELSE decided

\* handleDelivery: success and refusal are published and acknowledged.  A
\* refusal without the lease is not acknowledged.
Process(i) ==
  /\ i \in alive /\ rooms[i] # Nowhere /\ rooms[i].queue # <<>>
  /\ LET e == Head(rooms[i].queue)
         c == e.command
         q == Tail(rooms[i].queue)
         success == c[1] \in members /\ (Processed(c) \/ Accepted(c))
     IN  /\ Handled(c)
         /\ Answered(i, c, success)
         /\ IF success THEN After(i, q, match'.session)
                       ELSE After(i, q, rooms[i].snapshot)
         /\ \/ /\ stream' = IF success \/ owner = i THEN Unacknowledged(stream, i, e) ELSE stream
               /\ UNCHANGED faults
            \/ /\ success /\ e \in stream[i].pending   \* the acknowledgement fails
               /\ faults < scene.faults /\ faults' = faults + 1
               /\ UNCHANGED stream
  /\ UNCHANGED <<scene, clock, members, advanced, sent, copies, alive, dropped>>

\* processCommand fails after its last attempt, the transaction done or not:
\* the entry stays for another delivery.
ProcessInVain(i) ==
  /\ i \in alive /\ rooms[i] # Nowhere /\ rooms[i].queue # <<>>
  /\ faults < scene.faults /\ faults' = faults + 1
  /\ rooms' = [rooms EXCEPT ![i].queue = Tail(@)]
  /\ \/ Handled(Head(rooms[i].queue).command)
     \/ UNCHANGED <<match, receipts, applied>>
  /\ UNCHANGED <<scene, clock, members, advanced, sent, copies, owner, alive, stream, decided, dropped>>

\* Players of a snapshot who are no longer members of the house
Revoked(s) == Current(s) \ members

\* handleDeadline with advance: exclusions first; then the transition at its
\* own time, whose receipt keeps a second room from making it again.  When it
\* fails, the room reloads.
HandleRoomDeadline(i) ==
  /\ i \in alive /\ rooms[i] # Nowhere
  /\ LET s == rooms[i].snapshot
         deadline == SessionDeadline(s, TRUE)
     IN  /\ deadline # NoTime /\ clock >= deadline
         /\ \/ /\ Revoked(s) # {}
               /\ match' = ExcludeMatch(match, Revoked(s), LaterOf(deadline, s.updatedAt))
               /\ After(i, rooms[i].queue, match'.session)
               /\ UNCHANGED advanced
            \/ /\ Revoked(s) = {} /\ deadline \notin advanced /\ CanAdvanceMatch(match, deadline)
               /\ match' = AdvanceMatch(match, deadline)
               /\ advanced' = advanced \cup {deadline}
               /\ After(i, rooms[i].queue, match'.session)
            \/ /\ Revoked(s) = {} /\ deadline \in advanced
               /\ After(i, rooms[i].queue, match.session)
               /\ UNCHANGED <<match, advanced>>
            \/ /\ Revoked(s) = {} /\ deadline \notin advanced /\ ~CanAdvanceMatch(match, deadline)
               /\ rooms' = [rooms EXCEPT ![i].snapshot = match.session]
               /\ UNCHANGED <<match, advanced, owner>>
  /\ UNCHANGED <<scene, clock, members, receipts, sent, copies, alive, stream, applied, decided, dropped, faults>>

\* reconcile: never later than an overdue deadline.
ReconcileRoom(i) ==
  /\ i \in alive /\ rooms[i] # Nowhere
  /\ LET s == rooms[i].snapshot
         deadline == SessionDeadline(s, TRUE)
         at == LaterOf(IF deadline # NoTime /\ deadline < clock THEN deadline ELSE clock, s.updatedAt)
     IN  /\ Revoked(s) # {}
         /\ match' = ExcludeMatch(match, Revoked(s), at)
         /\ After(i, rooms[i].queue, match'.session)
  /\ UNCHANGED <<scene, clock, members, receipts, advanced, sent, copies, alive, stream, applied, decided, dropped, faults>>

-----------------------------------------------------------------------------
(* The world around                                                        *)

\* Bounded by LastTime.
Elapse ==
  /\ clock < LastTime
  /\ clock' = clock + 1
  /\ UNCHANGED <<scene, match, members, receipts, advanced, sent, copies, owner, alive, stream, rooms, applied, decided, dropped, faults>>

\* A member leaves the house.
Revoke(p) ==
  /\ faults < scene.faults /\ faults' = faults + 1
  /\ members' = members \ {p} /\ p \in members
  /\ UNCHANGED <<scene, clock, match, receipts, advanced, sent, copies, owner, alive, stream, rooms, applied, decided, dropped>>

\* The lease lapses while the room goes on.
Lapse ==
  /\ owner \in alive
  /\ faults < scene.faults /\ faults' = faults + 1
  /\ owner' = Nowhere
  /\ UNCHANGED <<scene, clock, match, members, receipts, advanced, sent, copies, alive, stream, rooms, applied, decided, dropped>>

\* renewLoop notices.
Stop(i) ==
  /\ i \in alive /\ rooms[i] # Nowhere /\ owner # i
  /\ rooms' = [rooms EXCEPT ![i] = Nowhere]
  /\ UNCHANGED <<scene, clock, match, members, receipts, advanced, sent, copies, owner, alive, stream, applied, decided, dropped, faults>>

\* An instance dies; it comes back under another name and never reads this
\* stream again.  Somebody survives.
Crash(i) ==
  /\ i \in alive /\ alive # {i}
  /\ faults < scene.faults /\ faults' = faults + 1
  /\ alive' = alive \ {i}
  /\ rooms' = [rooms EXCEPT ![i] = Nowhere]
  /\ dropped' = dropped \cup {e.command : e \in ToSet(stream[i].unread) \cup stream[i].pending}
  /\ UNCHANGED <<scene, clock, match, members, receipts, advanced, sent, copies, owner, stream, applied, decided>>

\* The lease of a dead owner runs out.
Expiry ==
  /\ owner \notin alive \cup {Nowhere}
  /\ owner' = Nowhere
  /\ UNCHANGED <<scene, clock, match, members, receipts, advanced, sent, copies, alive, stream, rooms, applied, decided, dropped, faults>>

StreamNext ==
  \/ \E p \in Players : Send(p) \/ Revoke(p)
  \/ \E c \in Commands : Resend(c)
  \/ \E i \in Instances :
       \/ Read(i) \/ Process(i) \/ ProcessInVain(i) \/ HandleRoomDeadline(i)
       \/ ReconcileRoom(i) \/ Stop(i) \/ Crash(i)
       \/ \E e \in stream[i].pending : Redeliver(i, e)
  \/ Elapse \/ Lapse \/ Expiry

EntryBound == Max({s.copies + 2 * s.faults + 1 : s \in Scenes})
MaxScript == Max({Len(s.commands[p]) : s \in Scenes, p \in Players})

\* The loops of a living instance run: its reader, its room and the reader's
\* redelivery, which the map's order lets every entry have its turn.
Fairness ==
  /\ \A i \in Instances :
       /\ WF_streamVars(Read(i)) /\ WF_streamVars(Process(i)) /\ WF_streamVars(Stop(i))
  /\ \A p \in Players, k \in 1..MaxScript :
       SF_streamVars(\E i \in Instances, n \in 1..EntryBound : Redeliver(i, Entry(<<p, k>>, n)))
  /\ WF_streamVars(Expiry)

StreamSpec == StreamInit /\ [][StreamNext]_streamVars

FairStreamSpec == StreamSpec /\ Fairness

-----------------------------------------------------------------------------
(* Properties                                                              *)

\* Every command, delivery and room is one the code can hold; the session is
\* one the next load accepts.
StreamTypeOK ==
  /\ match.session \in Session /\ Acceptable(match.session)
  /\ \A i \in Instances :
       /\ \A e \in ToSet(stream[i].unread) \cup stream[i].pending :
            e.command \in Sent /\ e.copy \in 1..copies[e.command]
       /\ rooms[i] # Nowhere => Len(rooms[i].queue) <= QueueSize
  /\ owner \in Instances \cup {Nowhere}

\* However often a command is sent, delivered and handled again, it has its
\* effect once (applyTurnMove.go: "a retried move is applied once").
EffectsOnce == StreamTypeOK /\ IsInjective(applied)

\* The stored result is the one the board, the turn and the roster call for:
\* a line for its owner, a draw on a full board, a forfeit against the player
\* to move, the match to the one who stayed; and it is there exactly if a
\* started session ended, with the session's own end.
ResultIsEarned ==
  LET s == match.session
      g == match.game
      r == match.result
  IN  /\ r # NoResult <=> Terminal(s) /\ s.startedAt # NoTime
      /\ r # NoResult => r.endedAt = s.endedAt
      /\ r.status = "cancelled" <=> s.state = "cancelled" /\ s.startedAt # NoTime
      /\ \A p \in Players : Winner(g, p) /\ r # NoResult =>
            r.reason = "threeInARow" /\ r.winner = p
      /\ CASE r.reason = "threeInARow" -> Winner(g, r.winner)
           [] r.reason = "boardFull" -> BoardFull(g)
           [] r.reason = "turnTimeout" -> r.winner = Opponent(g, Late(g))
           [] r.reason = "opponentLeft" ->
                s.players[r.winner].state = "finished" /\ s.players[Opponent(g, r.winner)].state = "left"
           [] OTHER -> TRUE

\* A mark is placed only by the player to move, before the turn's deadline,
\* and a turn is forfeited only when its deadline in the database has passed,
\* even by a room that still holds an earlier one (turnEngine.go settle).
TurnsAreHonoured ==
  [][ LET m == IF match.session.state = "running" THEN Begun(match) ELSE match
          g == m.game
          s == m.session
      IN  /\ match'.game.board # g.board =>
               /\ match'.game.board \in {[g.board EXCEPT ![c] = Late(g)] : c \in {c \in Cells : g.board[c] = Nobody}}
               /\ clock < s.turnDeadline
               /\ s.players[Late(g)].state = "playing"
          /\ match'.result.reason = "turnTimeout" /\ match.result = NoResult =>
               clock >= s.turnDeadline ]_streamVars

\* Every command that was accepted by the gateway gets its verdict, through
\* full queues, failed attempts, lapsed leases and moves of the room, unless
\* its stream died or the session ended; and it does not multiply on the way.
CommandsAreDecided ==
  /\ [](\A c \in Commands : copies[c] <= MaxEntries)
  /\ TRUE ~> (Terminal(match.session) \/ Sent \subseteq decided \cup dropped)
=============================================================================
