# houseFlow API: specification and verification

houseFlow is a backend for people who share a house: members assign and review chores, read
announcements and play small games together in real time. This directory holds TLA+ models of
the parts of it that are hard to get right, the TLC configurations that check them on small
instances, and TLAPS proofs of what holds for instances of any size. Paths below are relative
to `src/internal/` unless they start with `cmd/`, `docs/`, `external/` or `tests/`.

## 1. The system

### Parts, state and operations

| Part | State | Operations | What makes it correct |
|---|---|---|---|
| Game session aggregate (`application/game/domain`) | players and their readiness, phase (lobby, ready window, countdown, running, finished, cancelled), deadlines, version | join, ready, leave, exclude, advance, store a turn's state, finish, cancel | only ready players enter a match, enough of them, and the roster is frozen; deadlines are honoured; a stored session can be loaded again |
| Session store (`data/database/gameSessionRepository.go`, `application/game/commands`) | `gameSessions`, `gameSessionCommandReceipts` in MongoDB | find, create, conditional save, look up a receipt | a command takes effect at most once however often it is sent; one open session per house and game; no lost update |
| Room ownership and match completion (`infrastructure/realtime`, `infrastructure/coordination/{roomLease,runtimeCheckpoint}.go`, `data/database/{runtimeOwner,gameMatch}Repository.go`) | room lease and runtime checkpoint in Redis, `gameRuntimeOwners` and `gameMatchResults` in MongoDB, the room's goroutines | acquire, claim, spawn, restore, publish, cancel, commit, release, recovery scan | one match per session however many instances, crashes and lost leases; clients see one outcome, which is the stored one; every match ends |
| Room command stream and room loop (`coordination/redisSubscription.go`, `realtime/room.go`) | Redis streams per instance, pending deliveries, the room's queue | dispatch, deliver, acknowledge, redeliver | accepted commands are applied, in an order the client can rely on |
| Turn games (`commands/turnEngine.go`, `games/ticTacToe`) | the game state inside the session | settle, move, expire, reconcile | a move counts once and in turn; expired turns are caught up |
| HouseRockets (`games/houseRockets`) | simulation, control bindings, queued inputs | submit, advance, cancel, checkpoint, restore | inputs of the current control generation only, in sequence; the result agrees with the simulation |
| HouseTanks (`games/houseTanks`) | rounds, votes, tanks, shots, jokers, scores | submit, advance, checkpoint, restore | as above, over several rounds; armour, aim and jokers survive any order of hits and recoveries |
| Gateway (`realtime/gateway*.go`, `admission.go`) | hubs, clients with bounded queues, connection counts | connect, authorise, broadcast, disconnect | no client misses the events of its room silently; limits hold and are given back |
| Presence, lobby heartbeats (`coordination/presence.go`, `realtime/roomLobby.go`) | expiring entries in Redis, last heartbeats | touch, list, remove, reconcile | a member who is there is not excluded |
| Game catalog (`application/game/gameCatalog.go`, `coordination/gameConfigBus.go`) | stored configurations, each instance's copy | update, announce, refresh | every instance comes to use the latest valid configuration |
| Chores (`application/chore`) | status, review round, votes, photos | create, advance, review | a chore is completed by the others' approval, and a review can always be decided |
| Houses (`application/house`) | members, owner, invite code, announcements | create, join, exit, invite, announce | membership is symmetric, every house has an owner who is a member |
| Users (`application/user`) | profile, memberships | create, update, remove | a removed account leaves nothing that refers to it |
| Authentication (`application/auth`, `infrastructure/socialAuth`) | password, verification codes, linked identities, lockout counter | login, sign up, link, unlink, provider notifications | an account keeps a way to log in; an identity belongs to one account |
| Application events (`infrastructure/appEvents`) | sockets per user, bounded queues | connect, deliver, disconnect | a change is announced to everybody who sees it, or the client is made to reload |
| Localization cache, rate limiter, mediator, storage, controllers, migrations | maps, counters, none | | |

### Who talks to whom

A client holds one WebSocket to the gateway of some instance. The gateway dispatches its commands
through Redis to the instance that owns the session's room, or to the local room. The room's
loop applies them one at a time: it loads the session, calls the aggregate, and saves it under
the version it has read. HTTP handlers change the same document concurrently, which is why the
save is conditional. When the countdown ends, the owner of the room starts the game's runtime;
its scheduler, its publisher and the room's loop then run side by side. The room publishes
frames to local sockets directly and to other instances through Redis. When the runtime
proposes a result, the room stores it and ends the session in one MongoDB transaction. A scanner
on every instance reopens rooms nobody owns. Outside the games, HTTP handlers change houses, chores,
accounts and linked identities in MongoDB transactions; a notification that runs after a successful
command announces over Redis what clients have to read again. Each instance keeps a copy of the game
catalog, which announcements and a timer refresh.

### What is hard

* **Concurrency.** Handlers of several instances read, decide and write the same documents;
  inside a room three goroutines share the runtime; a socket is admitted, joins its hub and reads the
  session while others publish.
* **Two stores.** Redis holds leases and checkpoints and may lose them; MongoDB holds what is
  durable. The same fact (who owns the room, whether the match has started) is in both.
* **Delivery.** Clients resend commands, streams redeliver unacknowledged ones, a transaction's
  outcome may be lost on its way back.
* **Time.** Deadlines are handled later than they fall due, and the transition is then dated
  back to the deadline; reconciliation chooses its own timestamps.
* **Failure.** An owner may die between any two of its writes; a subscription may fail while its
  sockets stay open.

PROJECT.json lists each such hazard at its line with the properties aimed at it.

## 2. The modules

```
MatchLifecycle  <--refines--  GameSession  --EXTENDS-->  SessionDomain  <--EXTENDS--  TurnGame
                                   ^ SessionProofs                                       ^
                                   +-----------------EXTENDS--------------------->  CommandStream
SessionLedger   <--refines--  SessionStore                                               ^ MCCommandStream
                                   ^ MCSessionStore, SessionStoreProofs
                              RoomOwnership      ^ RoomOwnershipProofs
TickSettings <-- TankMatch, RocketSimulation <-- TickRuntime <-- TankRuntime, RocketRuntime <-- TickHost
                                                                                         ^ MCTickHost
                              TankArena          ^ MCTankArena, TankArenaProofs
GatewayClient   <--EXTENDS--  RoomGateway        ^ MCRoomGateway
Transactions    <--INSTANCE-- Household          ^ MCHousehold, HouseholdProofs
                <--INSTANCE-- Accounts           ^ MCAccounts, AccountsProofs
                              AppEvents          ^ MCAppEvents, AppEventsProofs
                              GameCatalog        ^ MCGameCatalog, GameCatalogProofs
```

The modules of a game compose by their interfaces: SessionStore takes from the aggregate only that a change
records some events and may end the session, which GameSession shows it does (every change gets
a higher version, an end is final in the lifecycle); CommandStream takes from the store that a handler's
transaction is atomic and that a key takes effect once; RoomOwnership takes from both only that a
countdown becomes a running session once and that a finished one does not come back; TickHost fills in what one
owner of RoomOwnership does with its runtime; RoomGateway takes what the owner publishes and shows what sockets get of it.

### SessionDomain, GameSession and MatchLifecycle

`SessionDomain` is the aggregate as operators on a session record, one for each method, plus the
predicate (`Can...`) of the method's early returns. A method that returns an error changes
nothing. What the record leaves out (identifiers, names, settings, the bytes of the game state)
no property tells apart; that a turn game's state is stored at all is kept (`turnStored`),
because `sessionDeadline` depends on it. Time is a natural number and 0 is Go's zero time. A player
who never joined is in state "absent"; one who left stays in the list, as in the code.

`GameSession` lets everything act on one session: `Join`, `ChangeReady`, `Leave`, `CancelByUser`
(client commands), `Reconcile` (exclusion of members who left the house or fell silent, with the
timestamps of `reconcilePlayers`), `HandleDeadline` (the timer, which advances at the
deadline's time and not at the clock's), `Play` (a turn game storing its state), `Complete` (a
result) and `Tick` (the clock). Each is atomic here. The history variable `locked` remembers who
was ready when the lobby closed.

`MatchLifecycle` is what players rely on, without time or bookkeeping: a roster is chosen once,
within the limits; players may drop out, but before the start enough must remain; an ended match
stays ended.

### SessionStore and SessionLedger

`SessionStore` opens up what GameSession treats as atomic. A handler's execution is a sequence of
steps with a position: read the session, look for the command's receipt, decide on the document
as read, write document and receipt in one transaction (or, for the room's own transitions, the document
alone), and after an error look again for a receipt, because the transaction may
have committed. Opening a session goes through the active-session index in the same way. Any step
may be the last (`Crash`), any commit may go unanswered, any request may be sent again with the
same key and the same or another payload. A document is the log of changes it holds.

`SessionLedger` says what this is to amount to: a log per session, each client key at most once in
effect, at most one open session, nothing after the end.

### RoomOwnership

One tick game's session, its documents in MongoDB, its keys in Redis, and the room of each
instance with the position it has reached. The order of the writes is the code's:

* the durable generation is read before the lease is asked for (`activateRoom`), and the claim
  compares against it (`ClaimRuntimeOwner`);
* the first checkpoint is stored before the start is recorded (`startRuntimeLocked`);
* a started match is restored from its checkpoint, or ended if there is none, and a restored state
  is checkpointed under its new epoch before it runs;
* a frame is checkpointed before it is published when it shows something a recovery must not lose
  (`CriticalKey`), here the end of the match; frames that need not be stored are published without any
  fence, as they are to local sockets;
* the cancel's intent is stored before the runtime is touched; the final checkpoint is stored
  before the result; the checkpoint is deleted after it, and frames still queued must not
  recreate it.

The scheduler (`Tick`, `Finish`, `Resync`), the publisher (`NextUpdate`, `Publish...`, `DropFrame`) and
the room's loop interleave freely. The lease has no clock: a room may notice the loss of its lease
at any later time (`LoseRoom`) or never. Faults are crashes (`Crash`), leases that lapse while in use (`Lapse`),
lost checkpoints (`LoseCheckpoint`), and commits without an answer (`CommitUnanswered`). A
shutdown that gives its lease back is a crash whose lease expires at once.

### TurnGame and CommandStream

`TurnGame` puts the turn engine around the aggregate: a match is the session, the game state it stores and its
result. `Settle` catches up overdue turns before anything else is done, `Expire` forfeits one, and the
operators named for a command (`Move`, `LeaveMatch`, ...) have the `Can...` predicates of `SessionDomain` and
the board's. The board is any set of cells with any winning lines. `Committed` proposes a result to a running session only:
the result of a match that ended stays in the record, but the code's `settle` returns none for it.

`CommandStream` is the way a command takes: the gateway of some instance publishes it to the stream of the
instance that owns the room (`Send`), that instance's reader takes the next entry (`Read`) or one that is
still unacknowledged (`Redeliver`), and hands it to its room, forwards it to the owner or elects itself (`Route`).
The room's loop answers and acknowledges (`Process`), or fails after its last attempt, its transaction done or not
(`ProcessInVain`). Deadlines and exclusions run in the same loop from the room's own, possibly old,
snapshot (`HandleRoomDeadline`, `ReconcileRoom`). A lease may lapse under a room that goes on; an instance may die with its stream.
The names with `Room` and `Stream` in them keep the module apart from GameSession, with which `SessionProofs` reads it together.

### TickSettings, TankMatch, RocketSimulation, TickRuntime, TankRuntime, RocketRuntime and TickHost

The two tick games share the shape of their runtimes, and so do the modules. `TankMatch` and `RocketSimulation` are
what the code advances tick by tick; what the arena or the course does to players within a tick is any set of them
destroyed or left behind. `TickRuntime` has what `houseTanks/runtime.go` and `houseRockets/runtime.go` have in common:
one coalesced frame, a bounded queue of grants and rejections, one proposed result, the checkpoint that goes with each,
and the control bindings with their deadlines. `TankRuntime` and `RocketRuntime` add how inputs wait and are applied.

`TickHost` is the room around it: `Advance` by any number of ticks up to the catch-up limit and the cancellation past it, `Submit`,
the publisher with `Protect` (`protectCheckpoint`) before it publishes, `Complete`, `Crash`, `Recover`. Who may be
the owner is RoomOwnership's subject; here one owner follows another.

### TankArena

`world.go` and `jokers.go` without positions: what a shot touches and which tank stands on a joker is any body it could
be. Kept are the rules about what follows: protection after a hit, rockets, volleys, which shots hold their
tank's aim, tokens, timed jokers, and the bag they are dealt from, which outlives the round and is part of a checkpoint.

### GatewayClient and RoomGateway

`GatewayClient` is what one socket holds under its mutex: the outbound queue, the newest session version and
frame it was given, its grant. `RoomGateway` puts connections through `Reserve`, `JoinExistingHub` or `Subscribe` and `AddHub`,
`ReadSession`, `ActivateClient`, writes and `Leave`, while the room's owner publishes sessions, frames, revocations and results,
moves to another instance or falls idle, and a hub's subscription may fail. The order of the steps is the code's: the
hub is joined before the session is read, so what is published in between waits in the client and is replayed.

### Transactions, Household and Accounts

`Transactions` is MongoDB as `dbContext.go` uses it. `WithinTransaction` runs a handler against a
snapshot, and the server commits what it wrote unless somebody has written one of the same documents
since; otherwise the driver runs it again. So a handler is one step, with a snapshot `t` it has decided on: `t` is the database
as it is or as it was before one of the last `MaxAge` commits, together with what was written since. What
a handler has read without writing it may be out of date (write skew), and that is where its properties could fail.
Handlers that use no transaction read snapshots of their own, later ones for later reads, and write by `Apply`.

`Household` keeps in one database what the handlers of `application/{house,chore,user}` change
together: houses with members (in the order they joined, which decides who inherits a house), owner,
limit and invite; accounts with the houses they belong to; chores with status, round and photo keys;
and votes, one document each. `ExitHouse`, `JoinHouse` and `DeleteUser` write both sides of a membership.
`UpdateChore` is protected by the chore's version only, `GenerateInviteCode` by nothing. A photo is
stored before the transaction that names it (`UploadReviewPhoto`), the transaction may commit without an answer
(`SubmitReviewPhoto`), and after an error the object is deleted (`DeleteUploadedPhoto`).

A vote is counted against the members of the moment. What that means for a household that changes during
the round, the code does not say; the history variable `disturbed` holds the chores of which the household or the
assignee has changed since the round was opened, or the house was written between the snapshot that
opened the round and its commit. `ReviewCanBeDecided` (in `ReviewsProceed`) and `ApprovedByTheOthers` speak of the others.

`Accounts` has the same shape for `application/auth`: users, the identities linked to them (kept unique by two indexes), the
recent changes of a restricted field, and, at Apple, the authorizations that are issued, withdrawn, revoked and notified about. Identities are
read before, inside or after a transaction as the handler does it, each read with a snapshot of its own.

### AppEvents

Which command announces what (`routes.go` wires the notifications), from the commit through the lookup of the members
(`HouseChanged`), the Redis channel and the service of each instance to the sockets. Of the data only what is out of date in a
client's eyes is kept (`stale`). `missed` records the changes nobody will ever announce, which the code accepts:
a lookup or a publication that fails, and houses that could not be listed before an account was removed.

### GameCatalog

The collection, and for each instance the copy it serves and the reloads under way: one in the loop of `Run`, one in the handler that has
just stored an update. A release resolves some contents and refuses others, since a document written by a newer
release is read by an older one while it is rolled out.

## 3. What is checked

| Run | Instance | What it shows |
|---|---|---|
| `session` | 4 players for 3 places, at least 2; window 2, countdown 1, a turn game; commands up to time 4 and version 9 | the session stays loadable, its roster is frozen and can be rebuilt from it, changes are ordered, it implements MatchLifecycle; no window and no countdown lasts unless a command overruns it |
| `session_overrun` | 3 players, window 1, countdown 1 | expected violation: with such a command it does last |
| `store` | 2 handlers at a time, 3 keys, 2 sessions, 5 requests, up to 2 events a change | versions identify contents, answers are true, the store implements the ledger |
| `room` | 2 instances, 3 leases, 2 frames before the match must end, 2 faults or cancels | one world, one outcome, no displaced owner, no ghost checkpoint; the match gets its result |
| `stream` | 2 instances, 2 players, 3 cells with one line, 6 scenes of up to 4 commands, up to 2 faults and 1 or 2 extra copies, a queue of 1 | a command has its effect once and gets its verdict; turns and results are as board, clock and roster have it |
| `tick` | both games, a roster of 3, 2 connections each, matches of 5 ticks, 5 scenes with up to 3 votes and 2 disturbances (other inputs, losses, cancels, crashes) | announced facts and proposals survive recoveries; every checkpoint restores unless a player was heard in a stall that was too long; tanks without control stand still |
| `arena` | 2 tanks with 3 points of armour, 4 of the 5 kinds of joker, 6 ticks, 3 changes | armour takes time, aim is let go, no joker twice in a row |
| `gateway` | 2 instances, 3 connections of 2 users, 7 scenes: lobby, turn game, match | nothing missed, nothing goes back, the revoked are disconnected, the last frame before the result; sockets in a hub whose loop has ended are excepted from the first and the third |
| `household` | 3 users, 1 house for 2 or 3 of them, 1 chore, 1 photo, 2 review rounds, 5 changes, one commit may overtake a handler | houses and accounts agree, a rejection ends its round, reviews can be decided and are decided by the others, photos are lost only to unanswered commits |
| `accounts` | 2 users, 2 addresses, 2 provider accounts, at Apple and at Facebook, 2 links, 2 changes, one commit may overtake a handler | no account is locked out, concurrent wrong passwords and profile changes are all counted, nothing is revoked that still works |
| `events` | 1 instance, 2 users, 1 house, 2 connections, queues of 1, 2 changes, 2 commands and faults together | nobody is left stale; the limit per user holds, and no open socket belongs to a service without a subscription |
| `catalog` | 2 releases, 2 games, 2 contents, 2 writes, 1 fault | no instance goes back, updates are served, all converge |

**Why these bounds are enough to mean something.** In `session` four players with a minimum of two let a
window fill up, lose and regain players on both sides of the minimum, and a batch exclude one, two or
three of them; one more player than places lets somebody wait for a place that a ready player leaves. The clock runs on until every
deadline has been passed. A countdown of zero, which chains three transitions in one call, is left to the proof. In
`store` two handlers suffice for every race of two read-modify-write cycles, a third
request in the place of a finished one gives the resend, and two sessions one after the
other let a rival end in between. In `room` two faults suffice to lose an owner and then
its successor or its checkpoint, and three leases for three owners. In `stream` the scenes are chosen by what may go wrong:
a move redelivered after its turn, a leave or a cancel that races a move, readiness taken back, an instance that fails in the lobby or in the match.
A queue of one is full as soon as it is used. In `tick` a match of five ticks
has a drawn round, a vote with a window that closes, and the start of the next round; the scenes let all three players go through that undisturbed, two of
them (the third having left in the countdown) with a crash or an input on the way, and two start while two things go wrong: a crash and an input, or a
second connection that takes over. In `arena` three points of armour
let a volley, a rocket and a protection follow each other, and six ticks deal four kinds of joker and the first of the next bag; the kind left out, `shield`, only makes shots that reach its tank have no effect. In `gateway` two sockets of one user or of two, on one instance or
two, meet the owner's; a queue of four is reached. In `household` three users are an assignee and two reviewers, so that a vote may be the first or
the last one; five changes build that household and leave two, one for each of two handlers at work
on the same snapshot; a second round tells the last round from the others. In `accounts` two links let an account be linked,
unlinked and linked again, and two unlinks meet; the two changes may be two profile updates that race once an interval has passed, or two wrong passwords that race to lock an account. In `events` two commands are a change and a departure at the same time, or one command meets one fault; the two sockets reach the limit per user and
not more than the limit of the service, which `ServiceStaysOK` proves. In `catalog` two
writes and one fault give a reload that is overtaken, and a release that cannot resolve what the other wrote. Each bound is an upper
limit on how often something happens, never on when.

**Symmetry** is used only in runs without liveness properties, over sets no definition
distinguishes (players, users, handlers, keys, sessions, houses, commands, connections).

**Deadlock** is checked in `room` and `catalog`. The others stop by themselves, and `CHECK_DEADLOCK FALSE` says so: a terminal
session at the end of time, a stored result or an ended match has nothing left to do, requests, changes and disturbances are bounded, and everybody may
delete their account or close their socket.

**Fairness.** `GameSession!FairSpec` is fair to the deadline timer, which the owning room re-arms
until the deadline is handled, and to the clock. It is not fair to clients. `RoomOwnership!FairSpec`
is weakly fair to each instance as a whole, because rooms scan, tick, publish and retry on tickers, and
to the expiry of leases nobody renews. `CommandStream!FairStreamSpec` is weakly fair to each reader and room of a living instance
and to the expiry of leases, and strongly fair to the redelivery of each entry, because the ticker of `redeliverPending` goes through
the pending entries of a map whose order Go chooses anew each time. `GameCatalog!Spec` is weakly fair to each instance's timer, loop and
handlers. None is fair to a fault, a cancel, a delivery by a client or a write. The other modules check safety only.

Each property of a passing run has a mutant in PROJECT.json, a plausible bug in the code it is
aimed at (a dropped guard, an unconditional write, a respawn instead of a restore) defined next to the
operator it replaces; the property fails under it.

### The findings, and other places where code and text disagree

**A lobby deadline can be overrun for good** (`session_overrun`). Every operation requires a
timestamp no earlier than the last change, and a deadline's transition is dated to the deadline.
A join, or a leave that keeps enough ready players, accepted in the moment between the deadline
and its handling moves `updatedAt` past it; `Advance(deadline)` then fails with
`ErrTimestampOutOfOrder` each time the timer fires. `reconcilePlayers` avoids exactly this for its own writes and says why; the
players' commands do not.

**A proposed result can be lost to a stall.** `Submit` (`houseTanks/runtime.go:219-296`, `houseRockets/runtime.go:165-256`) notes
when a player was last heard, also while the scheduler is more than `maximumCatchUp` behind. The next step then ends the match for
overload, and the checkpoint that carries the proposal has a `LastSeen` more than `maximumCatchUp` after its own time, which
`houseTanks/runtimeCheckpoint.go:121` and `houseRockets/runtimeCheckpoint.go:118` refuse. An owner that stops between protecting and
committing the proposal leaves a match that ends as `recoveryFailed`, although `roomCompletion.go:157` says "The proposal must survive this owner's crash
before it is committed", and `external/doc/houseRocketsMultiplayerPlan.md:1448` that a terminal proposal is kept. The same happens to a
checkpoint saved for a cancel, a full queue or a requested snapshot in such a stall. `EveryCheckpointRestores` and `ProposalKept` name the exception (`HeardInStall`)
and say that there is no other. `ProposalSurvives` is `ProposalKept` without it: with that as the only property of `TickHost.cfg` TLC shows the loss. In RoomOwnership a refused checkpoint is a lost one (`LoseCheckpoint`).

**A socket can join a hub that hears nothing.** When a subscription fails, the hub's loop disconnects its clients and
returns (`gateway.go:746-754`), but the hub stays registered until the last of them has left (`gateway.go:462-475`), and `joinHub` adds
whoever comes in between (`gateway.go:421-424`). That socket becomes active with the session it read and is told nothing that another instance
publishes afterwards, neither sessions nor revocations, until it closes for another reason. `external/doc/architecture-decisions.md:598-605`
promises that what is newer than the initial snapshot is delivered in order, by one subscription per room and instance. `NothingMissed` and
`RevokedAreDisconnected` name the exception (`Deaf`). `PublishedArrives` is `NothingMissed` without it: with that as the only
property of `RoomGateway.cfg` TLC shows such a socket.

The models also contain, and the properties are worded around, the following:

* `freezePlayers` tells players of the match from others by `leftAt >= startedAt - countdown`; a player excluded in the
  very instant the window closes is therefore in a recovered roster, although `roomLobby.go:198-199` says it is rebuilt from players who were
  ready before the countdown. `RosterIsFrozen` says that nobody is missing and whoever is too many left in that instant.
* A cancel that was refused as finalizing has already stored its trigger (`roomCompletion.go:106`); its redelivery is held and
  may be named for a result it did not produce (`roomCompletion.go:171-173`), which `completeMatch.go:96-97` refuses until the room gives up.
* `UpdateChoreStatus` deletes a photo after any error of its transaction, also one that leaves open whether it has committed;
  `docs/chore-review-photos.md:53-55` says "uncommitted". `PhotoLostOnlyUnanswered` is what holds.
* `providerAccountEvent.go:22-23` calls every step idempotent. A notice of withdrawn consent that is delivered again after
  the user has linked the account anew removes the new link; `dropped` in Accounts records it.

## 4. What is proved

`SessionProofs` has two parts. The first is about GameSession (any players, rules and bounds allowed by `SessionDomain`'s assumptions):

* `TypeCorrect`: `Spec => []TypeOK`;
* `AlwaysAcceptable`: `Spec => []SnapshotAcceptable`;
* `RosterStaysFrozen`: `Spec => []RosterIsFrozen`;
* `ChangesAreOrderedHolds`: `Spec => ChangesAreOrdered`;
* `LifecycleImplemented`: `Spec => ImplementsLifecycle`.

`SnapshotAcceptable` is not inductive: in the lobby and the ready window it says nothing of players in
state "playing" or "finished", and a session in a window must have its deadline. `Sound` adds
those; it is kept by every building block at any number of ready players. `Balanced` (a window or a
countdown has enough of them) is not, and is restored at the end of each operation: by
`ReconcileReadyWindow` after a change of readiness, by `WithoutEnoughReady` after a departure. The lemmas
follow that order: one for each building block about `Sound`, one for each operation about `Good == Sound /\ Balanced`. `SessionInv` is
`Good` with the clock's and the history variable's types. The assumption that carries most is `MinPlayers >= 2`, which
`SessionRules.Validate` enforces, with durations that are not negative.

`HistoryInv` adds what a session remembers of its past: that its window, its countdown and its players changed at times
consistent with each other, and that whoever plays was ready when the lobby closed. Every operation is a chain of building blocks, each of
which is one of a few ways a session may change (`Moves`); the order of changes and the step of `MatchLifecycle` are read off those.

The second is about CommandStream (any instances, players, board and lines, any scripts, faults and queue size; finitely many cells, no empty
line, and players who joined once each and are enough for a match). The theorems are about `StreamSpec`, without fairness; the run's
`FairStreamSpec` implies it:

* `EffectsHappenOnce`: `StreamSpec => []EffectsOnce`;
* `ResultsAreEarned`: `StreamSpec => []ResultIsEarned`;
* `TurnsHonoured`: `StreamSpec => TurnsAreHonoured`.

`StreamInv` has a part about the match and one about the commands. `MatchInv` says that a match between two transactions is in one of three
phases: it has not begun (`Unbegun`; the session may be running already, since the countdown can end in a command that does not settle), two
players who both still play sit at a board on which nobody has won (`UnderWay`), or it is over with an earned result (`Over`). `ResultIsEarned`
alone is not inductive: nothing in it keeps a board with a line from being played on, or a forfeit from being awarded in a game that had been won.
Within a command the match goes through phases no other step sees, a player gone and the match not yet decided (`Leaving`), a result proposed and the session not yet ended
(`Proposed`), so the lemmas follow the engine's order: who began (`GameBegins`, `BegunIs`), what settling makes of it (`ExpireProposes`, `ReconcileTurnIs`, `SettleIs`), what a mark does
(`ApplyMoveIs`), how the result is saved (`ProposalCommitted`), and then one for each command (`...Honest`, `MoveHonoured`). Each of those says besides what
the step may do to the board and the turn (`Honoured`), which makes `TurnsAreHonoured` a consequence of the invariant's step. It
holds whatever the deciding room remembers, because a command is settled on the stored session and a deadline's transition is dated
no later than the clock (`RoomIn`).

Of the commands, `HistoryOK` says that the applied ones are those with a receipt, each once and each sent, and `Entries` that every entry in a stream, among the unacknowledged or
in a room's queue is of a sent command. Since duplicates multiply freely there, only the receipt keeps an effect from happening twice; that is
one transaction with the effect (`SessionStore` is about that).

The proof found a fault of the model that the runs had not: an ended match, whose result stays in the record, proposed it again to the
session with the next exclusion. The code does not (`turnEngine.go:51-53`), and `Committed` no longer does.

`SessionStoreProofs` (any handlers, sessions, keys, retries and events per change):

* `VersionsIdentify`: `Spec => []VersionIdentifiesContent`;
* `StoreImplementsLedger`: `Spec => ImplementsLedger`;
* `AnswersStayTrue`: `Spec => []AnswersAreTrue`.

`StoreInv` says that what a handler has read is no newer than what is stored and is the same if
the version is the same (`Fresh`), for each position at which it may still write. It is
inductive because documents only grow: the version rises with each write that changes
anything (`WriteGrows`). The refinement maps the write of a document with its receipt to one step of the
ledger and every other step to a stutter. Answers stay true because a receipt is written once, with the change it stands for, and a stored
session is never removed.

`RoomOwnershipProofs` (any instances, leases, frames, restarts and faults). The theorems are about `Spec`, without fairness; the run's
`FairSpec` implies it.

* `OneWorldHolds`: `Spec => []OneWorld`;
* `NotDisplaced`: `Spec => OwnerNotDisplaced`;
* `NoGhost`: `Spec => NoGhostCheckpoint`;
* `OutcomeStandsHolds`: `Spec => []OutcomeStands`.

The lease alone protects nothing: it lapses without its holder knowing. What protects is the order of `activateRoom`, which reads the
generation *before* it asks for the lease and claims by compare-and-set: a claim that succeeds is the first since that read, so whoever held an
earlier lease has lost it. `OwnerInv` says so for each position of a room, that the start is recorded once and that all worlds are
the recorded one. `FramesOK` says that what a room still has to publish comes from one run of its runtime. `OutcomeInv` follows the end of the
match from the frame that shows it: it is in the checkpoint of whoever owns the room, then in the result, unless Redis has
lost a checkpoint, which is why `OutcomeStands` excepts that.

`HouseholdProofs` (any users, houses, chores, photos, rounds and limits, any number of commits overtaking a handler):

* `HousesAlwaysAgree`: `Spec => []HousesAgree`, from `MembershipIsSymmetric`, `OwnersAreMembers` and `HousesAreWithinLimit`;
* `ReviewsAlwaysProceed`: `Spec => []ReviewsProceed`;
* `CompletedIsApproved`: `Spec => []ApprovedByTheOthers`;
* `PhotosStay`: `Spec => []PhotoLostOnlyUnanswered`.

None is inductive, because a handler decides on a snapshot. `HouseholdInv` therefore says `Sound` (well-formed accounts and
houses, nobody listed twice, no more than the limit, the owner a member, both sides of each membership) of the database *and* of
every snapshot, and that a snapshot agrees with the database on each document not written since. A
transaction that commits has read the current content of what it writes (`CurrentReads`). That is
enough for a handler that changes one house and one account (`Together`); the removal of an account changes any
number of houses, and needs symmetry itself to know that no house it has not read lists the user.

The reviews need more, because `ApplyReview` decides by numbers, of votes and of members, both read from the snapshot. `RoundsOK` relates a chore to
its votes in every round; `ReviewOK` says of an undisturbed round that its approvals come from the household and are fewer than all of it until the
chore is completed; `ReadsReview` says that a snapshot in which the chore is current has all of its votes (every vote also writes the chore,
which is what makes two concurrent votes conflict) and, if the round is undisturbed, the household as it is. So the numbers that were compared are
those of the present, and a set of approvals that has as many members as there are reviewers is all of them. `ReviewStep` reduces each handler
to the chores it writes. `PhotoInv` says that a photo named by a chore was committed by its own request.

`AccountsProofs` (any users, emails, provider accounts and limits, any number of commits overtaking a handler):

* `NobodyIsLockedOut`: `Spec => []NobodyLockedOut`;
* `LimitsAlwaysHold`: `Spec => []LimitsHold`, from its two halves, `WrongPasswordsAlwaysLock` and `ProfilesChangeOnce`;
* `RevokedLinksAreGone`: `Spec => []RevokedIsGone`.

Here a handler may have read several times, so `SnapshotsInv` is about one snapshot and about pairs of them. `Since` says of one that a document
not written since is as it was, and, of an account not written since, that no history was added and that links went only because
consent was withdrawn: this is what the write of the user in `UnlinkSocialProvider` and `UpdateProfile` is for, which makes those that
rely on it conflict. `Older` says of two that accounts come and go once, and that a link of the older one that is still in the database is in the newer
one too: links are numbered as they are made (`Numbered`), so one that is gone never returns. Hence a removal deletes every link whose
authorization it has read before its transaction and that is still there. `Settled` is about the database alone: the document's count is that of
what happened, and whoever has no password has a way in. `StepOK` reduces each handler to what it may write.

`TankArenaProofs` (any players, kinds of jokers, rules and bounds allowed by `TankArena`'s assumption):

* `ArmorHolds`: `Spec => []ArmorTakesTime`;
* `JokersVary`: `Spec => NeverTwiceInARow`;
* `AimIsLetGo`: `Spec => []AimIsHeldByAShot`;
* `BagsRestore`: what the bag holds is at all times what the restoration of a checkpoint accepts.

`ArmorInv` says `Fit` of the arena: the protection of a living tank that has lost *n* points reaches *n* protections past the end of the
countdown (`Worn`). A world that changes without a hit keeps that (`NoHitFit`); a hit needs the protection of the last one to have run out, and is
the one place where armour goes down (`StruckWorn`), however many shots of a volley arrive with it. `DealerInv` relates the joker on top of the
bag to the kind last dealt, in the round and in the bag the match keeps between rounds. `AimInv` says that no shot in flight was fired after its
tank's barrel last was; the shots of a new volley are therefore distinct from those in flight, and what they hold can be counted
by addition.

`GameCatalogProofs` (any instances, releases, games, writes and faults):

* `UpdatesAreServed`: `Spec => []CatalogOK`;
* `CatalogNeverGoesBack`: `Spec => NeverGoesBack`.

`CatalogInv` has three parts. `Behind`: what an instance serves was stored before. `OneReload`: an instance
has one reload under way, and what it has read lies between what is served and what is stored; this is what the mutex of `Refresh`
is for. `ReadsItsWrite`: the reload of an update's handler has read what that handler saved, or something later. Stores of a reload
then move every game forward or leave it (`ResolvedAdvances`), and `NeverGoesBack` follows from the invariant step by step.

`AppEventsProofs` (any instances, connections, users, commands, houses and limits; houses and connections are finite sets, and the
word that stands for a user's own data is no house):

* `ServiceStaysOK`: `Spec => []ServiceOK`;
* `NobodyStaysStale`: `Spec => []NobodyIsLeftStale`.

An announcement is on its way in one of three places, what its command has still to do, what the instance has still to deliver, what the
socket has still to send, and each step moves it from one to the next or loses it. `AllInformed` says of each member
whose client would stay open that one of the three still names what is out of date for it; it reads the queues as sets (`Reaches`), because
no order matters to it. It is kept because whatever loses an announcement closes the sockets it was for (a full queue, a
subscription that fails), or is recorded in `missed`, and because a step that adds somebody to an audience after the lookup also announces
that. It needs two facts of its own: that the removal of an account announces nothing before it is done (`TodoOK`: it is its command's
only step; to say only that it comes last is not inductive), and that a socket is among its instance's clients until it closes
(`SocketsOK`), so that the loop which closes or serves "all clients" passes none by. The limits are inductive with the same facts: a
registration checks again under the lock what the upgrade had checked without it.

The proofs rest on the modules' named assumptions about their constants and on nothing else.

**Model-checked only.** Liveness (`LobbyMovesOn`, `MatchEnds`, `CommandsAreDecided`, `Converges`): fairness and ENABLED are
outside the proof system's reach. That commands do not multiply on their way (in `CommandsAreDecided`): it counts the moves
of a room against the faults, and is checked for up to 2. The safety properties of TickHost and RoomGateway: their steps fold
over players, ticks and frames, and what a fold returns needs induction over data: in TickHost the ticks of an `Advance` and the players
it unbinds, in GatewayClient the messages an activated client is given (`Replayed`), on which `NothingMissed` and `EndedBeforeResult` rest,
and `RevokedAreDisconnected` through the type of a client. No model declares a RECURSIVE operator, so proofs may be added to any module. What a
recursion over data computes for every input would stay with TLC in any case: the library's induction theorems
take an operator as a parameter, which no installed prover instantiates.

## 5. What is not modelled

* **The local deadline of a room lease** (`coordination/roomLease.go`, `realtime/room.go`). The models have no clock for leases: one may
  lapse under an owner that does not know, at any time. That allows everything the clock would allow, and more. In the same way no
  model has two clocks, so presence that is judged by another instance's clock is only present as "any set of players may be excluded".
* **Expiry of receipts** (`migrations/0044`), of invite, verification and reset codes, and the limits on changes of an invite or announcement: a
  clock and a counter each, with nothing that reacts to them concurrently.
* **The gateway's limits per user and house, token expiry, pings and rate limits of a socket.** The process limit, which is checked in the same way and
  at the same place, is modelled.
* **Geometry and physics of both games**: positions, collisions, courses, map generation. They are floating-point computations that the
  repository's tests compare with recorded fixtures; the models let a tick have any outcome the rules allow, which covers every geometry.
* **Announcements of a house**: single document writes that nothing else reads.
* **Localization cache, rate limiter**: a map filled on demand and a counter with an expiry.
* **Social identity providers, storage of images, mail, push**: I/O with external services; `Accounts` has Apple's authorizations and the
  order of calls, Household the photos' order of calls.
* **The game module registry, the mediator, HTTP controllers, wiring, configuration, DTOs, migrations, generated API descriptions**: no state that
  changes, or none after start. Which command announces which event (`cmd/api/routes.go`) is in AppEvents.

Worth doing next: a `RoomLease` module with Redis' clock and the owner's.

## 6. Running it

`tlc -workers 2 -config GameSession.cfg GameSession`, and likewise for each pair of `module` and `cfg` under `runs` in PROJECT.json;
`tlapm SessionProofs.tla`, and likewise for the other modules whose names end in `Proofs`. `catalog` takes
two to three minutes, `tick`, `gateway`, `accounts`, `room` and `household` one to two each, the others about one or less. They take longer when run side by side.
