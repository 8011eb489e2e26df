---------------------------- MODULE GatewayClient ----------------------------
(***************************************************************************)
(* One socket's view of its room (gatewayClient and v2ClientState of       *)
(* gateway.go and gatewayV2.go): what waits to be written, the newest      *)
(* session version and runtime frame it was given, its control grant and   *)
(* the work it still owes the runtime.  An operator is a handler that runs *)
(* under the client's mutex.                                               *)
(*                                                                         *)
(* A message is its kind and its place in the order of its kind: n is a    *)
(* session version or a frame's sequence, and epoch the generation of the  *)
(* runtime that sent it.  Contents are left out.                           *)
(***************************************************************************)
EXTENDS Integers, SequencesExt

CONSTANTS
  None,          \* no frame, no grant, no event
  OutboundQueue  \* capacity of a client's outbound queue

ASSUME OutboundAssumption == OutboundQueue \in Nat /\ OutboundQueue >= 3

(* snapshot: a published session.  reply: the session a resync asked for.  *)
(* state: a turn game's board.  frame and ended: a tick game's world.      *)
Kinds == {"welcome", "snapshot", "reply", "state", "frame", "ended", "result", "grant"}
Messages == [kind : Kinds, epoch : Nat, n : Nat]
Message(kind, epoch, n) == [kind |-> kind, epoch |-> epoch, n |-> n]
Frames == [kind : {"frame", "ended"}, epoch : Nat, n : Nat]

Clients ==
  [active : BOOLEAN, stopped : BOOLEAN,
   pending : Seq(Messages), outbound : Seq(Messages),
   snapshots : Frames \cup {None}, pendingSnapshot : Frames \cup {None},
   sessionVersion : Nat, epoch : Nat, sequence : Nat,
   phase : {"none", "playing", "ended", "recovering"}, frame : Frames \cup {None},
   grant : Nat \cup {None}, needSnapshot : BOOLEAN, needBind : BOOLEAN, boundRecently : BOOLEAN]

NewClient(epoch) ==
  [active |-> FALSE, stopped |-> FALSE,
   pending |-> <<>>, outbound |-> <<>>, snapshots |-> None, pendingSnapshot |-> None,
   sessionVersion |-> 0, epoch |-> epoch, sequence |-> 0, phase |-> "none", frame |-> None,
   grant |-> None, needSnapshot |-> TRUE, needBind |-> TRUE, boundRecently |-> FALSE]

(* The socket is closed: nothing the client still holds will be written.   *)
Stopped(cl) == [NewClient(cl.epoch) EXCEPT !.stopped = TRUE]

-----------------------------------------------------------------------------
(* The outbound queue                                                      *)

(* Mutant: everything published is shown.                                  *)
OutdatedNever(cl, m) == FALSE

(* A published session that is not newer than the one shown is dropped.    *)
Outdated(cl, m) == m.kind = "snapshot" /\ m.n <= cl.sessionVersion

Noted(cl, m) == IF m.kind = "snapshot" THEN [cl EXCEPT !.sessionVersion = m.n] ELSE cl

Sent(cl, m) ==
  IF Len(cl.outbound) < OutboundQueue THEN [cl EXCEPT !.outbound = Append(@, m)]
  ELSE Stopped(cl)

Kept(cl, m) ==
  IF Len(cl.pending) < OutboundQueue - 2 THEN [cl EXCEPT !.pending = Append(@, m)]
  ELSE Stopped(cl)

Enqueue(cl, m) ==
  CASE ~cl.active -> Kept(cl, m)
    [] cl.active /\ Outdated(cl, m) -> cl
    [] OTHER -> Sent(Noted(cl, m), m)

(* The welcome, the session as it was read, and what was published since   *)
(* the hub was joined.  FALSE is answered when that is more than the queue *)
(* holds, and the client stays inactive.                                   *)
Initial(version, turn) ==
  <<Message("welcome", 0, 0), Message("snapshot", 0, version)>>
    \o (IF turn THEN <<Message("state", 0, version)>> ELSE <<>>)

(* Mutant: what was published while the session was read is forgotten.     *)
ReplayedWithout(cl, version, turn) ==
  [cl EXCEPT !.outbound = Initial(version, turn), !.sessionVersion = version]

Replayed(cl, version, turn) ==
  FoldLeft(LAMBDA to, m : IF Outdated(to, m) THEN to
                          ELSE [Noted(to, m) EXCEPT !.outbound = Append(@, m)],
           [cl EXCEPT !.outbound = Initial(version, turn), !.sessionVersion = version],
           cl.pending)

CanActivate(cl, version, turn) == Len(Replayed(cl, version, turn).outbound) <= OutboundQueue

Activate(cl, version, turn) ==
  [Replayed(cl, version, turn) EXCEPT !.pending = <<>>, !.active = TRUE,
     !.snapshots = cl.pendingSnapshot, !.pendingSnapshot = None]

-----------------------------------------------------------------------------
(* Runtime frames                                                          *)

(* Everything that belonged to an earlier owner's runtime is forgotten.    *)
NewEpoch(cl) == [cl EXCEPT !.grant = None, !.sequence = 0, !.needBind = TRUE, !.boundRecently = FALSE]

Showing(cl, f) ==
  [IF f.epoch > cl.epoch THEN NewEpoch(cl) ELSE cl EXCEPT
     !.epoch = f.epoch, !.sequence = f.n, !.frame = f,
     !.phase = IF f.kind = "ended" THEN "ended" ELSE "playing"]

(* Mutant: the last frame is one more periodic frame.                      *)
ProjectedAsMotion(cl, f, targeted) ==
  CASE ~cl.active -> [cl EXCEPT !.pendingSnapshot = f]
    [] cl.active /\ targeted -> Sent([cl EXCEPT !.snapshots = None], f)
    [] OTHER -> [cl EXCEPT !.snapshots = f]

(* The newest periodic frame replaces the one not yet written; an answer   *)
(* to a request and the end of the match are queued.                       *)
Projected(cl, f, targeted) ==
  CASE ~cl.active -> [cl EXCEPT !.pendingSnapshot = f]
    [] cl.active /\ (targeted \/ f.kind = "ended") -> Sent([cl EXCEPT !.snapshots = None], f)
    [] OTHER -> [cl EXCEPT !.snapshots = f]

Repeats(cl, f) == f.epoch = cl.epoch /\ f.n <= cl.sequence

EnqueueGameFrame(cl, f, targeted) ==
  CASE f.epoch < cl.epoch -> cl
    [] Repeats(cl, f) /\ (~targeted \/ cl.frame = None) -> cl
    [] Repeats(cl, f) /\ targeted /\ cl.frame # None -> Projected(Showing(cl, cl.frame), cl.frame, TRUE)
    [] OTHER -> Projected(Showing(cl, f), f, targeted)

-----------------------------------------------------------------------------
(* Control                                                                 *)

Granted(cl, epoch) ==
  IF epoch < cl.epoch THEN cl
  ELSE Enqueue([IF epoch > cl.epoch
                THEN [cl EXCEPT !.sequence = 0, !.frame = None, !.needSnapshot = TRUE] ELSE cl
                EXCEPT !.epoch = epoch, !.grant = epoch, !.needBind = FALSE, !.boundRecently = FALSE],
               Message("grant", epoch, 0))

(* A presence refresh that found no owner made one of a newer epoch.       *)
Reelected(cl, epoch) ==
  IF epoch <= cl.epoch THEN cl
  ELSE [NewEpoch(cl) EXCEPT !.epoch = epoch, !.frame = None, !.phase = "recovering", !.needSnapshot = TRUE]

OwesBind(cl) == cl.needBind /\ cl.phase = "playing" /\ ~cl.boundRecently /\ cl.frame # None

RequestsMade(cl) ==
  [cl EXCEPT !.needSnapshot = FALSE, !.boundRecently = @ \/ OwesBind(cl)]

Resynced(cl) == [cl EXCEPT !.needBind = TRUE, !.boundRecently = FALSE]
=============================================================================
