----------------------------- MODULE SessionLedger -----------------------------
(***************************************************************************)
(* What the session store promises, as if every request ran alone: a       *)
(* session is a log of changes, a client command takes effect at most once *)
(* however often it is sent, a house has at most one open session of a     *)
(* game, and an ended session stays as it is.                              *)
(***************************************************************************)
EXTENDS Sequences

CONSTANTS
  Sessions,   \* session identifiers
  Keys,       \* (actorId, commandId) of client commands
  System      \* the room's own transitions, which carry no client key

VARIABLES
  log,      \* per session, who changed it: client keys and System
  status,   \* per session: "absent", "open" or "ended"
  done      \* client keys that have taken effect

vars == <<log, status, done>>

Init ==
  /\ log = [s \in Sessions |-> <<>>]
  /\ status = [s \in Sessions |-> "absent"]
  /\ done = {}

NoneOpen == \A s \in Sessions : status[s] # "open"

Open(k, s) ==
  /\ k \notin done
  /\ NoneOpen
  /\ status[s] = "absent"
  /\ status' = [status EXCEPT ![s] = "open"]
  /\ log' = [log EXCEPT ![s] = <<k>>]
  /\ done' = done \cup {k}

\* One more change, which may be the last.
Change(k, s) ==
  /\ status[s] = "open"
  /\ \E after \in {"open", "ended"} : status' = [status EXCEPT ![s] = after]
  /\ log' = [log EXCEPT ![s] = Append(@, k)]

Apply(k, s) == k \notin done /\ Change(k, s) /\ done' = done \cup {k}

\* A command that finds everything as it asks for.
Confirm(k, s) ==
  /\ k \notin done
  /\ status[s] = "open"
  /\ done' = done \cup {k}
  /\ UNCHANGED <<log, status>>

Advance(s) == Change(System, s) /\ UNCHANGED done

Next ==
  \/ \E k \in Keys, s \in Sessions : Open(k, s) \/ Apply(k, s) \/ Confirm(k, s)
  \/ \E s \in Sessions : Advance(s)

Spec == Init /\ [][Next]_vars
=============================================================================
