----------------------------- MODULE SessionStore -----------------------------
(***************************************************************************)
(* The stored sessions of one house and game, their command receipts, and  *)
(* the command handlers that read, decide and write them concurrently.     *)
(*                                                                         *)
(* A document's content is abstracted to the log of the changes it holds.  *)
(* The domain decides how many events a change records and whether it ends *)
(* the session (module GameSession); here any number may come out.         *)
(***************************************************************************)
EXTENDS Naturals, Sequences

CONSTANTS
  Handlers,   \* handler executions: API requests, rooms and their retries
  Sessions,   \* session identifiers
  Keys,       \* (actorId, commandId) of client commands
  System,     \* the actor of the room's own transitions
  None,
  MaxEvents,  \* most events of one change
  MaxTries    \* bound: how often a request is handed to a handler

ASSUME StoreAssumption ==
  /\ MaxEvents \in Nat \ {0} /\ MaxTries \in Nat
  /\ System \notin Keys

\* The payload of a request is everything but its key: the hash covers it.
EnsureRequests == [kind : {"ensure"}, key : Keys]
ChangeRequests == [kind : {"change"}, key : Keys, session : Sessions]
SystemRequests == [kind : {"system"}, key : {System}, session : Sessions]
ClientRequests == EnsureRequests \cup ChangeRequests
Requests == ClientRequests \cup SystemRequests

Document == [status : {"absent", "open", "ended"}, version : Nat, log : Seq(Keys \cup {System})]
Absent == [status |-> "absent", version |-> 0, log |-> <<>>]

ASSUME NoneAssumption == None \notin Requests

\* Where a handler stands: it looks for a receipt, for the open session of the
\* slot, decides and writes, looks for a receipt again after an error, and
\* after a rejected creation looks twice for the session that was in the way.
Positions == {"idle", "check", "active", "write", "lookup", "exists", "again"}

VARIABLES
  docs,       \* gameSessions collection
  receipts,   \* gameSessionCommandReceipts: the request recorded for a key
  handlers,   \* [at, request, base]: base is the document that was read
  tries,      \* requests handed out so far
  answers     \* history: <<request, session>> of every successful answer

vars == <<docs, receipts, handlers, tries, answers>>

Idle == [at |-> "idle", request |-> None, base |-> Absent]

Init ==
  /\ docs = [s \in Sessions |-> Absent]
  /\ receipts = [k \in Keys |-> None]
  /\ handlers = [h \in Handlers |-> Idle]
  /\ tries = 0
  /\ answers = {}

-----------------------------------------------------------------------------
(* Building blocks                                                         *)

At(h, position) == handlers[h].at = position
Request(h) == handlers[h].request
Base(h) == handlers[h].base

\* Mutant: the receipt's payload is not compared.
ProcessedAnyPayload(r) == receipts[r.key] # None

\* the key's receipt is missing, or there and for this or another payload
Unprocessed(r) == receipts[r.key] = None
Processed(r) == receipts[r.key] = r

GoTo(h, position) == handlers' = [handlers EXCEPT ![h].at = position]
Return(h) == handlers' = [handlers EXCEPT ![h] = Idle]

\* the handler returns session s to its caller
Answer(h, s) == Return(h) /\ answers' = answers \cup {<<Request(h), s>>}

Open(s) == docs[s].status = "open"
Stored(s) == docs[s].status # "absent"

\* The session a receipt names: an ensure receipt names the one it opened.
Recorded(r) == IF r.kind = "change" THEN {r.session}
               ELSE {s \in Sessions : docs[s].log # <<>> /\ Head(docs[s].log) = r.key}

-----------------------------------------------------------------------------
(* A request arrives: from a client, resent by it, redelivered unacked, or *)
(* retried by the room.  Requests on a session read it first.              *)

Arrive(h, r) ==
  /\ At(h, "idle")
  /\ tries < MaxTries
  /\ tries' = tries + 1
  /\ IF r.kind = "ensure"
       THEN handlers' = [handlers EXCEPT ![h] = [at |-> "check", request |-> r, base |-> Absent]]
       ELSE /\ Stored(r.session)
            /\ handlers' = [handlers EXCEPT ![h] =
                 [at |-> "check", request |-> r, base |-> docs[r.session]]]
  /\ UNCHANGED <<docs, receipts, answers>>

\* processedSnapshot: system transitions keep no receipt.
FindProcessed(h) ==
  /\ At(h, "check")
  /\ LET r == Request(h) IN
     IF r.kind = "system" \/ Unprocessed(r)
       THEN GoTo(h, IF r.kind = "ensure" THEN "active" ELSE "write") /\ UNCHANGED answers
       ELSE IF Processed(r) THEN \E s \in Recorded(r) : Answer(h, s)
       ELSE Return(h) /\ UNCHANGED answers      \* ErrCommandIDReused
  /\ UNCHANGED <<docs, receipts, tries>>

-----------------------------------------------------------------------------
(* Changing a session: the decision is taken on the base document.         *)

\* Mutant: a change of the document without an event keeps the version.
ChangedUnversioned(base, key, events, ends) ==
  [ status  |-> IF ends THEN "ended" ELSE base.status,
    version |-> base.version + events,
    log     |-> Append(base.log, key) ]

Changed(base, key, events, ends) ==
  [ status  |-> IF ends THEN "ended" ELSE base.status,
    version |-> base.version + events,
    log     |-> IF events = 0 THEN base.log ELSE Append(base.log, key) ]

\* Mutant: the last writer wins.
VersionIgnored(h, s) == Base(h).version > 0

\* ReplaceOne filters on the version the handler read.
VersionMatches(h, s) == docs[s].version = Base(h).version

\* The domain rejects a change of an ended session.
Reject(h) ==
  /\ At(h, "write")
  /\ Request(h).kind # "ensure"
  /\ Base(h).status = "ended"
  /\ Return(h)
  /\ UNCHANGED <<docs, receipts, tries, answers>>

\* Save of a client command: receipt and document in one transaction, whose
\* outcome may be lost on the way back.
SaveChange(h) ==
  /\ At(h, "write")
  /\ Request(h).kind = "change"
  /\ Base(h).status = "open"
  /\ LET r == Request(h) IN
     \E events \in 0 .. MaxEvents, ends \in BOOLEAN :
       /\ ends => events > 0
       /\ Unprocessed(r) /\ VersionMatches(h, r.session)
       /\ docs' = [docs EXCEPT ![r.session] = Changed(Base(h), r.key, events, ends)]
       /\ receipts' = [receipts EXCEPT ![r.key] = r]
       /\ \/ Answer(h, r.session)
          \/ GoTo(h, "lookup") /\ UNCHANGED answers
  /\ UNCHANGED tries

\* The transaction aborts: duplicate receipt, another version, or a failure.
AbortChange(h) ==
  /\ At(h, "write")
  /\ Request(h).kind = "change"
  /\ Base(h).status = "open"
  /\ GoTo(h, "lookup")
  /\ UNCHANGED <<docs, receipts, tries, answers>>

\* Save of a system transition: nothing to write without events, otherwise one
\* conditional write; the caller reloads after an error.
SaveTransition(h) ==
  /\ At(h, "write")
  /\ Request(h).kind = "system"
  /\ Base(h).status = "open"
  /\ LET s == Request(h).session IN
     \/ UNCHANGED docs
     \/ \E events \in 1 .. MaxEvents, ends \in BOOLEAN :
          /\ VersionMatches(h, s)
          /\ docs' = [docs EXCEPT ![s] = Changed(Base(h), System, events, ends)]
  /\ Return(h)
  /\ UNCHANGED <<receipts, tries, answers>>

\* After an error the command may have been processed all the same, by this
\* very transaction or by another handler.
LookUp(h) ==
  /\ At(h, "lookup")
  /\ LET r == Request(h) IN
     \/ /\ Processed(r)
        /\ \E s \in Recorded(r) : Answer(h, s)
     \/ /\ Unprocessed(r) /\ r.kind = "ensure"
        /\ GoTo(h, "exists") /\ UNCHANGED answers
     \/ /\ Return(h) /\ UNCHANGED answers       \* reused, not found or lookup failed
  /\ UNCHANGED <<docs, receipts, tries>>

-----------------------------------------------------------------------------
(* Opening the session of a house and game                                 *)

\* An open session answers the request and leaves no receipt.
FindActive(h) ==
  /\ At(h, "active")
  /\ \/ \E s \in Sessions : Open(s) /\ Answer(h, s)
     \/ (\A s \in Sessions : ~Open(s)) /\ GoTo(h, "write") /\ UNCHANGED answers
  /\ UNCHANGED <<docs, receipts, tries>>

\* The unique indexes on the active key and on receipts guard the insertion.
Create(h) ==
  /\ At(h, "write")
  /\ Request(h).kind = "ensure"
  /\ LET r == Request(h) IN
     \E s \in Sessions :
       /\ docs[s] = Absent
       /\ Unprocessed(r) /\ \A t \in Sessions : ~Open(t)
       /\ docs' = [docs EXCEPT ![s] = [status |-> "open", version |-> 1, log |-> <<r.key>>]]
       /\ receipts' = [receipts EXCEPT ![r.key] = r]
       /\ \/ Answer(h, s)
          \/ Return(h) /\ UNCHANGED answers     \* the outcome is lost
  /\ UNCHANGED tries

AbortCreate(h) ==
  /\ At(h, "write")
  /\ Request(h).kind = "ensure"
  /\ \/ /\ ~Unprocessed(Request(h)) \/ \E s \in Sessions : Open(s)
        /\ GoTo(h, "lookup")
     \/ Return(h)                               \* any other failure
  /\ UNCHANGED <<docs, receipts, tries, answers>>

\* Create and then the handler ask for the session that was in the way; it may
\* have ended in between.
FindRival(h) ==
  /\ At(h, "exists") \/ At(h, "again")
  /\ \/ /\ \E s \in Sessions : Open(s)
        /\ At(h, "exists")
        /\ GoTo(h, "again") /\ UNCHANGED answers
     \/ At(h, "again") /\ \E s \in Sessions : Open(s) /\ Answer(h, s)
     \/ (\A s \in Sessions : ~Open(s)) /\ Return(h) /\ UNCHANGED answers
  /\ UNCHANGED <<docs, receipts, tries>>

-----------------------------------------------------------------------------
\* The process dies or its context ends: the caller gets no answer.
Crash(h) ==
  /\ ~At(h, "idle")
  /\ Return(h)
  /\ UNCHANGED <<docs, receipts, tries, answers>>

Next ==
  \E h \in Handlers :
    \/ \E r \in Requests : Arrive(h, r)
    \/ FindProcessed(h) \/ Reject(h) \/ SaveChange(h) \/ AbortChange(h)
    \/ SaveTransition(h) \/ LookUp(h) \/ FindActive(h) \/ Create(h)
    \/ AbortCreate(h) \/ FindRival(h) \/ Crash(h)

Spec == Init /\ [][Next]_vars

-----------------------------------------------------------------------------
(* Properties                                                              *)

\* Every variable has its type.
TypeOK ==
  /\ docs \in [Sessions -> Document]
  /\ receipts \in [Keys -> ClientRequests \cup {None}]
  /\ handlers \in [Handlers -> [at : Positions, request : Requests \cup {None}, base : Document]]
  /\ tries \in 0 .. MaxTries
  /\ answers \subseteq Requests \X Sessions

\* A version identifies a document's content: what a handler has read is no
\* newer than the stored document, and the very same document if the version
\* is the same.  The conditional write is safe only because of this.
VersionIdentifiesContent ==
  \A h \in Handlers :
    At(h, "write") /\ Request(h).kind # "ensure" =>
      LET stored == docs[Request(h).session]
      IN  /\ Base(h).version <= stored.version
          /\ Base(h).version = stored.version => Base(h) = stored

\* A client that was told its command succeeded has a durable receipt of
\* exactly that command; one that asked for a session has been given one that
\* exists.
AnswersAreTrue ==
  /\ TypeOK
  /\ \A r \in ClientRequests, s \in Sessions : <<r, s>> \in answers =>
      IF r.kind = "change" THEN receipts[r.key] = r /\ s = r.session
                           ELSE Stored(s)

\* All interleavings, resends, lost outcomes and crashes together do no more
\* than one request at a time would.
Ledger == INSTANCE SessionLedger
  WITH log <- [s \in Sessions |-> docs[s].log],
       status <- [s \in Sessions |-> docs[s].status],
       done <- {k \in Keys : receipts[k] # None}

ImplementsLedger == Ledger!Spec
=============================================================================
