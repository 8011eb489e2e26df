-------------------------- MODULE SessionStoreProofs --------------------------
(***************************************************************************)
(* SessionStore implements SessionLedger, and its answers are true, for any*)
(* number of handlers, sessions, keys and retries.                         *)
(***************************************************************************)
EXTENDS SessionStore, TLAPS

\* A handler that works on a session has read it.
Reads(h) == handlers[h].at \in {"check", "write"} /\ Request(h).kind # "ensure"

\* What a handler has read is no newer than what is stored, and the same
\* document if the version is the same; a session once stored stays.
Fresh(h) ==
  LET stored == docs[Request(h).session]
  IN  /\ stored.status # "absent"
      /\ Base(h).version <= stored.version
      /\ Base(h).version = stored.version => Base(h) = stored

\* A busy handler has a request that fits where it stands.
Busy(h) ==
  /\ handlers[h].at # "idle" => Request(h) \in Requests
  /\ handlers[h].at \in {"active", "exists", "again"} => Request(h).kind = "ensure"
  /\ handlers[h].at = "lookup" => Request(h).kind # "system"

StoreInv ==
  /\ TypeOK
  /\ \A h \in Handlers : Busy(h) /\ (Reads(h) => Fresh(h))

LEMMA AbsentDocument == Absent \in Document
  BY DEF Absent, Document

LEMMA IdleHandler == Idle \in [at : Positions, request : Requests \cup {None}, base : Document]
  BY AbsentDocument DEF Idle, Positions

\* What requests are made of.
LEMMA RequestParts ==
  ASSUME NEW r \in Requests
  PROVE  /\ r.kind \in {"ensure", "change", "system"}
         /\ r.kind # "ensure" => r.session \in Sessions
         /\ r.kind # "system" => r.key \in Keys /\ r \in ClientRequests
  BY DEF Requests, ClientRequests, EnsureRequests, ChangeRequests, SystemRequests

\* The empty receipt is no request.
LEMMA NoneIsNoRequest ==
  ASSUME NEW r \in ClientRequests
  PROVE  r # None
  BY NoneAssumption DEF Requests

\* A change yields a document, and one without events the very same document.
LEMMA ChangedDocument ==
  ASSUME NEW base \in Document, base.status = "open", NEW key \in Keys \cup {System},
         NEW events \in Nat, NEW ends \in BOOLEAN, ends => events > 0
  PROVE  /\ Changed(base, key, events, ends) \in Document
         /\ Changed(base, key, events, ends).status = IF ends THEN "ended" ELSE "open"
         /\ Changed(base, key, events, ends).version = base.version + events
         /\ events = 0 => Changed(base, key, events, ends) = base
         /\ events > 0 => Changed(base, key, events, ends).log = Append(base.log, key)
  <1>1. base.version \in Nat /\ base.log \in Seq(Keys \cup {System})
    BY DEF Document
  <1>2. base = [status |-> base.status, version |-> base.version, log |-> base.log]
    BY DEF Document
  <1>3. base.version + events \in Nat /\ Append(base.log, key) \in Seq(Keys \cup {System})
    BY <1>1
  <1>4. Changed(base, key, events, ends) \in Document
    BY <1>1, <1>3 DEF Changed, Document
  <1>5. events = 0 => Changed(base, key, events, ends) = base
    BY <1>1, <1>2 DEF Changed
  <1> QED BY <1>4, <1>5 DEF Changed

LEMMA InitStoreInv == Init => StoreInv
  BY IdleHandler, AbsentDocument, StoreAssumption
  DEF Init, StoreInv, TypeOK, Busy, Reads, Request, Idle

-----------------------------------------------------------------------------
(* How steps keep the invariant                                            *)

\* The stored documents only move on.
Grows == \A s \in Sessions :
  /\ docs[s].status # "absent" => docs'[s].status # "absent"
  /\ docs[s].version <= docs'[s].version
  /\ docs[s].version = docs'[s].version => docs[s] = docs'[s]

\* A handler that read the past of a document has read the past of what
\* replaces it.
LEMMA FreshKept ==
  ASSUME StoreInv, docs' \in [Sessions -> Document], Grows,
         NEW g \in Handlers, handlers'[g].at \in {"check", "write"} => Reads(g),
         handlers'[g].request = handlers[g].request, handlers'[g].base = handlers[g].base
  PROVE  Reads(g)' => Fresh(g)'
  <1> SUFFICES ASSUME Reads(g)' PROVE Fresh(g)'
    OBVIOUS
  <1>1. Reads(g) /\ Fresh(g) /\ Busy(g)
    BY DEF StoreInv, Reads, Request
  <1>2. Request(g) \in Requests /\ Request(g).kind # "ensure"
    BY <1>1 DEF Busy, Reads
  <1> DEFINE s == Request(g).session
  <1>3. s \in Sessions
    BY <1>2, RequestParts
  <1>4. /\ docs[s].version \in Nat /\ docs'[s].version \in Nat
        /\ Base(g).version \in Nat
    BY <1>3 DEF StoreInv, TypeOK, Document, Base
  <1>5. /\ docs[s].status # "absent" /\ Base(g).version <= docs[s].version
        /\ Base(g).version = docs[s].version => Base(g) = docs[s]
    BY <1>1 DEF Fresh
  <1>6. Request(g)' = Request(g) /\ Base(g)' = Base(g)
    BY DEF Request, Base
  <1>7. /\ docs'[s].status # "absent" /\ docs[s].version <= docs'[s].version
        /\ docs[s].version = docs'[s].version => docs[s] = docs'[s]
    BY <1>3, <1>5 DEF Grows
  <1> QED BY <1>4, <1>5, <1>6, <1>7 DEF Fresh

\* One handler goes where it needs no document, the others stay.
LEMMA HandlerKept ==
  ASSUME StoreInv, docs' \in [Sessions -> Document], Grows, NEW h \in Handlers,
         \/ Return(h)
         \/ \E position \in {"active", "exists", "again"} :
              GoTo(h, position) /\ Request(h).kind = "ensure" /\ ~At(h, "idle")
         \/ GoTo(h, "lookup") /\ Request(h).kind # "system" /\ ~At(h, "idle")
         \/ GoTo(h, "write") /\ At(h, "check")
         \/ GoTo(h, "write") /\ Request(h).kind = "ensure" /\ ~At(h, "idle")
  PROVE  /\ handlers' \in [Handlers -> [at : Positions, request : Requests \cup {None}, base : Document]]
         /\ \A g \in Handlers : Busy(g)' /\ (Reads(g)' => Fresh(g)')
  <1>0. /\ handlers \in [Handlers -> [at : Positions, request : Requests \cup {None}, base : Document]]
        /\ \A g \in Handlers : Busy(g)
    BY DEF StoreInv, TypeOK
  <1>1. CASE Return(h)
    <2>1. handlers'[h] = Idle /\ \A g \in Handlers \ {h} : handlers'[g] = handlers[g]
      BY <1>0, <1>1 DEF Return
    <2>2. Busy(h)' /\ ~Reads(h)'
      BY <2>1 DEF Busy, Reads, Request, Idle
    <2>3. ASSUME NEW g \in Handlers \ {h} PROVE Busy(g)' /\ (Reads(g)' => Fresh(g)')
      <3>1. Busy(g)'
        BY <1>0, <2>1 DEF Busy, Request
      <3>2. Reads(g)' => Fresh(g)'
        <4>1. CASE Reads(g)
          BY <2>1, <4>1, FreshKept
        <4>2. CASE ~Reads(g)
          BY <2>1, <4>2 DEF Reads, Request
        <4> QED BY <4>1, <4>2
      <3> QED BY <3>1, <3>2
    <2>4. handlers' \in [Handlers -> [at : Positions, request : Requests \cup {None}, base : Document]]
      BY <1>0, <1>1, IdleHandler DEF Return
    <2> QED BY <2>2, <2>3, <2>4
  <1>2. ASSUME NEW position \in Positions, GoTo(h, position), ~At(h, "idle"),
               position \in {"check", "write"} => Reads(h) \/ Request(h).kind = "ensure",
               position \in {"active", "exists", "again"} => Request(h).kind = "ensure",
               position = "lookup" => Request(h).kind # "system"
        PROVE  /\ handlers' \in [Handlers -> [at : Positions, request : Requests \cup {None}, base : Document]]
               /\ \A g \in Handlers : Busy(g)' /\ (Reads(g)' => Fresh(g)')
    <2>1. /\ handlers' \in [Handlers -> [at : Positions, request : Requests \cup {None}, base : Document]]
          /\ handlers'[h].at = position
          /\ \A g \in Handlers : handlers'[g].request = handlers[g].request
                                /\ handlers'[g].base = handlers[g].base
          /\ \A g \in Handlers \ {h} : handlers'[g].at = handlers[g].at
      BY <1>0, <1>2 DEF GoTo
    <2>2. ASSUME NEW g \in Handlers PROVE Busy(g)' /\ (Reads(g)' => Fresh(g)')
      <3>1. Busy(g)'
        BY <1>0, <1>2, <2>1 DEF Busy, Request, At
      <3>2. CASE Reads(g)
        BY <2>1, <3>1, <3>2, FreshKept
      <3>3. CASE ~Reads(g)
        BY <1>2, <2>1, <3>1, <3>3 DEF Reads, Request
      <3> QED BY <3>2, <3>3
    <2> QED BY <2>1, <2>2
  <1>3. {"write", "active", "exists", "again", "lookup"} \subseteq Positions
    BY DEF Positions
  <1>4. At(h, "check") => Reads(h) \/ Request(h).kind = "ensure"
    BY DEF Reads, At
  <1>5. At(h, "check") => ~At(h, "idle")
    BY DEF At
  <1>6. CASE GoTo(h, "write") /\ At(h, "check")
    BY <1>2, <1>3, <1>4, <1>5, <1>6
  <1>7. CASE GoTo(h, "write") /\ Request(h).kind = "ensure" /\ ~At(h, "idle")
    BY <1>2, <1>3, <1>7
  <1>8. CASE GoTo(h, "lookup") /\ Request(h).kind # "system" /\ ~At(h, "idle")
    BY <1>2, <1>3, <1>8
  <1>9. ASSUME NEW position \in {"active", "exists", "again"},
               GoTo(h, position), Request(h).kind = "ensure", ~At(h, "idle")
        PROVE  /\ handlers' \in [Handlers -> [at : Positions, request : Requests \cup {None}, base : Document]]
               /\ \A g \in Handlers : Busy(g)' /\ (Reads(g)' => Fresh(g)')
    BY <1>2, <1>3, <1>9
  <1> QED BY <1>1, <1>6, <1>7, <1>8, <1>9

\* Answering is returning; the session answered is one of the sessions.
LEMMA AnswerType ==
  ASSUME StoreInv, NEW h \in Handlers, ~At(h, "idle"), NEW s \in Sessions, Answer(h, s)
  PROVE  Return(h) /\ answers' \subseteq Requests \X Sessions
  BY DEF Answer, StoreInv, TypeOK, Busy, At, Request

LEMMA RecordedSessions ==
  ASSUME NEW r \in ClientRequests
  PROVE  Recorded(r) \subseteq Sessions
  BY DEF Recorded, ClientRequests, EnsureRequests, ChangeRequests

\* Unchanged documents trivially grow.
LEMMA NothingGrows == StoreInv /\ UNCHANGED docs => Grows /\ docs' \in [Sessions -> Document]
  BY DEF StoreInv, TypeOK, Grows, Document

\* Writing a change of the very document that is stored.
LEMMA WriteGrows ==
  ASSUME StoreInv, NEW h \in Handlers, At(h, "write"), Request(h).kind # "ensure",
         Base(h).status = "open", VersionMatches(h, Request(h).session),
         NEW key \in Keys \cup {System}, NEW events \in 0 .. MaxEvents, NEW ends \in BOOLEAN,
         ends => events > 0,
         docs' = [docs EXCEPT ![Request(h).session] = Changed(Base(h), key, events, ends)]
  PROVE  /\ docs' \in [Sessions -> Document]
         /\ Grows
         /\ docs[Request(h).session] = Base(h)
         /\ Request(h).session \in Sessions
  <1> DEFINE s == Request(h).session
             d == Changed(Base(h), key, events, ends)
  <1>1. Fresh(h) /\ Request(h) \in Requests
    BY DEF StoreInv, Reads, At, Busy
  <1>2. s \in Sessions
    BY <1>1, RequestParts
  <1>3. docs[s] = Base(h)
    BY <1>1 DEF Fresh, VersionMatches
  <1>4. Base(h) \in Document /\ docs \in [Sessions -> Document] /\ Base(h).version \in Nat
    BY DEF StoreInv, TypeOK, Base, Document
  <1>5. events \in Nat
    BY StoreAssumption
  <1>6. /\ d \in Document /\ d.status = (IF ends THEN "ended" ELSE "open")
        /\ d.version = Base(h).version + events
        /\ events = 0 => d = Base(h)
    BY <1>4, <1>5, ChangedDocument
  <1> HIDE DEF d
  <1>7. \A t \in Sessions : docs'[t] = IF t = s THEN d ELSE docs[t]
    BY <1>4 DEF d
  <1>8. docs' \in [Sessions -> Document]
    BY <1>4, <1>6 DEF d
  <1>9. ASSUME NEW t \in Sessions
        PROVE  /\ docs[t].status # "absent" => docs'[t].status # "absent"
               /\ docs[t].version <= docs'[t].version
               /\ docs[t].version = docs'[t].version => docs[t] = docs'[t]
    <2>1. CASE t = s
      <3>1. docs[t] = Base(h) /\ docs'[t] = d
        BY <1>3, <1>7, <2>1
      <3>2. d.status # "absent"
        BY <1>6
      <3>3. \A m, n \in Nat : m <= m + n /\ (m = m + n => n = 0)
        OBVIOUS
      <3>4. /\ Base(h).version <= Base(h).version + events
            /\ Base(h).version = Base(h).version + events => events = 0
        BY <1>4, <1>5, <3>3
      <3>5. docs[t].version <= docs'[t].version
        BY <1>6, <3>1, <3>4
      <3>6. docs[t].version = docs'[t].version => docs[t] = docs'[t]
        BY <1>6, <3>1, <3>4
      <3> QED BY <3>1, <3>2, <3>5, <3>6
    <2>2. CASE t # s
      BY <1>4, <1>7, <2>2 DEF Document
    <2> QED BY <2>1, <2>2
  <1> QED BY <1>2, <1>3, <1>8, <1>9 DEF Grows

LEMMA NextStoreInv == StoreInv /\ [Next]_vars => StoreInv'
  <1> SUFFICES ASSUME StoreInv, [Next]_vars PROVE StoreInv'
    OBVIOUS
  <1> DEFINE HandlerTypes == [at : Positions, request : Requests \cup {None}, base : Document]
  <1>0. TypeOK /\ \A h \in Handlers : Busy(h)
    BY DEF StoreInv
  <1>1. ASSUME NEW h \in Handlers, NEW r \in Requests, Arrive(h, r) PROVE StoreInv'
    <2>1. UNCHANGED <<docs, receipts, answers>> /\ tries' \in 0 .. MaxTries
      BY <1>0, <1>1, StoreAssumption DEF Arrive, TypeOK
    <2>2. PICK base \in Document :
            /\ handlers' = [handlers EXCEPT ![h] = [at |-> "check", request |-> r, base |-> base]]
            /\ r.kind # "ensure" => base = docs[r.session] /\ Stored(r.session)
      BY <1>0, <1>1, AbsentDocument, RequestParts DEF Arrive, TypeOK
    <2>3. handlers' \in [Handlers -> HandlerTypes]
      BY <1>0, <2>2 DEF TypeOK, Positions
    <2>4. ASSUME NEW g \in Handlers PROVE Busy(g)' /\ (Reads(g)' => Fresh(g)')
      <3>1. CASE g = h
        <4>1. handlers'[g] = [at |-> "check", request |-> r, base |-> base]
          BY <1>0, <2>2, <3>1 DEF TypeOK
        <4>2. Busy(g)'
          BY <4>1 DEF Busy, Request
        <4>3. r.kind # "ensure" => docs[r.session] \in Document
          BY <1>0, RequestParts DEF TypeOK
        <4>4. Reads(g)' => Fresh(g)'
          BY <2>1, <2>2, <4>1, <4>3 DEF Reads, Request, Fresh, Base, Document, Stored
        <4> QED BY <4>2, <4>4
      <3>2. CASE g # h
        <4>1. handlers'[g] = handlers[g]
          BY <1>0, <2>2, <3>2 DEF TypeOK
        <4> QED BY <2>1, <4>1 DEF StoreInv, Busy, Reads, Request, Fresh, Base
      <3> QED BY <3>1, <3>2
    <2> QED BY <1>0, <2>1, <2>3, <2>4 DEF StoreInv, TypeOK
  <1>2. ASSUME NEW h \in Handlers, FindProcessed(h) PROVE StoreInv'
    <2>1. UNCHANGED <<docs, receipts, tries>> /\ ~At(h, "idle") /\ At(h, "check")
      BY <1>2 DEF FindProcessed, At
    <2>2. Request(h) \in Requests
      BY <1>0, <2>1 DEF Busy, At
    <2>3. \/ GoTo(h, "active") /\ Request(h).kind = "ensure" /\ UNCHANGED answers
          \/ GoTo(h, "write") /\ UNCHANGED answers
          \/ Return(h) /\ UNCHANGED answers
          \/ \E s \in Sessions : Answer(h, s)
      BY <1>2, <2>2, RecordedSessions, RequestParts DEF FindProcessed
    <2>4. /\ answers' \subseteq Requests \X Sessions
          /\ \/ GoTo(h, "active") /\ Request(h).kind = "ensure"
             \/ GoTo(h, "write")
             \/ Return(h)
      BY <1>0, <2>1, <2>3, AnswerType DEF TypeOK
    <2>5. Grows /\ docs' \in [Sessions -> Document]
      BY <2>1, NothingGrows
    <2>6. /\ handlers' \in [Handlers -> HandlerTypes]
          /\ \A g \in Handlers : Busy(g)' /\ (Reads(g)' => Fresh(g)')
      BY <2>1, <2>4, <2>5, HandlerKept
    <2> QED BY <1>0, <2>1, <2>4, <2>5, <2>6 DEF StoreInv, TypeOK
  <1>3. ASSUME NEW h \in Handlers, Reject(h) \/ Crash(h) PROVE StoreInv'
    <2>1. UNCHANGED <<docs, receipts, tries, answers>> /\ Return(h)
      BY <1>3 DEF Reject, Crash
    <2>2. Grows /\ docs' \in [Sessions -> Document]
      BY <2>1, NothingGrows
    <2>3. /\ handlers' \in [Handlers -> HandlerTypes]
          /\ \A g \in Handlers : Busy(g)' /\ (Reads(g)' => Fresh(g)')
      BY <2>1, <2>2, HandlerKept
    <2> QED BY <1>0, <2>1, <2>2, <2>3 DEF StoreInv, TypeOK
  <1>4. ASSUME NEW h \in Handlers, SaveChange(h) PROVE StoreInv'
    <2>1. PICK events \in 0 .. MaxEvents, ends \in BOOLEAN :
            /\ ends => events > 0
            /\ VersionMatches(h, Request(h).session)
            /\ docs' = [docs EXCEPT ![Request(h).session] =
                           Changed(Base(h), Request(h).key, events, ends)]
            /\ receipts' = [receipts EXCEPT ![Request(h).key] = Request(h)]
            /\ Answer(h, Request(h).session) \/ (GoTo(h, "lookup") /\ UNCHANGED answers)
      BY <1>4 DEF SaveChange
    <2>2. /\ At(h, "write") /\ ~At(h, "idle") /\ Request(h).kind = "change"
          /\ Base(h).status = "open" /\ tries' = tries
      BY <1>4 DEF SaveChange, At
    <2>3. Request(h) \in ClientRequests /\ Request(h).key \in Keys /\ Request(h).session \in Sessions
      BY <1>0, <2>2, RequestParts DEF Busy, At
    <2>4. docs' \in [Sessions -> Document] /\ Grows
      BY <2>1, <2>2, <2>3, WriteGrows
    <2>5. answers' \subseteq Requests \X Sessions /\ (GoTo(h, "lookup") \/ Return(h))
      BY <1>0, <2>1, <2>2, <2>3, AnswerType DEF TypeOK
    <2>6. /\ handlers' \in [Handlers -> HandlerTypes]
          /\ \A g \in Handlers : Busy(g)' /\ (Reads(g)' => Fresh(g)')
      BY <2>2, <2>4, <2>5, HandlerKept
    <2>7. receipts' \in [Keys -> ClientRequests \cup {None}]
      BY <1>0, <2>1, <2>3 DEF TypeOK
    <2> QED BY <1>0, <2>2, <2>4, <2>5, <2>6, <2>7 DEF StoreInv, TypeOK
  <1>5. ASSUME NEW h \in Handlers, SaveTransition(h) PROVE StoreInv'
    <2>1. /\ At(h, "write") /\ Request(h).kind = "system" /\ Base(h).status = "open"
          /\ Return(h) /\ UNCHANGED <<receipts, tries, answers>>
      BY <1>5 DEF SaveTransition
    <2>2. docs' \in [Sessions -> Document] /\ Grows
      <3>1. CASE UNCHANGED docs
        BY <3>1, NothingGrows
      <3>2. CASE ~UNCHANGED docs
        <4>1. PICK events \in 1 .. MaxEvents, ends \in BOOLEAN :
                /\ VersionMatches(h, Request(h).session)
                /\ docs' = [docs EXCEPT ![Request(h).session] = Changed(Base(h), System, events, ends)]
          BY <1>5, <3>2 DEF SaveTransition
        <4>2. events \in 0 .. MaxEvents /\ events > 0
          BY StoreAssumption
        <4> QED BY <2>1, <4>1, <4>2, WriteGrows
      <3> QED BY <3>1, <3>2
    <2>3. /\ handlers' \in [Handlers -> HandlerTypes]
          /\ \A g \in Handlers : Busy(g)' /\ (Reads(g)' => Fresh(g)')
      BY <2>1, <2>2, HandlerKept
    <2> QED BY <1>0, <2>1, <2>2, <2>3 DEF StoreInv, TypeOK
  <1>6. ASSUME NEW h \in Handlers,
               AbortChange(h) \/ LookUp(h) \/ FindActive(h) \/ AbortCreate(h) \/ FindRival(h)
        PROVE  StoreInv'
    <2>1. UNCHANGED <<docs, receipts, tries>> /\ ~At(h, "idle")
      BY <1>6 DEF AbortChange, LookUp, FindActive, AbortCreate, FindRival, At
    <2>2. Request(h) \in Requests
      BY <1>0, <2>1 DEF Busy, At
    <2>3. \/ /\ UNCHANGED answers
             /\ \/ Return(h)
                \/ GoTo(h, "lookup") /\ Request(h).kind # "system"
                \/ \E position \in {"active", "exists", "again"} :
                     GoTo(h, position) /\ Request(h).kind = "ensure"
                \/ GoTo(h, "write") /\ Request(h).kind = "ensure"
          \/ \E s \in Sessions : Answer(h, s)
      <3>1. CASE AbortChange(h) \/ AbortCreate(h)
        BY <3>1 DEF AbortChange, AbortCreate
      <3>2. CASE LookUp(h)
        <4>1. Request(h) \in ClientRequests
          BY <1>0, <2>2, <3>2, RequestParts DEF LookUp, Busy, At
        <4> QED BY <3>2, <4>1, RecordedSessions DEF LookUp
      <3>3. CASE FindActive(h) \/ FindRival(h)
        <4>1. Request(h).kind = "ensure"
          BY <1>0, <3>3 DEF FindActive, FindRival, Busy, At
        <4> QED BY <3>3, <4>1 DEF FindActive, FindRival
      <3> QED BY <1>6, <3>1, <3>2, <3>3
    <2>4. /\ answers' \subseteq Requests \X Sessions
          /\ \/ Return(h)
             \/ GoTo(h, "lookup") /\ Request(h).kind # "system"
             \/ \E position \in {"active", "exists", "again"} :
                  GoTo(h, position) /\ Request(h).kind = "ensure"
             \/ GoTo(h, "write") /\ Request(h).kind = "ensure"
      BY <1>0, <2>1, <2>3, AnswerType DEF TypeOK
    <2>5. Grows /\ docs' \in [Sessions -> Document]
      BY <2>1, NothingGrows
    <2>6. /\ handlers' \in [Handlers -> HandlerTypes]
          /\ \A g \in Handlers : Busy(g)' /\ (Reads(g)' => Fresh(g)')
      BY <2>1, <2>4, <2>5, HandlerKept
    <2> QED BY <1>0, <2>1, <2>4, <2>5, <2>6 DEF StoreInv, TypeOK
  <1>7. ASSUME NEW h \in Handlers, Create(h) PROVE StoreInv'
    <2>1. PICK s \in Sessions :
            /\ docs[s] = Absent
            /\ docs' = [docs EXCEPT ![s] = [status |-> "open", version |-> 1, log |-> <<Request(h).key>>]]
            /\ receipts' = [receipts EXCEPT ![Request(h).key] = Request(h)]
            /\ Answer(h, s) \/ (Return(h) /\ UNCHANGED answers)
      BY <1>7 DEF Create
    <2>2. ~At(h, "idle") /\ Request(h).kind = "ensure" /\ tries' = tries
      BY <1>7 DEF Create, At
    <2>3. Request(h) \in ClientRequests /\ Request(h).key \in Keys
      BY <1>0, <2>2, RequestParts DEF Busy, At
    <2>4. docs' \in [Sessions -> Document]
      BY <1>0, <2>1, <2>3 DEF TypeOK, Document
    <2>5. Grows
      BY <1>0, <2>1 DEF Grows, TypeOK, Document, Absent
    <2>6. answers' \subseteq Requests \X Sessions /\ Return(h)
      BY <1>0, <2>1, <2>2, AnswerType DEF TypeOK
    <2>7. /\ handlers' \in [Handlers -> HandlerTypes]
          /\ \A g \in Handlers : Busy(g)' /\ (Reads(g)' => Fresh(g)')
      BY <2>4, <2>5, <2>6, HandlerKept
    <2>8. receipts' \in [Keys -> ClientRequests \cup {None}]
      BY <1>0, <2>1, <2>3 DEF TypeOK
    <2> QED BY <1>0, <2>2, <2>4, <2>6, <2>7, <2>8 DEF StoreInv, TypeOK
  <1>8. ASSUME UNCHANGED vars PROVE StoreInv'
    BY <1>8 DEF vars, StoreInv, TypeOK, Busy, Reads, Fresh, Request, Base
  <1> QED BY <1>1, <1>2, <1>3, <1>4, <1>5, <1>6, <1>7, <1>8 DEF Next

THEOREM StoreInvHolds == Spec => []StoreInv
  BY InitStoreInv, NextStoreInv, PTL DEF Spec

\* However many handlers read and write a session at once, a handler about to
\* write under the stored version has read exactly the stored document: the
\* version filter of replaceSession loses no update.
THEOREM VersionsIdentify == Spec => []VersionIdentifiesContent
  <1>1. StoreInv => VersionIdentifiesContent
    BY DEF StoreInv, VersionIdentifiesContent, Reads, Fresh, At, Request, Base
  <1> QED BY <1>1, StoreInvHolds, PTL

-----------------------------------------------------------------------------
(* The ledger                                                              *)

Logs == [s \in Sessions |-> docs[s].log]
Statuses == [s \in Sessions |-> docs[s].status]
Done == {k \in Keys : receipts[k] # None}

LEMMA LedgerInit == Init => Ledger!Init
  BY DEF Init, Ledger!Init, Absent

\* Steps that write nothing are invisible.
LEMMA LedgerStutter == UNCHANGED <<docs, receipts>> => UNCHANGED Ledger!vars
  BY DEF Ledger!vars

\* A document written over the one that was read is one more entry in its log.
LEMMA LedgerChange ==
  ASSUME StoreInv, NEW h \in Handlers, At(h, "write"), Request(h).kind # "ensure",
         NEW s \in Sessions, s = Request(h).session,
         Base(h).status = "open", VersionMatches(h, s),
         NEW key \in Keys \cup {System}, NEW events \in 0 .. MaxEvents, NEW ends \in BOOLEAN,
         ends => events > 0,
         docs' = [docs EXCEPT ![s] = Changed(Base(h), key, events, ends)]
  PROVE  /\ events = 0 => UNCHANGED docs /\ Statuses[s] = "open"
         /\ events > 0 => Ledger!Change(key, s)
  <1> DEFINE d == Changed(Base(h), key, events, ends)
  <1>1. docs[s] = Base(h)
    BY WriteGrows
  <1>2. Base(h) \in Document /\ docs \in [Sessions -> Document]
    BY DEF StoreInv, TypeOK, Base
  <1>3. events \in Nat
    BY StoreAssumption
  <1>4. /\ d.status = (IF ends THEN "ended" ELSE "open")
        /\ events = 0 => d = Base(h)
        /\ events > 0 => d.log = Append(Base(h).log, key)
    BY <1>2, <1>3, ChangedDocument
  <1> HIDE DEF d
  <1>5. docs' = [docs EXCEPT ![s] = d]
    BY DEF d
  <1>6. ASSUME events = 0 PROVE UNCHANGED docs /\ Statuses[s] = "open"
    BY <1>1, <1>2, <1>4, <1>5, <1>6 DEF Statuses
  <1>7. ASSUME events > 0 PROVE Ledger!Change(key, s)
    <2>1. Statuses[s] = "open"
      BY <1>1 DEF Statuses
    <2>2. Statuses' = [Statuses EXCEPT ![s] = d.status] /\ d.status \in {"open", "ended"}
      BY <1>1, <1>2, <1>4, <1>5 DEF Statuses
    <2>3. Logs' = [Logs EXCEPT ![s] = Append(@, key)]
      BY <1>1, <1>2, <1>4, <1>5, <1>7 DEF Logs
    <2> QED BY <2>1, <2>2, <2>3 DEF Ledger!Change, Statuses, Logs
  <1> QED BY <1>6, <1>7

LEMMA LedgerNext == StoreInv /\ [Next]_vars => [Ledger!Next]_(Ledger!vars)
  <1> SUFFICES ASSUME StoreInv, [Next]_vars PROVE Ledger!Next \/ UNCHANGED Ledger!vars
    OBVIOUS
  <1>0. TypeOK /\ \A h \in Handlers : Busy(h)
    BY DEF StoreInv
  <1>1. ASSUME UNCHANGED <<docs, receipts>> PROVE Ledger!Next \/ UNCHANGED Ledger!vars
    BY <1>1, LedgerStutter
  <1>2. ASSUME NEW h \in Handlers, SaveChange(h) PROVE Ledger!Next
    <2>1. PICK events \in 0 .. MaxEvents, ends \in BOOLEAN :
            /\ ends => events > 0
            /\ Unprocessed(Request(h))
            /\ VersionMatches(h, Request(h).session)
            /\ docs' = [docs EXCEPT ![Request(h).session] =
                           Changed(Base(h), Request(h).key, events, ends)]
            /\ receipts' = [receipts EXCEPT ![Request(h).key] = Request(h)]
      BY <1>2 DEF SaveChange
    <2>2. /\ At(h, "write") /\ Request(h).kind = "change" /\ Base(h).status = "open"
      BY <1>2 DEF SaveChange
    <2>3. PICK k \in Keys, s \in Sessions : k = Request(h).key /\ s = Request(h).session
      BY <1>0, <2>2, RequestParts DEF Busy, At
    <2>4. k \notin Done /\ Done' = Done \cup {k}
      <3>1. Request(h) \in ClientRequests /\ Request(h) # None
        BY <1>0, <2>2, RequestParts, NoneIsNoRequest DEF Busy, At
      <3> QED BY <1>0, <2>1, <2>3, <3>1 DEF Done, Unprocessed, TypeOK
    <2>5. /\ events = 0 => UNCHANGED docs /\ Statuses[s] = "open"
          /\ events > 0 => Ledger!Change(k, s)
      BY <2>1, <2>2, <2>3, LedgerChange
    <2>6. Ledger!Confirm(k, s) \/ Ledger!Apply(k, s)
      BY <2>1, <2>4, <2>5, StoreAssumption DEF Ledger!Confirm, Ledger!Apply, Statuses, Done
    <2> QED BY <2>3, <2>6 DEF Ledger!Next
  <1>3. ASSUME NEW h \in Handlers, SaveTransition(h) PROVE Ledger!Next \/ UNCHANGED Ledger!vars
    <2>1. /\ At(h, "write") /\ Request(h).kind = "system" /\ Base(h).status = "open"
          /\ UNCHANGED receipts
      BY <1>3 DEF SaveTransition
    <2>2. CASE UNCHANGED docs
      BY <1>1, <2>1, <2>2
    <2>3. CASE ~UNCHANGED docs
      <3>1. PICK events \in 1 .. MaxEvents, ends \in BOOLEAN :
              /\ VersionMatches(h, Request(h).session)
              /\ docs' = [docs EXCEPT ![Request(h).session] = Changed(Base(h), System, events, ends)]
        BY <1>3, <2>3 DEF SaveTransition
      <3>2. events \in 0 .. MaxEvents /\ events > 0
        BY StoreAssumption
      <3>3. PICK s \in Sessions : s = Request(h).session
        BY <1>0, <2>1, RequestParts DEF Busy, At
      <3>4. Ledger!Change(System, s)
        BY <2>1, <3>1, <3>2, <3>3, LedgerChange
      <3>5. Ledger!Advance(s)
        BY <2>1, <3>4 DEF Ledger!Advance
      <3> QED BY <3>3, <3>5 DEF Ledger!Next
    <2> QED BY <2>2, <2>3
  <1>4. ASSUME NEW h \in Handlers, Create(h) PROVE Ledger!Next
    <2>1. PICK s \in Sessions :
            /\ docs[s] = Absent
            /\ Unprocessed(Request(h)) /\ \A t \in Sessions : ~Open(t)
            /\ docs' = [docs EXCEPT ![s] = [status |-> "open", version |-> 1, log |-> <<Request(h).key>>]]
            /\ receipts' = [receipts EXCEPT ![Request(h).key] = Request(h)]
      BY <1>4 DEF Create
    <2> DEFINE k == Request(h).key
    <2>2. Request(h) \in ClientRequests /\ k \in Keys
      BY <1>0, <1>4, RequestParts DEF Busy, At, Create
    <2>3. k \notin Done /\ Done' = Done \cup {k}
      <3>1. Request(h) # None
        BY <1>4, <2>2, NoneIsNoRequest
      <3> QED BY <1>0, <2>1, <2>2, <3>1 DEF Done, Unprocessed, TypeOK
    <2>4. Statuses' = [Statuses EXCEPT ![s] = "open"] /\ Logs' = [Logs EXCEPT ![s] = <<k>>]
      BY <1>0, <2>1 DEF Statuses, Logs, TypeOK
    <2>5. Statuses[s] = "absent" /\ \A t \in Sessions : Statuses[t] # "open"
      BY <2>1 DEF Statuses, Absent, Open
    <2>6. Ledger!Open(k, s)
      BY <2>3, <2>4, <2>5 DEF Ledger!Open, Ledger!NoneOpen, Statuses, Logs, Done
    <2> QED BY <2>1, <2>2, <2>6 DEF Ledger!Next
  <1> QED BY <1>1, <1>2, <1>3, <1>4 DEF Next, vars, Arrive, FindProcessed, Reject, AbortChange,
          LookUp, FindActive, AbortCreate, FindRival, Crash

\* Every interleaving of handlers, resent commands, lost outcomes and crashes is
\* one of the behaviours of the ledger: no update is lost, no client command
\* takes effect twice, at most one session is open, and an ended one stays.
THEOREM StoreImplementsLedger == Spec => ImplementsLedger
  BY LedgerInit, LedgerNext, StoreInvHolds, PTL DEF Spec, ImplementsLedger, Ledger!Spec

-----------------------------------------------------------------------------
(* The answers                                                             *)

\* What the caller of an answered request may rely on.
TrueAnswer(r, s) ==
  IF r.kind = "change" THEN receipts[r.key] = r /\ s = r.session ELSE Stored(s)

\* A session nobody has opened is empty, and answers are true.
AnswerInv ==
  /\ StoreInv
  /\ \A s \in Sessions : docs[s].status = "absent" => docs[s].log = <<>>
  /\ \A r \in ClientRequests, s \in Sessions : <<r, s>> \in answers => TrueAnswer(r, s)

\* A receipt is written once.
Settled == \A k \in Keys : receipts[k] # None => receipts'[k] = receipts[k]

\* What was true of an answer stays true.
LEMMA TrueAnswerStays ==
  ASSUME StoreInv, Grows, Settled, NEW r \in ClientRequests, NEW s \in Sessions, TrueAnswer(r, s)
  PROVE  TrueAnswer(r, s)'
  <1>1. CASE r.kind = "change"
    <2>1. r.key \in Keys /\ r # None
      BY RequestParts, NoneIsNoRequest DEF Requests, ClientRequests, EnsureRequests, ChangeRequests
    <2> QED BY <1>1, <2>1 DEF TrueAnswer, Settled
  <1>2. CASE r.kind # "change"
    BY <1>2 DEF TrueAnswer, Stored, Grows
  <1> QED BY <1>1, <1>2

\* A step that keeps what is stored and adds only true answers keeps the invariant.
LEMMA AnswerInvKept ==
  ASSUME AnswerInv, StoreInv', Grows, Settled,
         \A s \in Sessions : docs'[s].status = "absent" => docs'[s].log = <<>>,
         \A r \in ClientRequests, s \in Sessions :
           <<r, s>> \in answers' \ answers => TrueAnswer(r, s)'
  PROVE  AnswerInv'
  <1>1. ASSUME NEW r \in ClientRequests, NEW s \in Sessions, <<r, s>> \in answers'
        PROVE  TrueAnswer(r, s)'
    <2>1. CASE <<r, s>> \in answers
      BY <2>1, TrueAnswerStays DEF AnswerInv
    <2>2. CASE <<r, s>> \notin answers
      BY <1>1, <2>2
    <2> QED BY <2>1, <2>2
  <1> QED BY <1>1 DEF AnswerInv

\* The session a receipt names is one the caller may be given.
LEMMA RecordedIsTrue ==
  ASSUME AnswerInv, NEW r \in ClientRequests, Processed(r), NEW s \in Recorded(r)
  PROVE  s \in Sessions /\ TrueAnswer(r, s)
  <1>1. s \in Sessions
    BY RecordedSessions
  <1>2. CASE r.kind = "change"
    BY <1>1, <1>2 DEF Recorded, Processed, TrueAnswer
  <1>3. CASE r.kind # "change"
    BY <1>1, <1>3 DEF Recorded, AnswerInv, TrueAnswer, Stored
  <1> QED BY <1>1, <1>2, <1>3

\* Writing a receipt where there is none settles it.
LEMMA ReceiptSettles ==
  ASSUME StoreInv, NEW r \in ClientRequests, r.key \in Keys, Unprocessed(r),
         receipts' = [receipts EXCEPT ![r.key] = r]
  PROVE  Settled /\ receipts'[r.key] = r
  BY DEF Settled, Unprocessed, StoreInv, TypeOK

\* Every step keeps the answers true.
LEMMA NextAnswerInv == AnswerInv /\ [Next]_vars => AnswerInv'
  <1> SUFFICES ASSUME AnswerInv, [Next]_vars PROVE AnswerInv'
    OBVIOUS
  <1>0. StoreInv /\ StoreInv' /\ TypeOK /\ \A h \in Handlers : Busy(h)
    BY NextStoreInv DEF AnswerInv, StoreInv
  <1>1. ASSUME UNCHANGED <<docs, receipts>>,
               \A r \in ClientRequests, s \in Sessions :
                 <<r, s>> \in answers' \ answers => TrueAnswer(r, s)
        PROVE  AnswerInv'
    <2>1. Grows
      BY <1>0, <1>1, NothingGrows
    <2>2. Settled
      BY <1>1 DEF Settled
    <2>3. \A r \in ClientRequests, s \in Sessions :
            <<r, s>> \in answers' \ answers => TrueAnswer(r, s)'
      BY <1>1 DEF TrueAnswer, Stored
    <2>4. \A s \in Sessions : docs'[s].status = "absent" => docs'[s].log = <<>>
      BY <1>1 DEF AnswerInv
    <2> QED BY <1>0, <2>1, <2>2, <2>3, <2>4, AnswerInvKept
  <1>2. ASSUME NEW h \in Handlers, UNCHANGED <<docs, receipts>>,
               NEW s \in Sessions, Answer(h, s), TrueAnswer(Request(h), s)
        PROVE  AnswerInv'
    BY <1>1, <1>2 DEF Answer
  <1>3. ASSUME NEW h \in Handlers, FindProcessed(h) \/ LookUp(h) PROVE AnswerInv'
    <2>1. UNCHANGED <<docs, receipts>>
      BY <1>3 DEF FindProcessed, LookUp
    <2>2. Request(h) \in Requests
      BY <1>0, <1>3 DEF FindProcessed, LookUp, Busy, At
    <2>3. CASE UNCHANGED answers
      BY <1>1, <2>1, <2>3
    <2>4. CASE ~UNCHANGED answers
      <3>1. Request(h).kind # "system" /\ Processed(Request(h))
            /\ \E s \in Recorded(Request(h)) : Answer(h, s)
        BY <1>0, <1>3, <2>4 DEF FindProcessed, LookUp, Busy, At
      <3>2. Request(h) \in ClientRequests
        BY <2>2, <3>1, RequestParts
      <3> QED BY <1>2, <2>1, <3>1, <3>2, RecordedIsTrue
    <2> QED BY <2>3, <2>4
  <1>4. ASSUME NEW h \in Handlers, FindActive(h) \/ FindRival(h) PROVE AnswerInv'
    <2>1. UNCHANGED <<docs, receipts>>
      BY <1>4 DEF FindActive, FindRival
    <2>2. Request(h).kind = "ensure"
      BY <1>0, <1>4 DEF FindActive, FindRival, Busy, At
    <2>3. UNCHANGED answers \/ \E s \in Sessions : Open(s) /\ Answer(h, s)
      BY <1>4 DEF FindActive, FindRival
    <2>4. \A s \in Sessions : Open(s) => TrueAnswer(Request(h), s)
      BY <2>2 DEF Open, TrueAnswer, Stored
    <2> QED BY <1>1, <1>2, <2>1, <2>3, <2>4
  <1>5. ASSUME NEW h \in Handlers, SaveChange(h) PROVE AnswerInv'
    <2>1. PICK events \in 0 .. MaxEvents, ends \in BOOLEAN :
            /\ ends => events > 0
            /\ Unprocessed(Request(h))
            /\ VersionMatches(h, Request(h).session)
            /\ docs' = [docs EXCEPT ![Request(h).session] =
                           Changed(Base(h), Request(h).key, events, ends)]
            /\ receipts' = [receipts EXCEPT ![Request(h).key] = Request(h)]
            /\ Answer(h, Request(h).session) \/ UNCHANGED answers
      BY <1>5 DEF SaveChange
    <2>2. /\ At(h, "write") /\ Request(h).kind = "change" /\ Base(h).status = "open"
      BY <1>5 DEF SaveChange
    <2>3. Request(h) \in ClientRequests /\ Request(h).key \in Keys /\ Request(h).session \in Sessions
      BY <1>0, <2>2, RequestParts DEF Busy, At
    <2>4. Grows
      BY <1>0, <2>1, <2>2, <2>3, WriteGrows
    <2>5. Settled /\ receipts'[Request(h).key] = Request(h)
      BY <1>0, <2>1, <2>3, ReceiptSettles
    <2>6. \A s \in Sessions : docs'[s].status = "absent" => docs'[s].log = <<>>
      BY <1>0, <2>1, <2>2 DEF AnswerInv, TypeOK, Changed
    <2>7. \A r \in ClientRequests, t \in Sessions :
            <<r, t>> \in answers' \ answers => TrueAnswer(r, t)'
      <3> SUFFICES ASSUME NEW r \in ClientRequests, NEW t \in Sessions,
                          <<r, t>> \in answers' \ answers
                   PROVE  TrueAnswer(r, t)'
        OBVIOUS
      <3>1. r = Request(h) /\ t = Request(h).session
        BY <2>1 DEF Answer
      <3> QED BY <2>2, <2>5, <3>1 DEF TrueAnswer, Stored
    <2> QED BY <1>0, <2>4, <2>5, <2>6, <2>7, AnswerInvKept
  <1>6. ASSUME NEW h \in Handlers, SaveTransition(h) PROVE AnswerInv'
    <2>1. /\ At(h, "write") /\ Request(h).kind = "system" /\ Base(h).status = "open"
          /\ UNCHANGED <<receipts, answers>>
      BY <1>6 DEF SaveTransition
    <2>2. CASE UNCHANGED docs
      BY <1>1, <2>1, <2>2
    <2>3. CASE ~UNCHANGED docs
      <3>1. PICK events \in 1 .. MaxEvents, ends \in BOOLEAN :
              /\ VersionMatches(h, Request(h).session)
              /\ docs' = [docs EXCEPT ![Request(h).session] = Changed(Base(h), System, events, ends)]
        BY <1>6, <2>3 DEF SaveTransition
      <3>2. events \in 0 .. MaxEvents /\ events > 0
        BY StoreAssumption
      <3>3. Grows
        BY <1>0, <2>1, <3>1, <3>2, WriteGrows
      <3>4. Settled
        BY <2>1 DEF Settled
      <3>5. \A s \in Sessions : docs'[s].status = "absent" => docs'[s].log = <<>>
        BY <1>0, <2>1, <3>1 DEF AnswerInv, TypeOK, Changed
      <3> QED BY <1>0, <2>1, <3>3, <3>4, <3>5, AnswerInvKept
    <2> QED BY <2>2, <2>3
  <1>7. ASSUME NEW h \in Handlers, Create(h) PROVE AnswerInv'
    <2>1. PICK s \in Sessions :
            /\ docs[s] = Absent
            /\ Unprocessed(Request(h))
            /\ docs' = [docs EXCEPT ![s] = [status |-> "open", version |-> 1, log |-> <<Request(h).key>>]]
            /\ receipts' = [receipts EXCEPT ![Request(h).key] = Request(h)]
            /\ Answer(h, s) \/ UNCHANGED answers
      BY <1>7 DEF Create
    <2>2. Request(h).kind = "ensure" /\ Request(h) \in ClientRequests /\ Request(h).key \in Keys
      BY <1>0, <1>7, RequestParts DEF Busy, At, Create
    <2>3. Grows
      BY <1>0, <2>1 DEF Grows, TypeOK, Document, Absent
    <2>4. Settled
      BY <1>0, <2>1, <2>2, ReceiptSettles
    <2>5. \A t \in Sessions : docs'[t].status = "absent" => docs'[t].log = <<>>
      BY <1>0, <2>1 DEF AnswerInv, TypeOK
    <2>6. Stored(s)'
      BY <1>0, <2>1 DEF Stored, TypeOK
    <2>7. \A r \in ClientRequests, t \in Sessions :
            <<r, t>> \in answers' \ answers => TrueAnswer(r, t)'
      <3> SUFFICES ASSUME NEW r \in ClientRequests, NEW t \in Sessions,
                          <<r, t>> \in answers' \ answers
                   PROVE  TrueAnswer(r, t)'
        OBVIOUS
      <3>1. r = Request(h) /\ t = s
        BY <2>1 DEF Answer
      <3> QED BY <2>2, <2>6, <3>1 DEF TrueAnswer
    <2> QED BY <1>0, <2>3, <2>4, <2>5, <2>7, AnswerInvKept
  <1> QED BY <1>1, <1>3, <1>4, <1>5, <1>6, <1>7
          DEF Next, vars, Arrive, Reject, AbortChange, AbortCreate, Crash

\* A store without sessions has answered nobody.
LEMMA InitAnswerInv == Init => AnswerInv
  BY InitStoreInv DEF Init, AnswerInv, Absent

\* Whatever outcome was lost and however often the request was sent: a client
\* that was told its command succeeded has a receipt of exactly that command,
\* which no later command overwrites, and one that asked for a session has been
\* given one that exists.
THEOREM AnswersStayTrue == Spec => []AnswersAreTrue
  <1>1. AnswerInv => AnswersAreTrue
    BY DEF AnswerInv, StoreInv, AnswersAreTrue, TrueAnswer
  <1>2. Spec => []AnswerInv
    BY InitAnswerInv, NextAnswerInv, PTL DEF Spec
  <1> QED BY <1>1, <1>2, PTL

=============================================================================
