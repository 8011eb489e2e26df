---------------------------- MODULE AccountsProofs ----------------------------
(***************************************************************************)
(* Nobody is locked out, limits hold against requests that come all at     *)
(* once, and an authorization that is revoked is one of a link that is     *)
(* gone: for any users, emails and provider accounts, and however many     *)
(* commits overtake a handler.                                             *)
(*                                                                         *)
(* A handler decides on snapshots, so the invariant relates each of them   *)
(* to the database: Since, what may have happened to the documents since   *)
(* it was taken, and Older, what two snapshots of which one is older say   *)
(* of the database. Settled is about the database alone.                   *)
(***************************************************************************)
EXTENDS Accounts, FiniteSetTheorems, TLAPS

LinkId(s, p) == Identity(s, p).id

\* A content of the database: a link is to somebody who has had an account.
Valid(s) ==
  /\ \A u \in Users : s[UserDoc(u)] \in UserValues \cup {Absent, Deleted}
  /\ \A p \in ProviderAccounts : s[IdentityDoc(p)] \in IdentityValues \cup {Absent}
  /\ \A p \in ProviderAccounts : Linked(s, p) => s[UserDoc(Identity(s, p).userId)] # Absent

\* Accounts come and go once; a link of the older content s that is still in the
\* database was there at all times between.
Lasting(s, r) ==
  \A u \in Users :
    /\ s[UserDoc(u)] # Absent => r[UserDoc(u)] # Absent
    /\ s[UserDoc(u)] = Deleted => r[UserDoc(u)] = Deleted

SameLink(s, r, current) ==
  \A p, q \in ProviderAccounts :
    Linked(s, p) /\ Linked(current, q) /\ LinkId(s, p) = LinkId(current, q)
      => p = q /\ r[IdentityDoc(p)] = current[IdentityDoc(p)]

Older(s, r, current) == Lasting(s, r) /\ SameLink(s, r, current)

IsDropped(u, links_) == \E link \in links_ : link.userId = u

\* An account that was not written may have lost links to its provider only.
KeepsLinks(s, current, u, lost) ==
  Exists(current, UserDoc(u)) =>
    \A p \in LinkedTo(s, u) : p \in LinkedTo(current, u) \/ IsDropped(u, lost)

Since(s, wrote, current, lost) ==
  /\ \A d \in Documents \ wrote : s[d] = current[d]
  /\ \A u \in Users : UserDoc(u) \notin wrote =>
       Recent(current, u) \subseteq Recent(s, u) /\ KeepsLinks(s, current, u, lost)

\* Links are numbered in the order in which they were made.
Numbered(s, n) == \A p \in ProviderAccounts : Linked(s, p) => LinkId(s, p) \in 1 .. n

SnapshotsInv ==
  /\ past \in Seq({past[i] : i \in DOMAIN past})
  /\ \A t \in Snapshots :
       /\ Valid(t.data) /\ Numbered(t.data, links)
       /\ Since(t.data, t.wrote, db, dropped)
  /\ \A t, t2 \in Snapshots : t2.age <= t.age => Older(t.data, t2.data, db)

\* The document counts what has happened, and locks the account by it.
Counted(s, u, n) ==
  /\ Exists(s, UserDoc(u)) =>
       User(s, u).failedLoginAttempts = n /\ (User(s, u).isActive <=> n < MaxFailed)
  /\ s[UserDoc(u)] = Absent => n = 0

ChangedOnce(s, u) ==
  /\ \A i, j \in Recent(s, u) : i = j
  /\ s[UserDoc(u)] = Absent => Recent(s, u) = {}

HasWayIn(s, u, lost) ==
  Exists(s, UserDoc(u)) /\ ~User(s, u).hasPassword /\ LinkedTo(s, u) = {} => IsDropped(u, lost)

Settled(s, u, n, lost) == Counted(s, u, n) /\ ChangedOnce(s, u) /\ HasWayIn(s, u, lost)

RestOK ==
  /\ DOMAIN db = Documents
  /\ links \in 0 .. MaxLinks /\ changes \in 0 .. MaxChanges
  /\ revoking \cup revoked \cup withdrawn \subseteq 1 .. links
  /\ notices \subseteq ProviderAccounts
  /\ failures \in [Users -> 0 .. MaxFailed]
  /\ dropped \subseteq IdentityValues

AccountsInv ==
  /\ RestOK
  /\ SnapshotsInv
  /\ \A u \in Users : Settled(db, u, failures[u], dropped)
  /\ RevokedIsGone

\* What a step that writes the documents W may make of the database, of the
\* links dropped and of their number.
StepOK(W, r, lost, n) ==
  /\ Valid(r) /\ Lasting(db, r)
  /\ \A d \in Documents \ W : r[d] = db[d]
  /\ dropped \subseteq lost
  /\ n \in {links, links + 1}
  /\ \A p \in ProviderAccounts : Linked(r, p) =>
       r[IdentityDoc(p)] = db[IdentityDoc(p)] \/ (LinkId(r, p) = links + 1 /\ n = links + 1)
  /\ \A p, q \in ProviderAccounts :
       Linked(r, p) /\ Linked(r, q) /\ LinkId(r, p) = links + 1 /\ LinkId(r, q) = links + 1 => p = q
  /\ \A u \in Users : UserDoc(u) \notin W =>
       Recent(r, u) \subseteq Recent(db, u) /\ KeepsLinks(db, r, u, lost)

-----------------------------------------------------------------------------
\* The documents.
LEMMA DistinctDocuments ==
  /\ \A u \in Users : UserDoc(u) \in Documents
  /\ \A p \in ProviderAccounts : IdentityDoc(p) \in Documents
  /\ \A u \in Users, i \in 1 .. 2 : HistoryDoc(u, i) \in Documents
  /\ \A u, v \in Users : UserDoc(u) = UserDoc(v) => u = v
  /\ \A p, q \in ProviderAccounts : IdentityDoc(p) = IdentityDoc(q) => p = q
  /\ \A u, v \in Users, i, j \in 1 .. 2 : HistoryDoc(u, i) = HistoryDoc(v, j) => u = v /\ i = j
  /\ \A u \in Users, p \in ProviderAccounts : UserDoc(u) # IdentityDoc(p)
  /\ \A u, v \in Users, i \in 1 .. 2 : UserDoc(u) # HistoryDoc(v, i)
  /\ \A p \in ProviderAccounts, v \in Users, i \in 1 .. 2 : IdentityDoc(p) # HistoryDoc(v, i)
BY DEF UserDoc, IdentityDoc, HistoryDoc, Documents

\* What there is in an account, a link or the history.
LEMMA Contents ==
  ASSUME NEW s, Valid(s)
  PROVE  /\ \A u \in Users : Exists(s, UserDoc(u)) <=> s[UserDoc(u)] \in UserValues
         /\ \A p \in ProviderAccounts :
              /\ Linked(s, p) <=> s[IdentityDoc(p)] \in IdentityValues
              /\ ~Linked(s, p) <=> s[IdentityDoc(p)] = Absent
BY NoContentAssumption DEF Valid, Exists, Linked

\* The snapshots after a commit: the database, and those before it, one older.
LEMMA SnapshotsAfter ==
  ASSUME past \in Seq({past[i] : i \in DOMAIN past}), MaxAge \in Nat, NEW writes, Apply(writes)
  PROVE  /\ past' \in Seq({past'[i] : i \in DOMAIN past'})
         /\ \A t \in Snapshots' :
              \/ t.age = 0 /\ t.data = db' /\ t.wrote = {}
              \/ \E o \in Snapshots :
                   /\ t.age = o.age + 1 /\ t.data = o.data
                   /\ t.wrote = o.wrote \cup DOMAIN writes
<1> DEFINE W == DOMAIN writes
           n == IF Len(past) < MaxAge THEN Len(past) + 1 ELSE MaxAge
<1>1. Len(past) \in Nat /\ DOMAIN past = 1 .. Len(past)
  OBVIOUS
<1>2. n \in Nat /\ n <= Len(past) + 1
  BY <1>1
<1>3. past' = [i \in 1 .. n |-> IF i = 1 THEN [data |-> db, wrote |-> W]
                 ELSE [data |-> past[i - 1].data, wrote |-> past[i - 1].wrote \cup W]]
  BY DEF Apply
<1>4. past' \in Seq({past'[i] : i \in DOMAIN past'})
  <2>1. DOMAIN past' = 1 .. n /\ past' = [i \in 1 .. n |-> past'[i]]
    BY <1>3
  <2> QED
    BY <1>2, <2>1
<1>5. ASSUME NEW t \in Snapshots'
      PROVE  \/ t.age = 0 /\ t.data = db' /\ t.wrote = {}
             \/ \E o \in Snapshots :
                  t.age = o.age + 1 /\ t.data = o.data /\ t.wrote = o.wrote \cup W
  <2>1. CASE t = [age |-> 0, data |-> db', wrote |-> {}]
    BY <2>1
  <2>2. CASE \E i \in DOMAIN past' : t = [age |-> i, data |-> past'[i].data, wrote |-> past'[i].wrote]
    <3>1. PICK i \in 1 .. n : t = [age |-> i, data |-> past'[i].data, wrote |-> past'[i].wrote]
      BY <1>3, <2>2
    <3>2. CASE i = 1
      <4> DEFINE o == [age |-> 0, data |-> db, wrote |-> {}]
      <4>1. o \in Snapshots
        BY DEF Snapshots
      <4>2. past'[i] = [data |-> db, wrote |-> W]
        BY <1>3, <3>1, <3>2
      <4>3. t.age = o.age + 1 /\ t.data = o.data /\ t.wrote = o.wrote \cup W
        BY <3>1, <3>2, <4>2
      <4> QED
        BY <4>1, <4>3
    <3>3. CASE i # 1
      <4> DEFINE o == [age |-> i - 1, data |-> past[i - 1].data, wrote |-> past[i - 1].wrote]
      <4>1. i - 1 \in DOMAIN past /\ i = (i - 1) + 1
        BY <1>1, <1>2, <3>1, <3>3
      <4>2. o \in Snapshots
        BY <4>1 DEF Snapshots
      <4>3. past'[i] = [data |-> past[i - 1].data, wrote |-> past[i - 1].wrote \cup W]
        BY <1>3, <3>1, <3>3
      <4>4. t.age = o.age + 1 /\ t.data = o.data /\ t.wrote = o.wrote \cup W
        BY <3>1, <4>1, <4>3
      <4> QED
        BY <4>2, <4>4
    <3> QED
      BY <3>2, <3>3
  <2> QED
    BY <2>1, <2>2 DEF Snapshots
<1> QED
  BY <1>4, <1>5

\* How old a snapshot is; the database is one.
LEMMA SnapshotFacts ==
  ASSUME past \in Seq({past[i] : i \in DOMAIN past})
  PROVE  /\ \A t \in Snapshots : t.age \in Nat
         /\ [age |-> 0, data |-> db, wrote |-> {}] \in Snapshots
BY DEF Snapshots

\* What the invariant says of the database itself.
LEMMA NowFacts ==
  ASSUME SnapshotsInv
  PROVE  /\ Valid(db) /\ Numbered(db, links)
         /\ Older(db, db, db)
         /\ \A t \in Snapshots : Older(t.data, db, db)
<1> DEFINE now == [age |-> 0, data |-> db, wrote |-> {}]
<1>1. now \in Snapshots /\ \A t \in Snapshots : t.age \in Nat
  BY SnapshotFacts DEF SnapshotsInv
<1>2. Valid(now.data) /\ Numbered(now.data, links)
  BY <1>1 DEF SnapshotsInv
<1>3. \A t \in Snapshots : now.age <= t.age
  BY <1>1
<1>4. \A t \in Snapshots : Older(t.data, now.data, db)
  BY <1>1, <1>3 DEF SnapshotsInv
<1> QED
  BY <1>1, <1>2, <1>4

-----------------------------------------------------------------------------
(* Steps                                                                   *)

\* What a snapshot says of the database outlasts a step.
LEMMA SinceKept ==
  ASSUME NEW s, NEW wrote, Since(s, wrote, db, dropped),
         NEW W, NEW r, NEW lost, NEW n, StepOK(W, r, lost, n)
  PROVE  Since(s, wrote \cup W, r, lost)
<1>1. \A d \in Documents \ (wrote \cup W) : s[d] = r[d]
  BY DEF Since, StepOK
<1>2. ASSUME NEW u \in Users, UserDoc(u) \notin wrote \cup W
      PROVE  Recent(r, u) \subseteq Recent(s, u) /\ KeepsLinks(s, r, u, lost)
  <2>1. Recent(db, u) \subseteq Recent(s, u) /\ KeepsLinks(s, db, u, dropped)
    BY <1>2 DEF Since
  <2>2. Recent(r, u) \subseteq Recent(db, u) /\ KeepsLinks(db, r, u, lost)
    BY <1>2 DEF StepOK
  <2>3. Exists(r, UserDoc(u)) => Exists(db, UserDoc(u))
    BY <1>2, DistinctDocuments DEF StepOK, Exists
  <2>4. IsDropped(u, dropped) => IsDropped(u, lost)
    BY DEF StepOK, IsDropped
  <2> QED
    BY <2>1, <2>2, <2>3, <2>4 DEF KeepsLinks
<1> QED
  BY <1>1, <1>2 DEF Since

\* A link of a snapshot that is in the database after a step was there before it.
LEMMA OldLinks ==
  ASSUME links \in Nat, NEW s, Numbered(s, links), Older(s, db, db),
         NEW W, NEW r, NEW lost, NEW n, StepOK(W, r, lost, n),
         NEW p \in ProviderAccounts, NEW q \in ProviderAccounts,
         Linked(s, p), Linked(r, q), LinkId(s, p) = LinkId(r, q)
  PROVE  p = q /\ Linked(db, q) /\ r[IdentityDoc(q)] = db[IdentityDoc(q)]
<1>1. LinkId(s, p) # links + 1
  <2>1. LinkId(s, p) \in 1 .. links
    BY DEF Numbered
  <2> QED
    BY <2>1
<1>2. r[IdentityDoc(q)] = db[IdentityDoc(q)]
  BY <1>1 DEF StepOK
<1>3. Linked(db, q) /\ LinkId(db, q) = LinkId(r, q)
  BY <1>2 DEF Linked, Exists, LinkId, Identity
<1> QED
  BY <1>2, <1>3 DEF Older, SameLink

\* Two snapshots, one older than the other, and the database after a step.
LEMMA OlderKept ==
  ASSUME links \in Nat, NEW s, NEW s2, Numbered(s, links), Older(s, s2, db), Older(s, db, db),
         NEW W, NEW r, NEW lost, NEW n, StepOK(W, r, lost, n)
  PROVE  Older(s, s2, r) /\ Older(s, r, r)
<1>1. Lasting(s, s2) /\ Lasting(s, r)
  BY DEF Older, Lasting, StepOK
<1>2. ASSUME NEW p \in ProviderAccounts, NEW q \in ProviderAccounts,
             Linked(s, p), Linked(r, q), LinkId(s, p) = LinkId(r, q)
      PROVE  p = q /\ s2[IdentityDoc(p)] = r[IdentityDoc(q)]
  <2>1. p = q /\ Linked(db, q) /\ r[IdentityDoc(q)] = db[IdentityDoc(q)]
    BY <1>2, OldLinks
  <2>2. LinkId(s, p) = LinkId(db, q)
    BY <1>2, <2>1 DEF LinkId, Identity
  <2> QED
    BY <1>2, <2>1, <2>2 DEF Older, SameLink
<1> QED
  BY <1>1, <1>2 DEF Older, SameLink

\* The database after a step has each link once.
LEMMA NowKept ==
  ASSUME links \in Nat, Numbered(db, links), Older(db, db, db),
         NEW W, NEW r, NEW lost, NEW n, StepOK(W, r, lost, n)
  PROVE  Older(r, r, r)
<1>1. ASSUME NEW p \in ProviderAccounts, NEW q \in ProviderAccounts,
             Linked(r, p), Linked(r, q), LinkId(r, p) = LinkId(r, q)
      PROVE  p = q
  <2>1. CASE LinkId(r, p) = links + 1
    BY <1>1, <2>1 DEF StepOK
  <2>2. CASE LinkId(r, p) # links + 1
    <3>1. r[IdentityDoc(p)] = db[IdentityDoc(p)]
      BY <1>1, <2>2 DEF StepOK
    <3>2. Linked(db, p) /\ LinkId(db, p) = LinkId(r, q)
      BY <1>1, <3>1 DEF Linked, Exists, LinkId, Identity
    <3> QED
      BY <1>1, <3>2, OldLinks
  <2> QED
    BY <2>1, <2>2
<1> QED
  BY <1>1 DEF Older, SameLink, Lasting

\* Links are numbered on.
LEMMA NumberedOn ==
  ASSUME links \in Nat, NEW n \in {links, links + 1}
  PROVE  \A s : Numbered(s, links) => Numbered(s, n)
<1>1. n \in Nat /\ links <= n
  OBVIOUS
<1>2. \A k \in 1 .. links : k \in 1 .. n
  BY <1>1
<1> QED
  BY <1>2 DEF Numbered

\* A commit keeps what the snapshots say if it is a step of this kind.
LEMMA SnapshotsKept ==
  ASSUME SnapshotsInv, links \in Nat, MaxAge \in Nat, NEW writes, Apply(writes),
         StepOK(DOMAIN writes, db', dropped', links')
  PROVE  SnapshotsInv'
<1> DEFINE W == DOMAIN writes
<1>1. /\ past' \in Seq({past'[i] : i \in DOMAIN past'})
      /\ \A t \in Snapshots' :
           \/ t.age = 0 /\ t.data = db' /\ t.wrote = {}
           \/ \E o \in Snapshots : t.age = o.age + 1 /\ t.data = o.data /\ t.wrote = o.wrote \cup W
  BY SnapshotsAfter DEF SnapshotsInv
<1>2. \A t \in Snapshots : t.age \in Nat
  BY SnapshotFacts DEF SnapshotsInv
<1>3. Valid(db) /\ Numbered(db, links) /\ Older(db, db, db)
  BY NowFacts
<1>4. links' \in {links, links + 1}
  BY DEF StepOK
<1>5. Older(db', db', db')
  BY <1>3, NowKept
<1>6. Numbered(db', links')
  <2>1. ASSUME NEW p \in ProviderAccounts, Linked(db', p)
        PROVE  LinkId(db', p) \in 1 .. links'
    <3>1. CASE LinkId(db', p) = links + 1 /\ links' = links + 1
      BY <3>1
    <3>2. CASE db'[IdentityDoc(p)] = db[IdentityDoc(p)]
      <4>1. Linked(db, p) /\ LinkId(db, p) = LinkId(db', p)
        BY <2>1, <3>2 DEF Linked, Exists, LinkId, Identity
      <4>2. LinkId(db, p) \in 1 .. links
        BY <1>3, <4>1 DEF Numbered
      <4> QED
        BY <1>4, <4>1, <4>2
    <3> QED
      BY <2>1, <3>1, <3>2 DEF StepOK
  <2> QED
    BY <2>1 DEF Numbered
<1>7. Since(db', {}, db', dropped')
  BY DEF Since, KeepsLinks
<1>8. ASSUME NEW t \in Snapshots'
      PROVE  Valid(t.data) /\ Numbered(t.data, links') /\ Since(t.data, t.wrote, db', dropped')
  <2>1. CASE t.age = 0 /\ t.data = db' /\ t.wrote = {}
    BY <1>6, <1>7, <2>1 DEF StepOK
  <2>2. ASSUME NEW o \in Snapshots, t.data = o.data, t.wrote = o.wrote \cup W
        PROVE  Valid(t.data) /\ Numbered(t.data, links') /\ Since(t.data, t.wrote, db', dropped')
    <3>1. Valid(o.data) /\ Numbered(o.data, links) /\ Since(o.data, o.wrote, db, dropped)
      BY DEF SnapshotsInv
    <3>2. Since(o.data, o.wrote \cup W, db', dropped')
      BY <3>1, SinceKept
    <3> QED
      BY <1>4, <2>2, <3>1, <3>2, NumberedOn
  <2> QED
    BY <1>1, <2>1, <2>2
<1>9. ASSUME NEW t \in Snapshots', NEW t2 \in Snapshots', t2.age <= t.age
      PROVE  Older(t.data, t2.data, db')
  <2>1. ASSUME NEW o \in Snapshots
        PROVE  Older(o.data, db', db')
    BY NowFacts, OlderKept DEF SnapshotsInv
  <2>2. ASSUME NEW o \in Snapshots, NEW o2 \in Snapshots, o2.age <= o.age
        PROVE  Older(o.data, o2.data, db')
    <3>1. Older(o.data, o2.data, db) /\ Older(o.data, db, db) /\ Numbered(o.data, links)
      BY <2>2, NowFacts DEF SnapshotsInv
    <3> QED
      BY <3>1, OlderKept
  <2>3. CASE t2.age = 0 /\ t2.data = db'
    BY <1>1, <1>5, <2>1, <2>3
  <2>4. ASSUME NEW o2 \in Snapshots, t2.age = o2.age + 1, t2.data = o2.data
        PROVE  Older(t.data, t2.data, db')
    <3>1. o2.age \in Nat
      BY <1>2
    <3>2. t.age # 0
      BY <1>9, <2>4, <3>1
    <3>3. PICK o \in Snapshots : t.age = o.age + 1 /\ t.data = o.data
      BY <1>1, <3>2
    <3>4. o2.age <= o.age
      BY <1>2, <1>9, <2>4, <3>3
    <3> QED
      BY <2>2, <2>4, <3>3, <3>4
  <2> QED
    BY <1>1, <2>3, <2>4
<1> QED
  BY <1>1, <1>8, <1>9 DEF SnapshotsInv

\* A step that leaves the database alone.
LEMMA SnapshotsUnchanged ==
  ASSUME SnapshotsInv, links \in Nat, UNCHANGED <<db, past>>,
         dropped \subseteq dropped', links' \in {links, links + 1}
  PROVE  SnapshotsInv'
<1>1. Snapshots' = Snapshots
  BY DEF Snapshots
<1>2. ASSUME NEW t \in Snapshots
      PROVE  Valid(t.data) /\ Numbered(t.data, links') /\ Since(t.data, t.wrote, db', dropped')
  <2>1. Valid(t.data) /\ Numbered(t.data, links) /\ Since(t.data, t.wrote, db, dropped)
    BY DEF SnapshotsInv
  <2>2. \A u \in Users : IsDropped(u, dropped) => IsDropped(u, dropped')
    BY DEF IsDropped
  <2>3. Since(t.data, t.wrote, db, dropped')
    BY <2>1, <2>2 DEF Since, KeepsLinks
  <2> QED
    BY <2>1, <2>3, NumberedOn
<1>3. \A t, t2 \in Snapshots : t2.age <= t.age => Older(t.data, t2.data, db')
  BY DEF SnapshotsInv
<1>4. past' \in Seq({past'[i] : i \in DOMAIN past'})
  BY DEF SnapshotsInv
<1> QED
  BY <1>1, <1>2, <1>3, <1>4 DEF SnapshotsInv

-----------------------------------------------------------------------------
(* What handlers write                                                     *)

\* What the documents are after a write.
LEMMA Written ==
  ASSUME NEW writes, Apply(writes), NEW d \in DOMAIN db
  PROVE  db'[d] = IF d \in DOMAIN writes THEN writes[d] ELSE db[d]
BY DEF Apply, ++

\* A step may write accounts that are not deleted, forget history and drop links
\* of accounts it writes, or that are gone, or whose consent was withdrawn.
AccountsAfter(r) ==
  \A u \in Users :
    \/ r[UserDoc(u)] = db[UserDoc(u)]
    \/ r[UserDoc(u)] \in UserValues \cup {Deleted} /\ db[UserDoc(u)] # Deleted

HistoryAfter(W, r, lost) ==
  /\ \A d \in Documents \ W : r[d] = db[d]
  /\ dropped \subseteq lost
  /\ \A u \in Users : UserDoc(u) \notin W =>
       Recent(r, u) \subseteq Recent(db, u) /\ KeepsLinks(db, r, u, lost)

LEMMA StepWithoutLink ==
  ASSUME Valid(db), links \in Nat, Numbered(db, links),
         NEW W, NEW r, NEW lost, NEW n \in {links, links + 1},
         AccountsAfter(r), HistoryAfter(W, r, lost),
         \A p \in ProviderAccounts : r[IdentityDoc(p)] \in {db[IdentityDoc(p)], Absent}
  PROVE  StepOK(W, r, lost, n)
<1>1. Lasting(db, r)
  BY NoContentAssumption DEF AccountsAfter, Lasting
<1>2. ASSUME NEW p \in ProviderAccounts, Linked(r, p)
      PROVE  r[IdentityDoc(p)] = db[IdentityDoc(p)] /\ Linked(db, p)
             /\ LinkId(r, p) # links + 1
  <2>1. r[IdentityDoc(p)] = db[IdentityDoc(p)]
    BY <1>2 DEF Linked, Exists
  <2>2. Linked(db, p) /\ LinkId(r, p) = LinkId(db, p)
    BY <1>2, <2>1 DEF Linked, Exists, LinkId, Identity
  <2>3. LinkId(db, p) \in 1 .. links
    BY <2>2 DEF Numbered
  <2> QED
    BY <2>1, <2>2, <2>3
<1>3. Valid(r)
  <2>1. \A u \in Users : r[UserDoc(u)] \in UserValues \cup {Absent, Deleted}
    BY DEF AccountsAfter, Valid
  <2>2. \A p \in ProviderAccounts : r[IdentityDoc(p)] \in IdentityValues \cup {Absent}
    BY DEF Valid
  <2>3. ASSUME NEW p \in ProviderAccounts, Linked(r, p)
        PROVE  r[UserDoc(Identity(r, p).userId)] # Absent
    <3>1. r[IdentityDoc(p)] = db[IdentityDoc(p)] /\ Linked(db, p)
      BY <1>2, <2>3
    <3>2. Identity(r, p) = Identity(db, p) /\ Identity(db, p) \in IdentityValues
      BY <3>1, Contents DEF Identity
    <3>3. Identity(db, p).userId \in Users
      BY <3>2 DEF IdentityValues
    <3>4. db[UserDoc(Identity(db, p).userId)] # Absent
      BY <3>1 DEF Valid
    <3> QED
      BY <1>1, <3>2, <3>3, <3>4 DEF Lasting
  <2> QED
    BY <2>1, <2>2, <2>3 DEF Valid
<1> QED
  BY <1>1, <1>2, <1>3 DEF StepOK, HistoryAfter

\* A step may also make a link to an account there is then.
LEMMA StepWithLink ==
  ASSUME Valid(db), links \in Nat, Numbered(db, links), links < MaxLinks, MaxLinks \in Nat,
         NEW W, NEW r, NEW lost, NEW n, n = links + 1,
         AccountsAfter(r), HistoryAfter(W, r, lost),
         NEW q \in ProviderAccounts, NEW owner \in Users,
         r[IdentityDoc(q)] = [id |-> links + 1, userId |-> owner],
         r[UserDoc(owner)] # Absent,
         \A p \in ProviderAccounts \ {q} : r[IdentityDoc(p)] = db[IdentityDoc(p)]
  PROVE  StepOK(W, r, lost, n)
<1>1. Lasting(db, r)
  BY NoContentAssumption DEF AccountsAfter, Lasting
<1>2. ASSUME NEW p \in ProviderAccounts \ {q}, Linked(r, p)
      PROVE  Linked(db, p) /\ Identity(r, p) = Identity(db, p) /\ LinkId(r, p) # links + 1
  <2>1. Linked(db, p) /\ Identity(r, p) = Identity(db, p)
    BY <1>2 DEF Linked, Exists, Identity
  <2>2. LinkId(r, p) \in 1 .. links
    BY <2>1 DEF Numbered, LinkId
  <2> QED
    BY <2>1, <2>2
<1>3. LinkId(r, q) = links + 1 /\ Identity(r, q).userId = owner
  BY DEF LinkId, Identity
<1>4. Valid(r)
  <2>1. \A u \in Users : r[UserDoc(u)] \in UserValues \cup {Absent, Deleted}
    BY DEF AccountsAfter, Valid
  <2>2. r[IdentityDoc(q)] \in IdentityValues
    BY DEF IdentityValues
  <2>3. \A p \in ProviderAccounts : r[IdentityDoc(p)] \in IdentityValues \cup {Absent}
    BY <2>2 DEF Valid
  <2>4. ASSUME NEW p \in ProviderAccounts \ {q}, Linked(r, p)
        PROVE  r[UserDoc(Identity(r, p).userId)] # Absent
    <3>1. Linked(db, p) /\ Identity(r, p) = Identity(db, p)
      BY <1>2, <2>4
    <3>2. Identity(db, p).userId \in Users
      BY <3>1, Contents DEF Identity, IdentityValues
    <3>3. db[UserDoc(Identity(db, p).userId)] # Absent
      BY <3>1 DEF Valid
    <3> QED
      BY <1>1, <3>1, <3>2, <3>3 DEF Lasting
  <2> QED
    BY <1>3, <2>1, <2>3, <2>4 DEF Valid
<1>5. \A p \in ProviderAccounts : Linked(r, p) =>
        r[IdentityDoc(p)] = db[IdentityDoc(p)] \/ (LinkId(r, p) = links + 1 /\ n = links + 1)
  BY <1>3
<1>6. \A p1, p2 \in ProviderAccounts :
        Linked(r, p1) /\ Linked(r, p2) /\ LinkId(r, p1) = links + 1 /\ LinkId(r, p2) = links + 1 => p1 = p2
  BY <1>2
<1> QED
  BY <1>1, <1>4, <1>5, <1>6 DEF StepOK, HistoryAfter

\* What is settled for an account that nobody writes.
LEMMA StillSettled ==
  ASSUME NEW u \in Users, NEW n, NEW r, NEW lost, Settled(db, u, n, dropped),
         r[UserDoc(u)] = db[UserDoc(u)], Recent(r, u) \subseteq Recent(db, u),
         dropped \subseteq lost, KeepsLinks(db, r, u, lost)
  PROVE  Settled(r, u, n, lost)
<1>1. Exists(r, UserDoc(u)) <=> Exists(db, UserDoc(u))
  BY DEF Exists
<1>2. User(r, u) = User(db, u)
  BY DEF User
<1>3. Counted(r, u, n)
  BY <1>1, <1>2 DEF Settled, Counted
<1>4. ChangedOnce(r, u)
  BY DEF Settled, ChangedOnce
<1>5. ASSUME Exists(r, UserDoc(u)), ~User(r, u).hasPassword, LinkedTo(r, u) = {}
      PROVE  IsDropped(u, lost)
  <2>1. CASE LinkedTo(db, u) = {}
    BY <1>1, <1>2, <1>5, <2>1 DEF Settled, HasWayIn, IsDropped
  <2>2. CASE LinkedTo(db, u) # {}
    BY <1>5, <2>2 DEF KeepsLinks
  <2> QED
    BY <2>1, <2>2
<1> QED
  BY <1>3, <1>4, <1>5 DEF Settled, HasWayIn

\* What has been revoked stays gone when nothing more is revoked.
LEMMA RevokedStaysGone ==
  ASSUME RevokedIsGone, links \in Nat, revoking \cup revoked \subseteq 1 .. links,
         revoking' \cup revoked' \subseteq revoking \cup revoked,
         \A p \in ProviderAccounts : Linked(db', p) =>
           db'[IdentityDoc(p)] = db[IdentityDoc(p)] \/ LinkId(db', p) = links + 1
  PROVE  RevokedIsGone'
<1>1. ASSUME NEW p \in ProviderAccounts, Linked(db', p)
      PROVE  Identity(db', p).id \notin revoking' \cup revoked'
  <2>1. CASE db'[IdentityDoc(p)] = db[IdentityDoc(p)]
    <3>1. Linked(db, p) /\ Identity(db', p) = Identity(db, p)
      BY <1>1, <2>1 DEF Linked, Exists, Identity
    <3> QED
      BY <3>1 DEF RevokedIsGone
  <2>2. CASE LinkId(db', p) = links + 1
    <3>1. links + 1 \notin 1 .. links
      OBVIOUS
    <3> QED
      BY <2>2, <3>1 DEF LinkId
  <2> QED
    BY <1>1, <2>1, <2>2
<1> QED
  BY <1>1 DEF RevokedIsGone

\* What the invariant says of the database, for the proofs of the handlers.
LEMMA AccountsFacts ==
  ASSUME AccountsInv
  PROVE  /\ links \in Nat /\ MaxLinks \in Nat /\ MaxAge \in Nat
         /\ Valid(db) /\ Numbered(db, links) /\ Older(db, db, db)
         /\ revoking \cup revoked \subseteq 1 .. links
         /\ \A u \in Users : Settled(db, u, failures[u], dropped)
<1>1. MaxLinks \in Nat /\ MaxAge \in Nat
  BY AccountsAssumption
<1>2. links \in 0 .. MaxLinks /\ revoking \cup revoked \subseteq 1 .. links
  BY DEF AccountsInv, RestOK
<1>3. links \in Nat
  BY <1>1, <1>2
<1>4. Valid(db) /\ Numbered(db, links) /\ Older(db, db, db)
  BY NowFacts DEF AccountsInv
<1> QED
  BY <1>1, <1>2, <1>3, <1>4 DEF AccountsInv

\* One account is made, changed, or forgotten in the history.
LEMMA OneAccount ==
  ASSUME AccountsInv, NEW u \in Users, NEW writes, Apply(writes),
         DOMAIN writes \subseteq {UserDoc(u)} \cup {HistoryDoc(u, i) : i \in 1 .. 2},
         \/ db'[UserDoc(u)] = db[UserDoc(u)]
         \/ db'[UserDoc(u)] \in UserValues /\ db[UserDoc(u)] # Deleted,
         UserDoc(u) \notin DOMAIN writes => Recent(db', u) \subseteq Recent(db, u),
         Settled(db', u, failures'[u], dropped),
         failures' \in [Users -> 0 .. MaxFailed],
         \A v \in Users \ {u} : failures'[v] = failures[v],
         changes' \in 0 .. MaxChanges, UNCHANGED <<apple, dropped>>
  PROVE  AccountsInv'
<1> DEFINE W == DOMAIN writes
<1>1. DOMAIN db = Documents /\ W \subseteq Documents
  BY DistinctDocuments DEF AccountsInv, RestOK
<1>2. \A d \in Documents \ W : db'[d] = db[d]
  BY <1>1, Written
<1>3. /\ \A p \in ProviderAccounts : db'[IdentityDoc(p)] = db[IdentityDoc(p)]
      /\ \A v \in Users \ {u} : /\ db'[UserDoc(v)] = db[UserDoc(v)]
                                /\ \A i \in 1 .. 2 : db'[HistoryDoc(v, i)] = db[HistoryDoc(v, i)]
  BY <1>2, DistinctDocuments
<1>4. \A v \in Users : LinkedTo(db', v) = LinkedTo(db, v)
  BY <1>3 DEF LinkedTo, Exists, Identity
<1>5. \A v \in Users \ {u} : Recent(db', v) = Recent(db, v)
  BY <1>3 DEF Recent
<1>6. AccountsAfter(db')
  BY <1>3 DEF AccountsAfter
<1>7. \A v \in Users : KeepsLinks(db, db', v, dropped')
  BY <1>4 DEF KeepsLinks
<1>8. HistoryAfter(W, db', dropped')
  BY <1>2, <1>5, <1>7 DEF HistoryAfter
<1>9. StepOK(W, db', dropped', links')
  BY <1>3, <1>6, <1>8, AccountsFacts, StepWithoutLink DEF apple
<1>10. SnapshotsInv'
  BY <1>9, AccountsFacts, SnapshotsKept DEF AccountsInv
<1>11. ASSUME NEW v \in Users
       PROVE  Settled(db', v, failures'[v], dropped')
  <2>1. CASE v = u
    BY <2>1
  <2>2. CASE v # u
    <3>1. Settled(db, v, failures[v], dropped)
      BY AccountsFacts
    <3> QED
      BY <1>3, <1>5, <1>7, <2>2, <3>1, StillSettled
  <2> QED
    BY <2>1, <2>2
<1>12. RevokedIsGone'
  BY <1>3, AccountsFacts, RevokedStaysGone DEF AccountsInv, apple
<1>13. DOMAIN db' = Documents
  BY <1>1 DEF Apply, ++
<1>14. RestOK'
  BY <1>13 DEF AccountsInv, RestOK, apple
<1> QED
  BY <1>10, <1>11, <1>12, <1>14 DEF AccountsInv

\* The number of changes stays within its bound.
LEMMA ChangeCounts ==
  ASSUME AccountsInv, Change
  PROVE  changes' \in 0 .. MaxChanges
<1>1. MaxChanges \in Nat /\ changes \in 0 .. MaxChanges
  BY AccountsAssumption DEF AccountsInv, RestOK
<1> QED
  BY <1>1 DEF Change

\* An account is written again, its way in kept.
LEMMA EditKeeps ==
  ASSUME AccountsInv, NEW u \in Users, NEW user \in UserValues, Exists(db, UserDoc(u)),
         Apply(Write(UserDoc(u), user)), User(db, u).hasPassword => user.hasPassword,
         user.failedLoginAttempts = failures'[u], user.isActive <=> failures'[u] < MaxFailed,
         failures' \in [Users -> 0 .. MaxFailed],
         \A v \in Users \ {u} : failures'[v] = failures[v],
         changes' \in 0 .. MaxChanges, UNCHANGED <<apple, dropped>>
  PROVE  AccountsInv'
<1> DEFINE writes == Write(UserDoc(u), user)
<1>1. DOMAIN writes = {UserDoc(u)} /\ writes[UserDoc(u)] = user
  BY DEF Write
<1>2. Apply(writes)
  OBVIOUS
<1> HIDE DEF writes
<1>3. DOMAIN db = Documents
  BY DEF AccountsInv, RestOK
<1>4. db'[UserDoc(u)] = user
  BY <1>1, <1>2, <1>3, DistinctDocuments, Written
<1>5. \A d \in Documents \ {UserDoc(u)} : db'[d] = db[d]
  BY <1>1, <1>2, <1>3, Written
<1>6. LinkedTo(db', u) = LinkedTo(db, u)
  BY <1>5, DistinctDocuments DEF LinkedTo, Exists, Identity
<1>7. Recent(db', u) = Recent(db, u)
  BY <1>5, DistinctDocuments DEF Recent
<1>8. Settled(db, u, failures[u], dropped)
  BY AccountsFacts
<1>9. Counted(db', u, failures'[u])
  BY <1>4, NoContentAssumption DEF Counted, User
<1>10. ChangedOnce(db', u)
  BY <1>4, <1>7, <1>8, NoContentAssumption DEF Settled, ChangedOnce
<1>11. HasWayIn(db', u, dropped)
  BY <1>4, <1>6, <1>8 DEF Settled, HasWayIn, User, Exists
<1>12. Settled(db', u, failures'[u], dropped)
  BY <1>9, <1>10, <1>11 DEF Settled
<1>13. db'[UserDoc(u)] \in UserValues /\ db[UserDoc(u)] # Deleted
  BY <1>4 DEF Exists
<1> QED
  BY <1>1, <1>2, <1>12, <1>13, OneAccount

\* An account that is in the database: a user with a count.
LEMMA AccountFacts ==
  ASSUME AccountsInv, NEW u \in Users, Exists(db, UserDoc(u))
  PROVE  /\ User(db, u) \in UserValues
         /\ User(db, u).failedLoginAttempts = failures[u]
         /\ User(db, u).isActive <=> failures[u] < MaxFailed
         /\ failures[u] \in 0 .. MaxFailed /\ MaxFailed \in Nat \ {0}
<1>1. Valid(db) /\ Settled(db, u, failures[u], dropped)
  BY AccountsFacts
<1>2. User(db, u) \in UserValues
  BY <1>1, Contents DEF User
<1>3. failures[u] \in 0 .. MaxFailed /\ MaxFailed \in Nat \ {0}
  BY AccountsAssumption DEF AccountsInv, RestOK
<1> QED
  BY <1>1, <1>2, <1>3 DEF Settled, Counted

LEMMA LoginKeeps ==
  ASSUME AccountsInv, NEW t, NEW u \in Users, Login(t, u)
  PROVE  AccountsInv'
<1> DEFINE user == [User(db, u) EXCEPT !.failedLoginAttempts = 0]
<1>1. Exists(db, UserDoc(u)) /\ User(db, u).isActive
  BY DEF Login, IsActive
<1>2. /\ User(db, u) \in UserValues /\ User(db, u).failedLoginAttempts = failures[u]
      /\ User(db, u).isActive <=> failures[u] < MaxFailed
      /\ failures[u] \in 0 .. MaxFailed /\ MaxFailed \in Nat \ {0}
  BY <1>1, AccountFacts
<1>3. user \in UserValues /\ user.hasPassword = User(db, u).hasPassword
      /\ user.failedLoginAttempts = 0 /\ user.isActive
  BY <1>1, <1>2 DEF UserValues
<1> HIDE DEF user
<1>4. failures' = [failures EXCEPT ![u] = 0] /\ Apply(Write(UserDoc(u), user))
      /\ UNCHANGED <<apple, dropped>>
  BY DEF Login, user
<1>5. failures \in [Users -> 0 .. MaxFailed]
  BY DEF AccountsInv, RestOK
<1>6. /\ failures' \in [Users -> 0 .. MaxFailed] /\ failures'[u] = 0
      /\ \A v \in Users \ {u} : failures'[v] = failures[v]
      /\ 0 < MaxFailed
  BY <1>2, <1>4, <1>5
<1>7. changes' \in 0 .. MaxChanges
  BY ChangeCounts DEF Login
<1> QED
  BY <1>1, <1>3, <1>4, <1>6, <1>7, EditKeeps

LEMMA WrongPasswordKeeps ==
  ASSUME AccountsInv, NEW t, NEW u \in Users, WrongPassword(t, u)
  PROVE  AccountsInv'
<1> DEFINE attempts == User(db, u).failedLoginAttempts + 1
           user == [User(db, u) EXCEPT !.failedLoginAttempts = attempts,
                                       !.isActive = attempts < MaxFailed]
<1>1. Exists(db, UserDoc(u)) /\ User(db, u).isActive
  BY DEF WrongPassword, IsActive
<1>2. /\ User(db, u) \in UserValues /\ User(db, u).failedLoginAttempts = failures[u]
      /\ User(db, u).isActive <=> failures[u] < MaxFailed
      /\ failures[u] \in 0 .. MaxFailed /\ MaxFailed \in Nat \ {0}
  BY <1>1, AccountFacts
<1>3. attempts \in 0 .. MaxFailed /\ attempts = failures[u] + 1 /\ failures[u] # MaxFailed
  BY <1>1, <1>2
<1>4. Apply(Write(UserDoc(u), user)) /\ UNCHANGED <<apple, dropped>>
      /\ failures' = [failures EXCEPT ![u] = IF @ = MaxFailed THEN @ ELSE @ + 1]
  BY DEF WrongPassword
<1> HIDE DEF attempts
<1>5. user \in UserValues /\ user.hasPassword = User(db, u).hasPassword
      /\ user.failedLoginAttempts = attempts /\ (user.isActive <=> attempts < MaxFailed)
  <2> DEFINE active == attempts < MaxFailed
  <2>1. active \in BOOLEAN
    OBVIOUS
  <2>2. user = [User(db, u) EXCEPT !.failedLoginAttempts = attempts, !.isActive = active]
    OBVIOUS
  <2> HIDE DEF active, user
  <2>3. user \in UserValues /\ user.hasPassword = User(db, u).hasPassword
        /\ user.failedLoginAttempts = attempts /\ user.isActive = active
    BY <1>2, <1>3, <2>1, <2>2 DEF UserValues
  <2> QED
    BY <2>3 DEF active
<1> HIDE DEF user
<1>6. failures \in [Users -> 0 .. MaxFailed]
  BY DEF AccountsInv, RestOK
<1>7. /\ failures'[u] = attempts
      /\ \A v \in Users \ {u} : failures'[v] = failures[v]
      /\ failures' \in [Users -> 0 .. MaxFailed]
  BY <1>3, <1>4, <1>6
<1>8. changes' \in 0 .. MaxChanges
  BY ChangeCounts DEF WrongPassword
<1> QED
  BY <1>1, <1>4, <1>5, <1>7, <1>8, EditKeeps

LEMMA ResetPasswordKeeps ==
  ASSUME AccountsInv, NEW t, NEW u \in Users, ResetPassword(t, u)
  PROVE  AccountsInv'
<1> DEFINE user == [User(db, u) EXCEPT !.hasPassword = TRUE, !.isActive = TRUE,
                                       !.failedLoginAttempts = 0]
<1>1. Exists(db, UserDoc(u))
  BY DEF ResetPassword
<1>2. User(db, u) \in UserValues /\ MaxFailed \in Nat \ {0}
  BY <1>1, AccountFacts
<1>3. user \in UserValues /\ user.hasPassword /\ user.failedLoginAttempts = 0 /\ user.isActive
  <2>1. 0 \in 0 .. MaxFailed
    BY <1>2
  <2> QED
    BY <1>2, <2>1 DEF UserValues
<1> HIDE DEF user
<1>4. failures' = [failures EXCEPT ![u] = 0] /\ Apply(Write(UserDoc(u), user))
      /\ UNCHANGED <<apple, dropped>>
  BY DEF ResetPassword, user
<1>5. failures \in [Users -> 0 .. MaxFailed]
  BY DEF AccountsInv, RestOK
<1>6. /\ failures' \in [Users -> 0 .. MaxFailed] /\ failures'[u] = 0
      /\ \A v \in Users \ {u} : failures'[v] = failures[v]
      /\ 0 < MaxFailed
  BY <1>2, <1>4, <1>5
<1>7. changes' \in 0 .. MaxChanges
  BY ChangeCounts DEF ResetPassword
<1> QED
  BY <1>1, <1>3, <1>4, <1>6, <1>7, EditKeeps

LEMMA ValidateEmailKeeps ==
  ASSUME AccountsInv, NEW t, NEW u \in Users, ValidateEmail(t, u)
  PROVE  AccountsInv'
<1> DEFINE user == [User(db, u) EXCEPT !.isVerifyEmail = TRUE]
<1>1. Exists(db, UserDoc(u))
  BY DEF ValidateEmail
<1>2. /\ User(db, u) \in UserValues /\ User(db, u).failedLoginAttempts = failures[u]
      /\ User(db, u).isActive <=> failures[u] < MaxFailed
  BY <1>1, AccountFacts
<1>3. user \in UserValues /\ user.hasPassword = User(db, u).hasPassword
      /\ user.failedLoginAttempts = failures[u] /\ user.isActive = User(db, u).isActive
  BY <1>2 DEF UserValues
<1> HIDE DEF user
<1>4. failures' = failures /\ Apply(Write(UserDoc(u), user)) /\ UNCHANGED <<apple, dropped>>
  BY DEF ValidateEmail, user
<1>5. failures \in [Users -> 0 .. MaxFailed]
  BY DEF AccountsInv, RestOK
<1>7. changes' \in 0 .. MaxChanges
  BY ChangeCounts DEF ValidateEmail
<1> QED
  BY <1>1, <1>2, <1>3, <1>4, <1>5, <1>7, EditKeeps

\* A snapshot a handler may have.
LEMMA SnapshotIs ==
  ASSUME AccountsInv, NEW t \in Snapshots
  PROVE  /\ Valid(t.data) /\ Numbered(t.data, links)
         /\ \A d \in Documents \ t.wrote : t.data[d] = db[d]
         /\ \A u \in Users : UserDoc(u) \notin t.wrote =>
              Recent(db, u) \subseteq Recent(t.data, u) /\ KeepsLinks(t.data, db, u, dropped)
BY DEF AccountsInv, SnapshotsInv, Since

\* The history has room for one entry.
LEMMA UpdateProfileKeeps ==
  ASSUME AccountsInv, NEW t \in Snapshots, NEW u \in Users, UpdateProfile(t, u)
  PROVE  AccountsInv'
<1>1. /\ Exists(t.data, UserDoc(u)) /\ Recent(t.data, u) = {} /\ UserDoc(u) \notin t.wrote
      /\ UNCHANGED <<apple, failures, dropped>>
  BY DEF UpdateProfile, Untouched
<1>2. User(t.data, u) = db[UserDoc(u)] /\ Recent(db, u) = {}
  BY <1>1, SnapshotIs, DistinctDocuments DEF User
<1>3. PICK i \in 1 .. 2 :
        Apply(Write(UserDoc(u), User(t.data, u)) ++ Write(HistoryDoc(u, i), TRUE))
  BY DEF UpdateProfile
<1> DEFINE writes == Write(UserDoc(u), User(t.data, u)) ++ Write(HistoryDoc(u, i), TRUE)
<1>4. /\ DOMAIN writes = {UserDoc(u), HistoryDoc(u, i)}
      /\ writes[UserDoc(u)] = db[UserDoc(u)]
  BY <1>2, DistinctDocuments DEF ++, Write
<1>5. Apply(writes)
  BY <1>3
<1> HIDE DEF writes
<1>6. DOMAIN db = Documents
  BY DEF AccountsInv, RestOK
<1>7. db'[UserDoc(u)] = db[UserDoc(u)]
  BY <1>4, <1>5, <1>6, DistinctDocuments, Written
<1>8. \A d \in Documents \ {UserDoc(u), HistoryDoc(u, i)} : db'[d] = db[d]
  BY <1>4, <1>5, <1>6, Written
<1>9. LinkedTo(db', u) = LinkedTo(db, u)
  BY <1>8, DistinctDocuments DEF LinkedTo, Exists, Identity
<1>10. Recent(db', u) \subseteq {i}
  BY <1>2, <1>8, DistinctDocuments DEF Recent
<1>11. Settled(db, u, failures[u], dropped)
  BY AccountsFacts
<1>12. Counted(db', u, failures'[u])
  BY <1>1, <1>7, <1>11 DEF Settled, Counted, User, Exists
<1>13. db[UserDoc(u)] # Absent
  BY <1>1, <1>2 DEF User, Exists
<1>14. ChangedOnce(db', u)
  BY <1>7, <1>10, <1>13 DEF ChangedOnce
<1>15. HasWayIn(db', u, dropped)
  BY <1>7, <1>9, <1>11 DEF Settled, HasWayIn, User, Exists
<1>16. Settled(db', u, failures'[u], dropped)
  BY <1>12, <1>14, <1>15 DEF Settled
<1>17. failures' \in [Users -> 0 .. MaxFailed] /\ \A v \in Users \ {u} : failures'[v] = failures[v]
  BY <1>1 DEF AccountsInv, RestOK
<1>18. changes' \in 0 .. MaxChanges
  BY ChangeCounts DEF UpdateProfile
<1> QED
  BY <1>1, <1>4, <1>5, <1>7, <1>16, <1>17, <1>18, OneAccount

LEMMA IntervalPassesKeeps ==
  ASSUME AccountsInv, NEW u \in Users, IntervalPasses(u)
  PROVE  AccountsInv'
<1> DEFINE writes == [d \in {HistoryDoc(u, i) : i \in Recent(db, u)} |-> Absent]
<1>1. DOMAIN writes = {HistoryDoc(u, i) : i \in Recent(db, u)}
      /\ \A d \in DOMAIN writes : writes[d] = Absent
  OBVIOUS
<1>2. Apply(writes) /\ UNCHANGED <<apple, failures, dropped>>
  BY DEF IntervalPasses
<1> HIDE DEF writes
<1>3. DOMAIN db = Documents /\ Recent(db, u) \subseteq 1 .. 2
  BY DEF AccountsInv, RestOK, Recent
<1>4. /\ DOMAIN writes \subseteq {HistoryDoc(u, i) : i \in 1 .. 2}
      /\ UserDoc(u) \notin DOMAIN writes
      /\ \A p \in ProviderAccounts : IdentityDoc(p) \notin DOMAIN writes
  BY <1>1, <1>3, DistinctDocuments
<1>5. db'[UserDoc(u)] = db[UserDoc(u)]
      /\ \A p \in ProviderAccounts : db'[IdentityDoc(p)] = db[IdentityDoc(p)]
  BY <1>2, <1>3, <1>4, DistinctDocuments, Written
<1>6. Recent(db', u) = {}
  <2>1. ASSUME NEW i \in 1 .. 2
        PROVE  db'[HistoryDoc(u, i)] # TRUE
    <3>1. CASE i \in Recent(db, u)
      BY <1>1, <1>2, <1>3, <3>1, DistinctDocuments, Written, NoContentAssumption
    <3>2. CASE i \notin Recent(db, u)
      <4>1. HistoryDoc(u, i) \notin DOMAIN writes
        BY <1>1, <1>3, <3>2, DistinctDocuments
      <4> QED
        BY <1>2, <1>3, <3>2, <4>1, DistinctDocuments, Written DEF Recent
    <3> QED
      BY <3>1, <3>2
  <2> QED
    BY <2>1 DEF Recent
<1>7. LinkedTo(db', u) = LinkedTo(db, u)
  BY <1>5 DEF LinkedTo, Exists, Identity
<1>8. Settled(db, u, failures[u], dropped)
  BY AccountsFacts
<1>9. Settled(db', u, failures'[u], dropped)
  <2>1. Recent(db', u) \subseteq Recent(db, u) /\ KeepsLinks(db, db', u, dropped)
    BY <1>6, <1>7 DEF KeepsLinks
  <2> QED
    BY <1>2, <1>5, <1>8, <2>1, StillSettled
<1>10. failures' \in [Users -> 0 .. MaxFailed] /\ \A v \in Users \ {u} : failures'[v] = failures[v]
  BY <1>2 DEF AccountsInv, RestOK
<1>11. changes' \in 0 .. MaxChanges
  BY DEF IntervalPasses, AccountsInv, RestOK
<1> QED
  BY <1>2, <1>4, <1>5, <1>6, <1>9, <1>10, <1>11, OneAccount

-----------------------------------------------------------------------------
(* New accounts and links                                                  *)

\* A new account, alone or with a link.
LEMMA NewAccountIs ==
  ASSUME AccountsInv, NEW u \in Users, NEW e \in Emails, NEW password \in BOOLEAN,
         NEW verified \in BOOLEAN, db[UserDoc(u)] = Absent, NEW r,
         r[UserDoc(u)] = NewUser(e, password, verified),
         r[HistoryDoc(u, 2)] = db[HistoryDoc(u, 2)]
  PROVE  /\ NewUser(e, password, verified) \in UserValues
         /\ Counted(r, u, failures[u]) /\ ChangedOnce(r, u)
         /\ User(r, u).hasPassword = password
<1>1. MaxFailed \in Nat \ {0} /\ 0 \in 0 .. MaxFailed /\ 0 < MaxFailed
  <2>1. MaxFailed \in Nat \ {0}
    BY AccountsAssumption
  <2> QED
    BY <2>1
<1>2. NewUser(e, password, verified) \in UserValues
  BY <1>1 DEF NewUser, UserValues
<1>3. /\ User(r, u).hasPassword = password
      /\ User(r, u).failedLoginAttempts = 0
      /\ User(r, u).isActive = TRUE
  BY DEF User, NewUser
<1>4. Settled(db, u, failures[u], dropped)
  BY AccountsFacts
<1>5. failures[u] = 0 /\ Recent(db, u) = {}
  BY <1>4 DEF Settled, Counted, ChangedOnce
<1>6. r[UserDoc(u)] # Absent
  BY <1>2, NoContentAssumption
<1>7. Counted(r, u, failures[u])
  BY <1>1, <1>3, <1>5, <1>6 DEF Counted
<1>8. Recent(r, u) \subseteq {1}
  BY <1>5 DEF Recent
<1>9. ChangedOnce(r, u)
  BY <1>6, <1>8 DEF ChangedOnce
<1> QED
  BY <1>2, <1>3, <1>7, <1>9

LEMMA CreateUserKeeps ==
  ASSUME AccountsInv, NEW u \in Users, NEW e \in Emails, CreateUser(u, e)
  PROVE  AccountsInv'
<1> DEFINE user == NewUser(e, TRUE, FALSE)
           writes == Write(UserDoc(u), user) ++ Write(HistoryDoc(u, 1), TRUE)
<1>1. /\ DOMAIN writes = {UserDoc(u), HistoryDoc(u, 1)}
      /\ writes[UserDoc(u)] = user
  BY DistinctDocuments DEF ++, Write
<1>2. /\ Apply(writes) /\ db[UserDoc(u)] = Absent
      /\ UNCHANGED <<apple, changes, failures, dropped>>
  BY DEF CreateUser, NewAccount
<1> HIDE DEF writes
<1>3. DOMAIN db = Documents
  BY DEF AccountsInv, RestOK
<1>4. db'[UserDoc(u)] = user
  BY <1>1, <1>2, <1>3, DistinctDocuments, Written
<1>5. \A d \in Documents \ {UserDoc(u), HistoryDoc(u, 1)} : db'[d] = db[d]
  BY <1>1, <1>2, <1>3, Written
<1>6. db'[HistoryDoc(u, 2)] = db[HistoryDoc(u, 2)]
  BY <1>5, DistinctDocuments
<1>7. /\ user \in UserValues
      /\ Counted(db', u, failures[u]) /\ ChangedOnce(db', u)
      /\ User(db', u).hasPassword = TRUE
  BY <1>2, <1>4, <1>6, NewAccountIs
<1>8. Settled(db', u, failures'[u], dropped)
  BY <1>2, <1>7 DEF Settled, HasWayIn
<1>9. /\ failures' \in [Users -> 0 .. MaxFailed] /\ \A v \in Users \ {u} : failures'[v] = failures[v]
      /\ changes' \in 0 .. MaxChanges
  BY <1>2 DEF AccountsInv, RestOK
<1>10. db'[UserDoc(u)] \in UserValues /\ db[UserDoc(u)] # Deleted
  BY <1>2, <1>4, <1>7, NoContentAssumption
<1> HIDE DEF user
<1> QED
  BY <1>1, <1>2, <1>8, <1>9, <1>10, OneAccount

\* A provider account gets a link; the account it is linked to may be new.
LEMMA NewLinkKeeps ==
  ASSUME AccountsInv, NEW u \in Users, NEW p \in ProviderAccounts, NEW writes, Apply(writes),
         Number, ~Linked(db, p),
         DOMAIN writes \subseteq {UserDoc(u), HistoryDoc(u, 1), IdentityDoc(p)},
         db'[IdentityDoc(p)] = [id |-> links + 1, userId |-> u],
         db'[UserDoc(u)] # Absent,
         \/ db'[UserDoc(u)] = db[UserDoc(u)]
         \/ db'[UserDoc(u)] \in UserValues /\ db[UserDoc(u)] # Deleted,
         UserDoc(u) \notin DOMAIN writes => HistoryDoc(u, 1) \notin DOMAIN writes,
         Settled(db', u, failures[u], dropped),
         UNCHANGED <<revoking, revoked, withdrawn, notices, changes, failures, dropped>>
  PROVE  AccountsInv'
<1> DEFINE W == DOMAIN writes
<1>1. DOMAIN db = Documents /\ W \subseteq Documents
  BY DistinctDocuments DEF AccountsInv, RestOK
<1>2. \A d \in Documents \ W : db'[d] = db[d]
  BY <1>1, Written
<1>3. /\ \A q \in ProviderAccounts \ {p} : db'[IdentityDoc(q)] = db[IdentityDoc(q)]
      /\ \A v \in Users \ {u} : /\ db'[UserDoc(v)] = db[UserDoc(v)]
                                /\ \A i \in 1 .. 2 : db'[HistoryDoc(v, i)] = db[HistoryDoc(v, i)]
  BY <1>2, DistinctDocuments
<1>4. \A v \in Users : LinkedTo(db, v) \subseteq LinkedTo(db', v)
  BY <1>3 DEF LinkedTo, Exists, Identity, Linked
<1>5. \A v \in Users \ {u} : Recent(db', v) = Recent(db, v)
  BY <1>3 DEF Recent
<1>6. UserDoc(u) \notin W => Recent(db', u) = Recent(db, u)
  BY <1>2, DistinctDocuments DEF Recent
<1>7. AccountsAfter(db')
  BY <1>3 DEF AccountsAfter
<1>8. \A v \in Users : KeepsLinks(db, db', v, dropped')
  BY <1>4 DEF KeepsLinks
<1>9. HistoryAfter(W, db', dropped')
  BY <1>2, <1>5, <1>6, <1>8 DEF HistoryAfter
<1>10. /\ links \in Nat /\ MaxLinks \in Nat /\ links < MaxLinks /\ links' = links + 1
       /\ Valid(db) /\ Numbered(db, links)
  BY AccountsFacts DEF Number
<1>11. StepOK(W, db', dropped', links')
  BY <1>3, <1>7, <1>9, <1>10, StepWithLink
<1>12. SnapshotsInv'
  BY <1>10, <1>11, AccountsFacts, SnapshotsKept DEF AccountsInv
<1>13. ASSUME NEW v \in Users
       PROVE  Settled(db', v, failures'[v], dropped')
  <2>1. CASE v = u
    BY <2>1
  <2>2. CASE v # u
    <3>1. Settled(db, v, failures[v], dropped)
      BY AccountsFacts
    <3> QED
      BY <1>3, <1>5, <1>8, <2>2, <3>1, StillSettled
  <2> QED
    BY <2>1, <2>2
<1>14. RevokedIsGone'
  <2>1. \A q \in ProviderAccounts :
          db'[IdentityDoc(q)] = db[IdentityDoc(q)] \/ LinkId(db', q) = links + 1
    BY <1>3 DEF LinkId, Identity
  <2> QED
    BY <2>1, AccountsFacts, RevokedStaysGone DEF AccountsInv
<1>15. DOMAIN db' = Documents
  BY <1>1 DEF Apply, ++
<1>16. links' \in 0 .. MaxLinks /\ 1 .. links \subseteq 1 .. links'
  BY <1>10
<1>17. RestOK'
  BY <1>15, <1>16 DEF AccountsInv, RestOK
<1> QED
  BY <1>12, <1>13, <1>14, <1>17 DEF AccountsInv

\* An authorization that no link was made for.
LEMMA NumberKeeps ==
  ASSUME AccountsInv, Number, UNCHANGED <<db, past>>,
         UNCHANGED <<revoking, revoked, withdrawn, notices, changes, failures, dropped>>
  PROVE  AccountsInv'
<1>1. links \in Nat /\ MaxLinks \in Nat /\ links < MaxLinks /\ links' = links + 1
  BY AccountsFacts DEF Number
<1>2. SnapshotsInv'
  BY <1>1, SnapshotsUnchanged DEF AccountsInv
<1>3. links' \in 0 .. MaxLinks /\ 1 .. links \subseteq 1 .. links'
  BY <1>1
<1>4. RestOK'
  BY <1>3 DEF AccountsInv, RestOK
<1>5. \A u \in Users : Settled(db', u, failures'[u], dropped')
  BY AccountsFacts
<1>6. RevokedIsGone'
  BY DEF AccountsInv, RevokedIsGone
<1> QED
  BY <1>2, <1>4, <1>5, <1>6 DEF AccountsInv

LEMMA CreateKeeps ==
  ASSUME AccountsInv, NEW u \in Users, NEW p \in ProviderAccounts, NEW e \in Emails,
         Create(u, p, e, TRUE), UNCHANGED <<changes, failures, dropped>>
  PROVE  AccountsInv'
<1>1. /\ db[UserDoc(u)] = Absent /\ Number
      /\ UNCHANGED <<revoking, revoked, withdrawn, notices, changes, failures, dropped>>
  BY DEF Create
<1>2. CASE UNCHANGED <<db, past>>
  BY <1>1, <1>2, NumberKeeps
<1>3. CASE ~Linked(db, p) /\ Apply(NewAccount(u, e, FALSE, TRUE)
                               ++ Write(IdentityDoc(p), [id |-> links + 1, userId |-> u]))
  <2> DEFINE user == NewUser(e, FALSE, TRUE)
             link == [id |-> links + 1, userId |-> u]
             writes == (Write(UserDoc(u), user) ++ Write(HistoryDoc(u, 1), TRUE))
                         ++ Write(IdentityDoc(p), link)
  <2>1. /\ DOMAIN writes = {UserDoc(u), HistoryDoc(u, 1), IdentityDoc(p)}
        /\ writes[UserDoc(u)] = user
        /\ writes[IdentityDoc(p)] = link
    <3>1. /\ UserDoc(u) # HistoryDoc(u, 1) /\ UserDoc(u) # IdentityDoc(p)
          /\ IdentityDoc(p) # HistoryDoc(u, 1)
      BY DistinctDocuments
    <3> HIDE DEF user, link
    <3> QED
      BY <3>1 DEF ++, Write
  <2>2. Apply(writes)
    BY <1>3 DEF NewAccount
  <2> HIDE DEF writes
  <2>3. DOMAIN db = Documents
    BY DEF AccountsInv, RestOK
  <2>4. db'[UserDoc(u)] = user /\ db'[IdentityDoc(p)] = link
    BY <2>1, <2>2, <2>3, DistinctDocuments, Written
  <2>5. db'[HistoryDoc(u, 2)] = db[HistoryDoc(u, 2)]
    <3>1. HistoryDoc(u, 2) \in Documents \ {UserDoc(u), HistoryDoc(u, 1), IdentityDoc(p)}
      BY DistinctDocuments
    <3> QED
      BY <2>1, <2>2, <2>3, <3>1, Written
  <2>6. /\ user \in UserValues
        /\ Counted(db', u, failures[u]) /\ ChangedOnce(db', u)
    BY <1>1, <2>4, <2>5, NewAccountIs
  <2>7. p \in LinkedTo(db', u)
    <3>1. links \in Nat /\ MaxLinks \in Nat /\ links < MaxLinks
      BY AccountsFacts DEF Number, Create
    <3>2. links + 1 \in 1 .. MaxLinks
      BY <3>1
    <3>3. link \in IdentityValues
      BY <3>2 DEF IdentityValues
    <3>4. link \notin {Absent, Deleted} /\ link.userId = u
      BY <3>3, NoContentAssumption
    <3> HIDE DEF link
    <3> QED
      BY <2>4, <3>4 DEF LinkedTo, Exists, Identity
  <2>8. Settled(db', u, failures[u], dropped)
    BY <2>6, <2>7 DEF Settled, HasWayIn
  <2>9. db'[UserDoc(u)] \in UserValues /\ db'[UserDoc(u)] # Absent /\ db[UserDoc(u)] # Deleted
    BY <1>1, <2>4, <2>6, NoContentAssumption
  <2> HIDE DEF user
  <2> QED
    BY <1>1, <1>3, <2>1, <2>2, <2>4, <2>8, <2>9, NewLinkKeeps
<1> QED
  BY <1>2, <1>3 DEF Create

\* The user may be gone by now, but has been there.
LEMMA LinkSocialProviderKeeps ==
  ASSUME AccountsInv, NEW t \in Snapshots, NEW t2 \in Snapshots, NEW u \in Users,
         NEW p \in ProviderAccounts, LinkSocialProvider(t, t2, u, p)
  PROVE  AccountsInv'
<1>1. /\ IsActive(t.data, u) /\ Number
      /\ UNCHANGED <<revoking, revoked, withdrawn, notices, changes, failures, dropped>>
  BY DEF LinkSocialProvider
<1>2. CASE UNCHANGED <<db, past>>
  BY <1>1, <1>2, NumberKeeps
<1>3. CASE Linkable(db, u, p) /\ Apply(Write(IdentityDoc(p), [id |-> links + 1, userId |-> u]))
  <2> DEFINE link == [id |-> links + 1, userId |-> u]
             writes == Write(IdentityDoc(p), link)
  <2>1. DOMAIN writes = {IdentityDoc(p)} /\ writes[IdentityDoc(p)] = link
    BY DEF Write
  <2>2. Apply(writes) /\ ~Linked(db, p)
    BY <1>3 DEF Linkable
  <2> HIDE DEF writes
  <2>3. DOMAIN db = Documents
    BY DEF AccountsInv, RestOK
  <2>4. db'[IdentityDoc(p)] = link
    BY <2>1, <2>2, <2>3, DistinctDocuments, Written
  <2>5. \A d \in Documents \ {IdentityDoc(p)} : db'[d] = db[d]
    BY <2>1, <2>2, <2>3, Written
  <2>6. db'[UserDoc(u)] = db[UserDoc(u)] /\ Recent(db', u) = Recent(db, u)
    BY <2>5, DistinctDocuments DEF Recent
  <2>7. LinkedTo(db, u) \subseteq LinkedTo(db', u)
    BY <2>2, <2>5, DistinctDocuments DEF LinkedTo, Exists, Identity, Linked
  <2>8. Settled(db, u, failures[u], dropped)
    BY AccountsFacts
  <2>9. Settled(db', u, failures[u], dropped)
    <3>1. KeepsLinks(db, db', u, dropped)
      BY <2>7 DEF KeepsLinks
    <3> QED
      BY <2>6, <2>8, <3>1, StillSettled
  <2>10. db[UserDoc(u)] # Absent
    <3>1. Older(t.data, db, db) /\ t.data[UserDoc(u)] # Absent
      BY <1>1, NowFacts DEF AccountsInv, IsActive, Exists
    <3> QED
      BY <3>1 DEF Older, Lasting
  <2>11. UserDoc(u) \notin {IdentityDoc(p)} /\ HistoryDoc(u, 1) \notin {IdentityDoc(p)}
    BY DistinctDocuments
  <2> QED
    BY <1>1, <2>1, <2>2, <2>4, <2>6, <2>9, <2>10, <2>11, NewLinkKeeps
<1> QED
  BY <1>2, <1>3 DEF LinkSocialProvider

-----------------------------------------------------------------------------
(* Links that go                                                           *)

\* Links of one account go: with a write to the account, or when it is gone, or
\* because consent was withdrawn.
LEMMA LinksGo ==
  ASSUME AccountsInv, NEW u \in Users, NEW ps \in SUBSET ProviderAccounts,
         NEW writes, Apply(writes),
         DOMAIN writes \subseteq {UserDoc(u)} \cup {HistoryDoc(u, i) : i \in 1 .. 2}
                                   \cup {IdentityDoc(p) : p \in ps},
         \A p \in ps : db'[IdentityDoc(p)] = Absent,
         \A p \in ps : Linked(db, p) => Identity(db, p).userId = u,
         \/ db'[UserDoc(u)] = db[UserDoc(u)]
         \/ db'[UserDoc(u)] \in UserValues \cup {Deleted} /\ db[UserDoc(u)] # Deleted,
         UserDoc(u) \notin DOMAIN writes =>
           /\ Recent(db', u) \subseteq Recent(db, u)
           /\ ~Exists(db', UserDoc(u)) \/ IsDropped(u, dropped'),
         Settled(db', u, failures[u], dropped'),
         revoking' \subseteq 1 .. links, RevokedIsGone',
         dropped \subseteq dropped', dropped' \subseteq IdentityValues,
         UNCHANGED <<links, revoked, withdrawn, notices, changes, failures>>
  PROVE  AccountsInv'
<1> DEFINE W == DOMAIN writes
<1>1. DOMAIN db = Documents /\ W \subseteq Documents
  BY DistinctDocuments DEF AccountsInv, RestOK
<1>2. \A d \in Documents \ W : db'[d] = db[d]
  BY <1>1, Written
<1>3. /\ \A q \in ProviderAccounts \ ps : db'[IdentityDoc(q)] = db[IdentityDoc(q)]
      /\ \A v \in Users \ {u} : /\ db'[UserDoc(v)] = db[UserDoc(v)]
                                /\ \A i \in 1 .. 2 : db'[HistoryDoc(v, i)] = db[HistoryDoc(v, i)]
  BY <1>2, DistinctDocuments
<1>4. ASSUME NEW v \in Users \ {u}
      PROVE  LinkedTo(db, v) \subseteq LinkedTo(db', v)
  <2>1. ASSUME NEW q \in LinkedTo(db, v)
        PROVE  q \in LinkedTo(db', v)
    <3>1. q \in ProviderAccounts /\ Linked(db, q) /\ Identity(db, q).userId = v
      BY DEF LinkedTo, Linked
    <3>2. q \notin ps
      BY <3>1
    <3> QED
      BY <1>3, <3>1, <3>2 DEF LinkedTo, Linked, Exists, Identity
  <2> QED
    BY <2>1
<1>5. \A v \in Users \ {u} : Recent(db', v) = Recent(db, v)
  BY <1>3 DEF Recent
<1>6. \A v \in Users \ {u} : KeepsLinks(db, db', v, dropped')
  BY <1>4 DEF KeepsLinks
<1>7. UserDoc(u) \notin W => KeepsLinks(db, db', u, dropped')
  BY DEF KeepsLinks
<1>8. AccountsAfter(db')
  BY <1>3 DEF AccountsAfter
<1>9. HistoryAfter(W, db', dropped')
  <2>1. ASSUME NEW v \in Users, UserDoc(v) \notin W
        PROVE  Recent(db', v) \subseteq Recent(db, v) /\ KeepsLinks(db, db', v, dropped')
    <3>1. CASE v = u
      BY <1>7, <2>1, <3>1
    <3>2. CASE v # u
      BY <1>5, <1>6, <3>2
    <3> QED
      BY <3>1, <3>2
  <2> QED
    BY <1>2, <2>1 DEF HistoryAfter
<1>10. \A p \in ProviderAccounts : db'[IdentityDoc(p)] \in {db[IdentityDoc(p)], Absent}
  BY <1>3
<1>11. StepOK(W, db', dropped', links')
  BY <1>8, <1>9, <1>10, AccountsFacts, StepWithoutLink
<1>12. SnapshotsInv'
  BY <1>11, AccountsFacts, SnapshotsKept DEF AccountsInv
<1>13. ASSUME NEW v \in Users
       PROVE  Settled(db', v, failures'[v], dropped')
  <2>1. CASE v = u
    BY <2>1
  <2>2. CASE v # u
    <3>1. Settled(db, v, failures[v], dropped)
      BY AccountsFacts
    <3> QED
      BY <1>3, <1>5, <1>6, <2>2, <3>1, StillSettled
  <2> QED
    BY <2>1, <2>2
<1>14. DOMAIN db' = Documents
  BY <1>1 DEF Apply, ++
<1>15. RestOK'
  BY <1>14 DEF AccountsInv, RestOK
<1> QED
  BY <1>12, <1>13, <1>15 DEF AccountsInv

\* Nothing is written, and what is revoked was in revoking.
LEMMA DatabaseUntouched ==
  ASSUME AccountsInv, UNCHANGED <<db, past, links, failures>>,
         revoking' \cup revoked' \subseteq revoking \cup revoked,
         withdrawn' \subseteq 1 .. links, notices' \subseteq ProviderAccounts,
         dropped \subseteq dropped', dropped' \subseteq IdentityValues,
         changes' \in 0 .. MaxChanges
  PROVE  AccountsInv'
<1>1. links \in Nat
  BY AccountsFacts
<1>2. SnapshotsInv'
  BY <1>1, SnapshotsUnchanged DEF AccountsInv
<1>3. RestOK'
  BY DEF AccountsInv, RestOK
<1>4. ASSUME NEW u \in Users
      PROVE  Settled(db', u, failures'[u], dropped')
  <2>1. KeepsLinks(db, db', u, dropped')
    BY DEF KeepsLinks
  <2>2. Recent(db', u) \subseteq Recent(db, u)
    BY DEF Recent
  <2> QED
    BY <2>1, <2>2, AccountsFacts, StillSettled
<1>5. RevokedIsGone'
  BY DEF AccountsInv, RevokedIsGone, Linked, Identity, Exists
<1> QED
  BY <1>2, <1>3, <1>4, <1>5 DEF AccountsInv

\* Whoever a link of a snapshot is to has had an account then; if it is gone in a
\* later snapshot, it is gone for good.
LEMMA OwnerStaysGone ==
  ASSUME AccountsInv, NEW t \in Snapshots, NEW t2 \in Snapshots, t2.age <= t.age,
         NEW p \in ProviderAccounts, Linked(t.data, p),
         ~Exists(t2.data, UserDoc(Identity(t.data, p).userId))
  PROVE  ~Exists(db, UserDoc(Identity(t.data, p).userId))
<1> DEFINE u == Identity(t.data, p).userId
<1>1. Valid(t.data) /\ Valid(t2.data)
  BY SnapshotIs
<1>2. u \in Users /\ t.data[UserDoc(u)] # Absent
  <2>1. Identity(t.data, p) \in IdentityValues
    BY <1>1, Contents DEF Identity
  <2> QED
    BY <1>1, <2>1 DEF IdentityValues, Valid
<1>3. Lasting(t.data, t2.data) /\ Lasting(t2.data, db)
  BY NowFacts DEF AccountsInv, SnapshotsInv, Older
<1>4. t2.data[UserDoc(u)] = Deleted
  BY <1>2, <1>3 DEF Lasting, Exists
<1>5. db[UserDoc(u)] = Deleted
  BY <1>2, <1>3, <1>4 DEF Lasting
<1> QED
  BY <1>5 DEF Exists

\* A link goes that nobody needs any more.
LEMMA DeleteLinkKeeps ==
  ASSUME AccountsInv, NEW t \in Snapshots, NEW p \in ProviderAccounts, Linked(t.data, p),
         DeleteLink(t.data, p), UNCHANGED <<apple, changes, failures>>,
         dropped \subseteq dropped', dropped' \subseteq IdentityValues,
         Linked(db, p) /\ Identity(db, p).id = Identity(t.data, p).id =>
           \/ ~Exists(db, UserDoc(Identity(t.data, p).userId))
           \/ IsDropped(Identity(t.data, p).userId, dropped')
  PROVE  AccountsInv'
<1>1. /\ withdrawn \subseteq 1 .. links /\ notices \subseteq ProviderAccounts
      /\ changes \in 0 .. MaxChanges /\ revoking \subseteq 1 .. links
  BY DEF AccountsInv, RestOK
<1>2. CASE UNCHANGED <<db, past>>
  BY <1>1, <1>2, DatabaseUntouched DEF apple
<1>3. CASE /\ Linked(db, p) /\ Identity(db, p).id = Identity(t.data, p).id
           /\ Apply(Write(IdentityDoc(p), Absent))
  <2> DEFINE writes == Write(IdentityDoc(p), Absent)
             u == Identity(db, p).userId
  <2>1. DOMAIN writes = {IdentityDoc(p)} /\ writes[IdentityDoc(p)] = Absent
    BY DEF Write
  <2>2. Apply(writes)
    BY <1>3
  <2> HIDE DEF writes
  <2>3. DOMAIN db = Documents
    BY DEF AccountsInv, RestOK
  <2>4. db'[IdentityDoc(p)] = Absent
    BY <2>1, <2>2, <2>3, DistinctDocuments, Written
  <2>5. \A d \in Documents \ {IdentityDoc(p)} : db'[d] = db[d]
    BY <2>1, <2>2, <2>3, Written
  <2>6. Identity(t.data, p) = Identity(db, p)
    <3>1. Older(t.data, t.data, db)
      <4>1. t.age \in Nat
        BY SnapshotFacts DEF AccountsInv, SnapshotsInv
      <4> QED
        BY <4>1 DEF AccountsInv, SnapshotsInv
    <3> QED
      BY <1>3, <3>1 DEF Older, SameLink, LinkId, Identity
  <2>7. u \in Users
    <3>1. Identity(db, p) \in IdentityValues
      BY <1>3, AccountsFacts, Contents DEF Identity
    <3> QED
      BY <3>1 DEF IdentityValues
  <2>8. db'[UserDoc(u)] = db[UserDoc(u)] /\ Recent(db', u) = Recent(db, u)
    BY <2>5, <2>7, DistinctDocuments DEF Recent
  <2>9. ~Exists(db', UserDoc(u)) \/ IsDropped(u, dropped')
    BY <1>3, <2>6, <2>8 DEF Exists
  <2>10. Settled(db', u, failures[u], dropped')
    <3>1. KeepsLinks(db, db', u, dropped')
      BY <2>9 DEF KeepsLinks
    <3>2. Settled(db, u, failures[u], dropped)
      BY <2>7, AccountsFacts
    <3> QED
      BY <2>7, <2>8, <3>1, <3>2, StillSettled
  <2>11. RevokedIsGone'
    <3>1. \A q \in ProviderAccounts : Linked(db', q) => db'[IdentityDoc(q)] = db[IdentityDoc(q)]
      BY <2>4, <2>5, DistinctDocuments DEF Linked, Exists
    <3> QED
      BY <3>1, AccountsFacts, RevokedStaysGone DEF AccountsInv, apple
  <2>12. \A q \in {p} : db'[IdentityDoc(q)] = Absent /\ Identity(db, q).userId = u
    BY <2>4
  <2> DEFINE ps == {p}
  <2>13. /\ ps \in SUBSET ProviderAccounts
         /\ DOMAIN writes \subseteq {UserDoc(u)} \cup {HistoryDoc(u, i) : i \in 1 .. 2}
                                      \cup {IdentityDoc(q) : q \in ps}
         /\ \A q \in ps : db'[IdentityDoc(q)] = Absent
         /\ \A q \in ps : Linked(db, q) => Identity(db, q).userId = u
    BY <2>1, <2>12
  <2>14. Recent(db', u) \subseteq Recent(db, u) /\ revoking' \subseteq 1 .. links
         /\ UNCHANGED <<links, revoked, withdrawn, notices, changes, failures>>
    BY <1>1, <2>8 DEF apple
  <2> HIDE DEF u, ps
  <2> QED
    BY <2>2, <2>7, <2>8, <2>9, <2>10, <2>11, <2>13, <2>14, LinksGo
<1> QED
  BY <1>2, <1>3 DEF DeleteLink

\* A link in the database has its number from there alone, and a snapshot that
\* knows the number knows the same link.
LEMMA OneLinkForOneNumber ==
  ASSUME AccountsInv, NEW t \in Snapshots, NEW t2 \in Snapshots, t2.age <= t.age,
         NEW p \in ProviderAccounts, NEW q \in ProviderAccounts,
         Linked(t.data, p), Linked(db, q), LinkId(t.data, p) = LinkId(db, q)
  PROVE  p = q /\ t.data[IdentityDoc(q)] = db[IdentityDoc(q)]
               /\ t2.data[IdentityDoc(q)] = db[IdentityDoc(q)]
<1>1. t.age <= t.age
  BY SnapshotFacts DEF AccountsInv, SnapshotsInv
<1>2. Older(t.data, t.data, db) /\ Older(t.data, t2.data, db)
  BY <1>1 DEF AccountsInv, SnapshotsInv
<1> QED
  BY <1>2 DEF Older, SameLink

\* Numbers of links that are gone may be revoked.
LEMMA RevokedAfter ==
  ASSUME AccountsInv, NEW ids, revoking' = revoking \cup ids, UNCHANGED revoked,
         \A q \in ProviderAccounts : Linked(db', q) =>
           db'[IdentityDoc(q)] = db[IdentityDoc(q)] /\ LinkId(db, q) \notin ids
  PROVE  RevokedIsGone'
<1>1. ASSUME NEW q \in ProviderAccounts, Linked(db', q)
      PROVE  Identity(db', q).id \notin revoking' \cup revoked'
  <2>1. Linked(db, q) /\ Identity(db', q) = Identity(db, q) /\ Identity(db, q).id \notin ids
    BY <1>1 DEF Linked, Exists, Identity, LinkId
  <2> QED
    BY <2>1 DEF AccountsInv, RevokedIsGone
<1> QED
  BY <1>1 DEF RevokedIsGone

\* The other link that a way in needs is still there, since the account was not
\* written.
LEMMA UnlinkSocialProviderKeeps ==
  ASSUME AccountsInv, NEW t \in Snapshots, NEW u \in Users, NEW p \in ProviderAccounts,
         UnlinkSocialProvider(t, u, p)
  PROVE  AccountsInv'
<1> DEFINE user == User(t.data, u)
           writes == Write(IdentityDoc(p), Absent) ++ Write(UserDoc(u), user)
<1>1. /\ p \in LinkedTo(t.data, u) /\ Exists(t.data, UserDoc(u))
      /\ User(t.data, u).hasPassword \/ Cardinality(LinkedTo(t.data, u)) > 1
      /\ Apply(writes) /\ Untouched(t, DOMAIN writes)
      /\ revoking' = revoking \cup AppleLinks(t.data, {p})
      /\ UNCHANGED <<links, revoked, withdrawn, notices, changes, failures, dropped>>
  BY DEF UnlinkSocialProvider, Commit
<1>2. /\ DOMAIN writes = {UserDoc(u), IdentityDoc(p)}
      /\ writes[UserDoc(u)] = user /\ writes[IdentityDoc(p)] = Absent
  BY DistinctDocuments DEF ++, Write
<1> HIDE DEF writes
<1>3. DOMAIN db = Documents
  BY DEF AccountsInv, RestOK
<1>4. UserDoc(u) \in Documents \ t.wrote /\ IdentityDoc(p) \in Documents \ t.wrote
  BY <1>1, <1>2, DistinctDocuments DEF Untouched
<1>5. user = db[UserDoc(u)] /\ t.data[IdentityDoc(p)] = db[IdentityDoc(p)]
  BY <1>4, SnapshotIs DEF User
<1>6. db'[UserDoc(u)] = db[UserDoc(u)] /\ db'[IdentityDoc(p)] = Absent
  BY <1>1, <1>2, <1>3, <1>5, DistinctDocuments, Written
<1>7. \A d \in Documents \ {UserDoc(u), IdentityDoc(p)} : db'[d] = db[d]
  BY <1>1, <1>2, <1>3, Written
<1>8. Recent(db', u) = Recent(db, u)
  BY <1>7, DistinctDocuments DEF Recent
<1>9. \A q \in ProviderAccounts \ {p} : db'[IdentityDoc(q)] = db[IdentityDoc(q)]
  BY <1>7, DistinctDocuments
<1>10. Linked(db, p) /\ Identity(db, p).userId = u /\ Linked(t.data, p)
       /\ LinkId(t.data, p) = LinkId(db, p)
  BY <1>1, <1>5 DEF LinkedTo, Linked, Exists, Identity, LinkId
<1>11. AppleLinks(t.data, {p}) \subseteq {LinkId(db, p)}
  BY <1>10 DEF AppleLinks, LinkId
<1>12. Settled(db, u, failures[u], dropped)
  BY AccountsFacts
<1>13. Counted(db', u, failures[u]) /\ ChangedOnce(db', u)
  BY <1>6, <1>8, <1>12 DEF Settled, Counted, ChangedOnce, User, Exists
<1>14. HasWayIn(db', u, dropped)
  <2>1. CASE User(t.data, u).hasPassword
    BY <1>5, <1>6, <2>1 DEF HasWayIn, User
  <2>2. CASE Cardinality(LinkedTo(t.data, u)) > 1
    <3>1. PICK q \in LinkedTo(t.data, u) : q # p
      <4>1. LinkedTo(t.data, u) # {p}
        <5>1. Cardinality({p}) = 1
          BY FS_Singleton
        <5> QED
          BY <2>2, <5>1
      <4> QED
        BY <1>1, <4>1
    <3>2. q \in LinkedTo(db, u) \/ IsDropped(u, dropped)
      <4>1. KeepsLinks(t.data, db, u, dropped)
        BY <1>4, SnapshotIs
      <4>2. Exists(db, UserDoc(u))
        BY <1>1, <1>5 DEF Exists, User
      <4> QED
        BY <4>1, <4>2 DEF KeepsLinks
    <3>3. q \in LinkedTo(db, u) => q \in LinkedTo(db', u)
      BY <1>9, <3>1 DEF LinkedTo, Exists, Identity
    <3> QED
      BY <3>2, <3>3 DEF HasWayIn
  <2> QED
    BY <1>1, <2>1, <2>2
<1>15. Settled(db', u, failures[u], dropped)
  BY <1>13, <1>14 DEF Settled
<1>16. RevokedIsGone'
  <2>1. ASSUME NEW q \in ProviderAccounts, Linked(db', q)
        PROVE  db'[IdentityDoc(q)] = db[IdentityDoc(q)] /\ LinkId(db, q) \notin AppleLinks(t.data, {p})
    <3>1. q # p
      BY <1>6, <2>1 DEF Linked, Exists
    <3>2. db'[IdentityDoc(q)] = db[IdentityDoc(q)] /\ Linked(db, q)
      BY <1>9, <2>1, <3>1 DEF Linked, Exists
    <3>3. LinkId(db, q) # LinkId(db, p)
      BY <1>10, <3>1, <3>2, AccountsFacts DEF Older, SameLink
    <3> QED
      BY <1>11, <3>2, <3>3
  <2> QED
    BY <1>1, <2>1, RevokedAfter
<1>17. revoking' \subseteq 1 .. links
  <2>1. LinkId(db, p) \in 1 .. links
    BY <1>10, AccountsFacts DEF Numbered
  <2> QED
    BY <1>1, <1>11, <2>1, AccountsFacts
<1> DEFINE ps == {p}
<1>18. /\ ps \in SUBSET ProviderAccounts
       /\ DOMAIN writes \subseteq {UserDoc(u)} \cup {HistoryDoc(u, i) : i \in 1 .. 2}
                                    \cup {IdentityDoc(q) : q \in ps}
       /\ \A q \in ps : db'[IdentityDoc(q)] = Absent
       /\ \A q \in ps : Linked(db, q) => Identity(db, q).userId = u
  BY <1>2, <1>6, <1>10
<1>19. dropped \subseteq dropped' /\ dropped' \subseteq IdentityValues /\ dropped' = dropped
  BY <1>1 DEF AccountsInv, RestOK
<1> HIDE DEF ps, user
<1> QED
  BY <1>1, <1>2, <1>6, <1>15, <1>16, <1>17, <1>18, <1>19, LinksGo

\* The links that an older snapshot knows and the transaction does not delete are
\* gone already.
LEMMA RemoveKeeps ==
  ASSUME AccountsInv, NEW before \in Snapshots, NEW t \in Snapshots, NEW u \in Users,
         Remove(before, t, u), UNCHANGED <<changes, failures, dropped>>
  PROVE  AccountsInv'
<1> DEFINE ps == LinkedTo(t.data, u)
           gone == [d \in {IdentityDoc(p) : p \in ps} |-> Absent]
           forgotten == [d \in {HistoryDoc(u, i) : i \in 1 .. 2} |-> Absent]
           writes == (Write(UserDoc(u), Deleted) ++ gone) ++ forgotten
           ids == AppleLinks(before.data, LinkedTo(before.data, u))
<1>1. /\ t.age <= before.age /\ Exists(t.data, UserDoc(u))
      /\ Apply(writes) /\ Untouched(t, DOMAIN writes)
      /\ revoking' = revoking \cup ids
      /\ UNCHANGED <<links, revoked, withdrawn, notices, changes, failures, dropped>>
  BY DEF Remove, Commit
<1>2. ps \subseteq ProviderAccounts
  BY DEF LinkedTo
<1>3. DOMAIN writes = {UserDoc(u)} \cup {IdentityDoc(p) : p \in ps} \cup {HistoryDoc(u, i) : i \in 1 .. 2}
  BY DEF ++, Write
<1>4. writes[UserDoc(u)] = Deleted
  BY DEF ++, Write
<1>5. \A p \in ps : writes[IdentityDoc(p)] = Absent
  <2>1. ASSUME NEW p \in ps
        PROVE  writes[IdentityDoc(p)] = Absent
    <3>1. IdentityDoc(p) # UserDoc(u) /\ IdentityDoc(p) \in DOMAIN gone
      BY <1>2, DistinctDocuments
    <3> QED
      BY <3>1 DEF ++, Write
  <2> QED
    BY <2>1
<1>6. \A i \in 1 .. 2 : writes[HistoryDoc(u, i)] = Absent
  <2>1. ASSUME NEW i \in 1 .. 2
        PROVE  writes[HistoryDoc(u, i)] = Absent
    <3>1. HistoryDoc(u, i) # UserDoc(u) /\ HistoryDoc(u, i) \notin DOMAIN gone
      BY <1>2, DistinctDocuments
    <3> QED
      BY <3>1 DEF ++, Write
  <2> QED
    BY <2>1
<1> HIDE DEF writes, ids
<1>7. DOMAIN db = Documents
  BY DEF AccountsInv, RestOK
<1>8. /\ db'[UserDoc(u)] = Deleted
      /\ \A p \in ps : db'[IdentityDoc(p)] = Absent
      /\ \A i \in 1 .. 2 : db'[HistoryDoc(u, i)] = Absent
  BY <1>1, <1>2, <1>3, <1>4, <1>5, <1>6, <1>7, DistinctDocuments, Written
<1>9. UserDoc(u) \in Documents \ t.wrote /\ \A p \in ps : IdentityDoc(p) \in Documents \ t.wrote
  BY <1>1, <1>2, <1>3, DistinctDocuments DEF Untouched
<1>10. t.data[UserDoc(u)] = db[UserDoc(u)] /\ \A p \in ps : t.data[IdentityDoc(p)] = db[IdentityDoc(p)]
  BY <1>9, SnapshotIs
<1>11. \A p \in ps : Linked(db, p) /\ Identity(db, p).userId = u
  BY <1>10 DEF LinkedTo, Linked, Exists, Identity
<1>12. \A q \in ProviderAccounts \ ps : db'[IdentityDoc(q)] = db[IdentityDoc(q)]
  <2>1. ASSUME NEW q \in ProviderAccounts \ ps
        PROVE  db'[IdentityDoc(q)] = db[IdentityDoc(q)]
    <3>1. IdentityDoc(q) \in Documents \ DOMAIN writes
      BY <1>2, <1>3, DistinctDocuments
    <3> QED
      BY <1>1, <1>7, <3>1, Written
  <2> QED
    BY <2>1
<1>13. Settled(db', u, failures[u], dropped)
  <2>1. ~Exists(db', UserDoc(u)) /\ db'[UserDoc(u)] # Absent
    BY <1>8, NoContentAssumption DEF Exists
  <2>2. Recent(db', u) = {}
    BY <1>8, NoContentAssumption DEF Recent
  <2> QED
    BY <2>1, <2>2 DEF Settled, Counted, ChangedOnce, HasWayIn
<1>14. RevokedIsGone'
  <2>1. ASSUME NEW q \in ProviderAccounts, Linked(db', q)
        PROVE  db'[IdentityDoc(q)] = db[IdentityDoc(q)] /\ LinkId(db, q) \notin ids
    <3>1. q \notin ps
      BY <1>8, <2>1 DEF Linked, Exists
    <3>2. db'[IdentityDoc(q)] = db[IdentityDoc(q)] /\ Linked(db, q)
      BY <1>12, <2>1, <3>1 DEF Linked, Exists
    <3>3. ASSUME LinkId(db, q) \in ids
          PROVE  FALSE
      <4>1. PICK p \in LinkedTo(before.data, u) : LinkId(db, q) = LinkId(before.data, p)
        BY <3>3 DEF ids, AppleLinks, LinkId
      <4>2. p \in ProviderAccounts /\ Linked(before.data, p) /\ Identity(before.data, p).userId = u
        BY <4>1 DEF LinkedTo, Linked
      <4>3. p = q /\ before.data[IdentityDoc(q)] = db[IdentityDoc(q)]
                  /\ t.data[IdentityDoc(q)] = db[IdentityDoc(q)]
        BY <1>1, <3>2, <4>1, <4>2, OneLinkForOneNumber
      <4>4. q \in ps
        BY <3>2, <4>2, <4>3 DEF LinkedTo, Linked, Exists, Identity
      <4> QED
        BY <3>1, <4>4
    <3> QED
      BY <3>2, <3>3
  <2> QED
    BY <1>1, <2>1, RevokedAfter
<1>15. revoking' \subseteq 1 .. links
  <2>1. \A p \in LinkedTo(before.data, u) : LinkId(before.data, p) \in 1 .. links
    BY SnapshotIs DEF LinkedTo, Numbered, Linked
  <2>2. ids \subseteq 1 .. links
    BY <2>1 DEF ids, AppleLinks, LinkId
  <2> QED
    BY <1>1, <2>2, AccountsFacts
<1>16. dropped \subseteq dropped' /\ dropped' \subseteq IdentityValues /\ dropped' = dropped
  BY <1>1 DEF AccountsInv, RestOK
<1>17. db[UserDoc(u)] # Deleted
  BY <1>1, <1>10 DEF Exists
<1>18. /\ ps \in SUBSET ProviderAccounts
       /\ DOMAIN writes \subseteq {UserDoc(u)} \cup {HistoryDoc(u, i) : i \in 1 .. 2}
                                    \cup {IdentityDoc(q) : q \in ps}
       /\ UserDoc(u) \in DOMAIN writes
  BY <1>2, <1>3
<1> HIDE DEF ps
<1> QED
  BY <1>1, <1>8, <1>11, <1>13, <1>14, <1>15, <1>16, <1>17, <1>18, LinksGo

-----------------------------------------------------------------------------
(* The other handlers                                                      *)

LEMMA SignInKeeps ==
  ASSUME AccountsInv, NEW t \in Snapshots, NEW t2 \in Snapshots, NEW p \in ProviderAccounts,
         SignIn(t, t2, p)
  PROVE  AccountsInv'
<1>1. /\ t2.age <= t.age /\ Linked(t.data, p)
      /\ ~Exists(t2.data, UserDoc(Identity(t.data, p).userId))
      /\ DeleteLink(t.data, p) /\ UNCHANGED <<apple, changes, failures, dropped>>
  BY DEF SignIn
<1>2. ~Exists(db, UserDoc(Identity(t.data, p).userId))
  BY <1>1, OwnerStaysGone
<1>3. dropped \subseteq dropped' /\ dropped' \subseteq IdentityValues
  BY <1>1 DEF AccountsInv, RestOK
<1> QED
  BY <1>1, <1>2, <1>3, DeleteLinkKeeps

LEMMA ConsentRevokedKeeps ==
  ASSUME AccountsInv, NEW t \in Snapshots, NEW p \in ProviderAccounts, ConsentRevoked(t, p)
  PROVE  AccountsInv'
<1> DEFINE found == Linked(db, p) /\ Identity(db, p).id = Identity(t.data, p).id
<1>1. /\ Linked(t.data, p) /\ DeleteLink(t.data, p) /\ UNCHANGED <<apple, changes, failures>>
      /\ dropped' = IF found THEN dropped \cup {Identity(db, p)} ELSE dropped
  BY DEF ConsentRevoked
<1>2. found => Identity(db, p) \in IdentityValues
  BY AccountsFacts, Contents DEF Identity
<1>3. dropped \subseteq dropped' /\ dropped' \subseteq IdentityValues
  BY <1>1, <1>2 DEF AccountsInv, RestOK
<1>4. found => IsDropped(Identity(t.data, p).userId, dropped')
  <2>1. ASSUME found
        PROVE  Identity(t.data, p) = Identity(db, p)
    <3>1. t.age <= t.age
      BY SnapshotFacts DEF AccountsInv, SnapshotsInv
    <3> QED
      BY <1>1, <2>1, <3>1, OneLinkForOneNumber DEF LinkId, Identity
  <2> QED
    BY <1>1, <2>1 DEF IsDropped
<1> QED
  BY <1>1, <1>3, <1>4, DeleteLinkKeeps

LEMMA DeletedAtProviderKeeps ==
  ASSUME AccountsInv, NEW first \in Snapshots, NEW before \in Snapshots, NEW t \in Snapshots,
         NEW p \in ProviderAccounts, DeletedAtProvider(first, before, t, p)
  PROVE  AccountsInv'
<1> DEFINE u == Identity(first.data, p).userId
<1>1. /\ before.age <= first.age /\ t.age <= before.age /\ Linked(first.data, p)
      /\ UNCHANGED <<changes, failures, dropped>>
  BY DEF DeletedAtProvider
<1>2. u \in Users
  <2>1. Identity(first.data, p) \in IdentityValues
    BY <1>1, SnapshotIs, Contents DEF Identity
  <2> QED
    BY <2>1 DEF IdentityValues
<1>3. CASE Remove(before, t, u)
  BY <1>1, <1>2, <1>3, RemoveKeeps
<1>4. CASE ~Exists(t.data, UserDoc(u)) /\ DeleteLink(first.data, p) /\ UNCHANGED apple
  <2>1. t.age <= first.age
    BY <1>1, SnapshotFacts DEF AccountsInv, SnapshotsInv
  <2>2. ~Exists(db, UserDoc(u))
    BY <1>1, <1>4, <2>1, OwnerStaysGone
  <2>3. dropped \subseteq dropped' /\ dropped' \subseteq IdentityValues
    BY <1>1 DEF AccountsInv, RestOK
  <2> QED
    BY <1>1, <1>4, <2>2, <2>3, DeleteLinkKeeps
<1> QED
  BY <1>3, <1>4 DEF DeletedAtProvider

LEMMA WithdrawConsentKeeps ==
  ASSUME AccountsInv, NEW p \in ProviderAccounts, WithdrawConsent(p)
  PROVE  AccountsInv'
<1>1. /\ Linked(db, p) /\ withdrawn' = withdrawn \cup {Identity(db, p).id}
      /\ notices' = notices \cup {p}
      /\ UNCHANGED <<db, past, links, revoking, revoked, failures, dropped>>
  BY DEF WithdrawConsent
<1>2. Identity(db, p).id \in 1 .. links
  BY <1>1, AccountsFacts DEF Numbered, LinkId
<1>3. withdrawn' \subseteq 1 .. links /\ notices' \subseteq ProviderAccounts
      /\ dropped \subseteq IdentityValues
  BY <1>1, <1>2 DEF AccountsInv, RestOK
<1>4. changes' \in 0 .. MaxChanges
  BY ChangeCounts DEF WithdrawConsent
<1> QED
  BY <1>1, <1>3, <1>4, DatabaseUntouched

LEMMA RevokeKeeps ==
  ASSUME AccountsInv, NEW id \in revoking, Revoke(id)
  PROVE  AccountsInv'
<1>1. /\ revoking' \cup revoked' \subseteq revoking \cup revoked
      /\ UNCHANGED <<db, past, links, withdrawn, notices, changes, failures, dropped>>
  BY DEF Revoke
<1>2. withdrawn \subseteq 1 .. links /\ notices \subseteq ProviderAccounts
      /\ dropped \subseteq IdentityValues /\ changes \in 0 .. MaxChanges
  BY DEF AccountsInv, RestOK
<1> QED
  BY <1>1, <1>2, DatabaseUntouched

-----------------------------------------------------------------------------
LEMMA InitKeeps ==
  ASSUME Init
  PROVE  AccountsInv
<1>1. /\ db = [d \in Documents |-> Absent] /\ past = << >>
      /\ links = 0 /\ changes = 0
      /\ revoking = {} /\ revoked = {} /\ withdrawn = {} /\ notices = {}
      /\ failures = [u \in Users |-> 0] /\ dropped = {}
  BY DEF Init, TransactionsInit
<1>2. /\ MaxLinks \in Nat /\ MaxChanges \in Nat /\ MaxFailed \in Nat \ {0}
  BY AccountsAssumption
<1>3. /\ \A u \in Users : db[UserDoc(u)] = Absent
      /\ \A p \in ProviderAccounts : db[IdentityDoc(p)] = Absent
      /\ \A u \in Users, i \in 1 .. 2 : db[HistoryDoc(u, i)] = Absent
  BY <1>1, DistinctDocuments
<1>4. \A p \in ProviderAccounts : ~Linked(db, p)
  BY <1>3 DEF Linked, Exists
<1>5. Snapshots = {[age |-> 0, data |-> db, wrote |-> {}]}
  BY <1>1 DEF Snapshots
<1>6. Valid(db) /\ Numbered(db, links) /\ Since(db, {}, db, dropped) /\ Older(db, db, db)
  <2>1. \A u \in Users : LinkedTo(db, u) = {}
    BY <1>4 DEF LinkedTo, Linked
  <2>2. Since(db, {}, db, dropped)
    BY <2>1 DEF Since, KeepsLinks
  <2> QED
    BY <1>3, <1>4, <2>2 DEF Valid, Numbered, Older, Lasting, SameLink
<1>7. past \in Seq({past[i] : i \in DOMAIN past})
  BY <1>1
<1>8. SnapshotsInv
  BY <1>5, <1>6, <1>7 DEF SnapshotsInv
<1>9. ASSUME NEW u \in Users
      PROVE  Settled(db, u, failures[u], dropped)
  <2>1. ~Exists(db, UserDoc(u)) /\ failures[u] = 0
    BY <1>1, <1>3 DEF Exists
  <2>2. Recent(db, u) = {}
    BY <1>3, NoContentAssumption DEF Recent
  <2> QED
    BY <2>1, <2>2 DEF Settled, Counted, ChangedOnce, HasWayIn
<1>10. RestOK
  <2>1. 0 \in 0 .. MaxLinks /\ 0 \in 0 .. MaxChanges /\ 0 \in 0 .. MaxFailed
    BY <1>2
  <2> QED
    BY <1>1, <2>1 DEF RestOK
<1>11. RevokedIsGone
  BY <1>4 DEF RevokedIsGone
<1> QED
  BY <1>8, <1>9, <1>10, <1>11 DEF AccountsInv

LEMMA NextKeeps ==
  ASSUME AccountsInv, [Next]_vars
  PROVE  AccountsInv'
<1>1. ASSUME NEW u \in Users, NEW e \in Emails, CreateUser(u, e)
      PROVE  AccountsInv'
  BY <1>1, CreateUserKeeps
<1>2. ASSUME NEW p \in ProviderAccounts, WithdrawConsent(p)
      PROVE  AccountsInv'
  BY <1>2, WithdrawConsentKeeps
<1>3. ASSUME NEW id \in revoking, Revoke(id)
      PROVE  AccountsInv'
  BY <1>3, RevokeKeeps
<1>4. ASSUME NEW u \in Users, IntervalPasses(u)
      PROVE  AccountsInv'
  BY <1>4, IntervalPassesKeeps
<1>5. ASSUME NEW t \in Snapshots, NEW u \in Users,
             \/ Login(t, u) \/ WrongPassword(t, u) \/ ResetPassword(t, u)
             \/ ValidateEmail(t, u) \/ UpdateProfile(t, u)
      PROVE  AccountsInv'
  BY <1>5, LoginKeeps, WrongPasswordKeeps, ResetPasswordKeeps, ValidateEmailKeeps,
     UpdateProfileKeeps
<1>6. ASSUME NEW t \in Snapshots, NEW u \in Users, NEW e \in Emails, SignUp(t, u, e)
      PROVE  AccountsInv'
  BY <1>6, CreateUserKeeps DEF SignUp
<1>7. ASSUME NEW t \in Snapshots, NEW u \in Users, NEW before \in Snapshots,
             DeleteUser(before, t, u)
      PROVE  AccountsInv'
  BY <1>7, RemoveKeeps DEF DeleteUser
<1>8. ASSUME NEW t \in Snapshots, NEW p \in ProviderAccounts, ConsentRevoked(t, p)
      PROVE  AccountsInv'
  BY <1>8, ConsentRevokedKeeps
<1>9. ASSUME NEW t \in Snapshots, NEW p \in ProviderAccounts, NEW u \in Users,
             UnlinkSocialProvider(t, u, p)
      PROVE  AccountsInv'
  BY <1>9, UnlinkSocialProviderKeeps
<1>10. ASSUME NEW t \in Snapshots, NEW p \in ProviderAccounts, NEW t2 \in Snapshots,
              SignIn(t, t2, p)
       PROVE  AccountsInv'
  BY <1>10, SignInKeeps
<1>11. ASSUME NEW t \in Snapshots, NEW p \in ProviderAccounts, NEW t2 \in Snapshots,
              NEW u \in Users, SocialAuth(t, t2, u, p)
       PROVE  AccountsInv'
  <2>1. SharedEmail[p] \in Emails
    BY <1>11, AccountsAssumption DEF SocialAuth
  <2> QED
    BY <1>11, <2>1, CreateKeeps DEF SocialAuth
<1>12. ASSUME NEW t \in Snapshots, NEW p \in ProviderAccounts, NEW t2 \in Snapshots,
              NEW u \in Users, LinkSocialProvider(t, t2, u, p)
       PROVE  AccountsInv'
  BY <1>12, LinkSocialProviderKeeps
<1>13. ASSUME NEW t \in Snapshots, NEW p \in ProviderAccounts, NEW t2 \in Snapshots,
              NEW u \in Users, NEW e \in Emails, CompleteSocialSignUp(t, t2, u, p, e)
       PROVE  AccountsInv'
  BY <1>13, CreateKeeps DEF CompleteSocialSignUp
<1>14. ASSUME NEW t \in Snapshots, NEW p \in ProviderAccounts, NEW t2 \in Snapshots,
              NEW first \in Snapshots,
              AccountDeleted(first, t2, t, p) \/ DataDeletion(first, t2, t, p)
       PROVE  AccountsInv'
  BY <1>14, DeletedAtProviderKeeps DEF AccountDeleted, DataDeletion
<1>15. CASE UNCHANGED vars
  <2>1. changes \in 0 .. MaxChanges /\ withdrawn \subseteq 1 .. links
        /\ notices \subseteq ProviderAccounts /\ dropped \subseteq IdentityValues
    BY DEF AccountsInv, RestOK
  <2> QED
    BY <1>15, <2>1, DatabaseUntouched DEF vars, apple
<1>16. CASE Next
  BY <1>1, <1>2, <1>3, <1>4, <1>5, <1>6, <1>7, <1>8, <1>9, <1>10, <1>11, <1>12, <1>13,
     <1>14, <1>16 DEF Next
<1> QED
  BY <1>15, <1>16

\* What the snapshots say of the database, what is settled for each account and
\* that revoked authorizations are gone, in every reachable state.
THEOREM AccountsInvHolds == Spec => []AccountsInv
<1>1. Init => AccountsInv
  BY InitKeeps
<1>2. AccountsInv /\ [Next]_vars => AccountsInv'
  BY NextKeeps
<1> QED
  BY <1>1, <1>2, PTL DEF Spec

\* An account without a password keeps a link, unless its provider had it dropped:
\* unlinkSocialProvider.go writes the user, so that another unlink, a removal or a
\* profile change conflicts with it.
THEOREM NobodyIsLockedOut == Spec => []NobodyLockedOut
<1>1. AccountsInv => NobodyLockedOut
  <2> SUFFICES ASSUME AccountsInv
               PROVE  NobodyLockedOut
    OBVIOUS
  <2>1. TypeOK
    BY AccountsFacts DEF AccountsInv, RestOK, TypeOK, Valid
  <2> QED
    BY <2>1, AccountsFacts DEF NobodyLockedOut, Settled, HasWayIn, IsDropped
<1> QED
  BY <1>1, AccountsInvHolds, PTL

\* Enough wrong passwords lock an account, also when they come all at once:
\* login.go counts them in the document itself.
THEOREM WrongPasswordsAlwaysLock == Spec => []WrongPasswordsLock
<1>1. AccountsInv => WrongPasswordsLock
  <2> SUFFICES ASSUME AccountsInv, NEW u \in Users
               PROVE  failures[u] = MaxFailed => ~IsActive(db, u)
    BY DEF WrongPasswordsLock
  <2>1. Settled(db, u, failures[u], dropped) /\ MaxFailed \in Nat
    BY AccountsFacts, AccountsAssumption
  <2> QED
    BY <2>1 DEF Settled, Counted, IsActive
<1> QED
  BY <1>1, AccountsInvHolds, PTL

\* A restricted field changes once in an interval, also when the requests come
\* all at once: updateProfile.go writes the user together with the entry, so that
\* two of them conflict.
THEOREM ProfilesChangeOnce == Spec => []OneChangePerInterval
<1>1. AccountsInv => OneChangePerInterval
  <2> SUFFICES ASSUME AccountsInv, NEW u \in Users
               PROVE  Cardinality(Recent(db, u)) <= 1
    BY DEF OneChangePerInterval
  <2>1. \A i, j \in Recent(db, u) : i = j
    BY AccountsFacts DEF Settled, ChangedOnce
  <2>2. CASE Recent(db, u) = {}
    BY <2>2, FS_EmptySet
  <2>3. CASE Recent(db, u) # {}
    <3>1. PICK i \in Recent(db, u) : TRUE
      BY <2>3
    <3>2. Recent(db, u) = {i} /\ Cardinality({i}) = 1
      BY <2>1, <3>1, FS_Singleton
    <3> QED
      BY <3>2
  <2> QED
    BY <2>2, <2>3
<1> QED
  BY <1>1, AccountsInvHolds, PTL

\* The counters of login.go and updateProfile.go hold, whatever interleaves.
THEOREM LimitsAlwaysHold == Spec => []LimitsHold
<1>1. WrongPasswordsLock /\ OneChangePerInterval => LimitsHold
  BY DEF LimitsHold
<1> QED
  BY <1>1, WrongPasswordsAlwaysLock, ProfilesChangeOnce, PTL

\* The authorizations revoked at Apple after an unlink or a removal are those of
\* links the database no longer holds.
THEOREM RevokedLinksAreGone == Spec => []RevokedIsGone
<1>1. AccountsInv => RevokedIsGone
  BY DEF AccountsInv
<1> QED
  BY <1>1, AccountsInvHolds, PTL
=============================================================================
