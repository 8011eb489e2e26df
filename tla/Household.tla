------------------------------ MODULE Household ------------------------------
(***************************************************************************)
(* Houses and who belongs to them, chores and their review, and the        *)
(* removal of accounts: application/{house,chore,user}. Each handler is    *)
(* one action; t is the snapshot it has decided on, and that its commit    *)
(* is checked against (see Transactions). Errors change nothing and have   *)
(* no action.                                                              *)
(*                                                                         *)
(* Left out, because they only refuse or only inform: the expiry of invite *)
(* codes, the rate limit on profile changes, names, dates, levels and      *)
(* histories. Announcements are not modelled.                              *)
(***************************************************************************)
EXTENDS Naturals, Sequences, FiniteSets

CONSTANTS
  Users, Houses, Chores, Photos,
  Limits,           \* maxMemberCount a request may ask for
  MaxReviewRounds,  \* maxReviewRounds of the workflow policy
  MaxAge,           \* bound: commits that may overtake one handler
  MaxUnanswered,    \* bound: photo updates that commit without an answer
  MaxChanges,       \* bound: changes of houses, accounts and assignees
  Absent,           \* content of a document that does not exist (yet)
  Deleted           \* content of a house, chore or user that was deleted

ASSUME HouseholdAssumption ==
  /\ Limits \subseteq Nat \ {0}
  /\ MaxReviewRounds \in Nat \ {0}
  /\ MaxAge \in Nat
  /\ MaxUnanswered \in Nat
  /\ MaxChanges \in Nat
  /\ {"", "system"} \cap Users = {}

Rounds == 1 .. MaxReviewRounds

UserDoc(u) == <<"User", u>>
HouseDoc(h) == <<"House", h>>
InviteDoc(h) == <<"HouseInviteCode", h>>
ChoreDoc(c) == <<"Chore", c>>
VoteDoc(c, r, u) == <<"ChoreReviewVote", c, r, u>>

Documents ==
  {UserDoc(u) : u \in Users} \cup {HouseDoc(h) : h \in Houses}
    \cup {InviteDoc(h) : h \in Houses} \cup {ChoreDoc(c) : c \in Chores}
    \cup {VoteDoc(c, r, u) : c \in Chores, r \in Rounds, u \in Users}

AccountValues == [houseIds : SUBSET Houses]
HouseValues ==
  [ownerId : Users, memberIds : Seq(Users), maxMemberCount : Limits, photoRequired : BOOLEAN]
ChoreValues ==
  [houseId : Houses, assignedTo : Users, status : {"Draft", "Progress", "InTest", "Completed"},
   reviewRound : 0 .. MaxReviewRounds, completedBy : Users \cup {"", "system"},
   reviewPhotoKeys : [Rounds -> Photos \cup {"none"}]]

ASSUME NoContentAssumption ==
  /\ {Absent, Deleted} \cap AccountValues = {} /\ Absent \notin HouseValues /\ Deleted \notin HouseValues
  /\ {Absent, Deleted} \cap ChoreValues = {} /\ {Absent, Deleted} \cap [isApproved : BOOLEAN] = {}
  /\ Absent # Deleted

VARIABLES
  db, past,         \* see Transactions
  objects,          \* review photos in the object storage
  upload,           \* what became of each photo's request
  changes,          \* number of changes of houses, accounts and assignees so far
  disturbed         \* history: chores whose household or assignee has changed
                    \* since their review round was opened

vars == <<db, past, objects, upload, changes, disturbed>>

INSTANCE Transactions

Exists(s, doc) == s[doc] \notin {Absent, Deleted}

(***************************************************************************)
(* Houses (house/policies and house/commands)                              *)
(***************************************************************************)
MemberIds(s, h) == s[HouseDoc(h)].memberIds
Members(s, h) == {MemberIds(s, h)[i] : i \in 1 .. Len(MemberIds(s, h))}

IsMember(s, h, u) == Exists(s, HouseDoc(h)) /\ u \in Members(s, h)
IsOwner(s, h, u) == IsMember(s, h, u) /\ s[HouseDoc(h)].ownerId = u

\* The members without u ($pull); nobody is listed twice.
Others(members, u) ==
  IF \A i \in 1 .. Len(members) : members[i] # u THEN members
  ELSE LET k == CHOOSE i \in 1 .. Len(members) : members[i] = u
       IN [i \in 1 .. Len(members) - 1 |-> IF i < k THEN members[i] ELSE members[i + 1]]

WithHouse(s, u, h) == [s[UserDoc(u)] EXCEPT !.houseIds = @ \cup {h}]
WithoutHouse(s, u, h) == [s[UserDoc(u)] EXCEPT !.houseIds = @ \ {h}]

FirstOf(members) == IF members = << >> THEN "" ELSE Head(members)

\* Mutant of LeftBy: the owner is kept.
LeftByAnyone(s, h, u) ==
  [s[HouseDoc(h)] EXCEPT !.memberIds = Others(@, u)]

\* A house its member u has left: an owner hands it to the first other member.
LeftBy(s, h, u) ==
  LET house == s[HouseDoc(h)]
      others == Others(house.memberIds, u)
  IN [house EXCEPT !.memberIds = others,
                   !.ownerId = IF @ = u THEN FirstOf(others) ELSE @]

InviteRevoked(s, h) ==
  IF Exists(s, InviteDoc(h)) THEN Write(InviteDoc(h), Absent) ELSE << >>

CreateHouse(t, u, h, limit) ==
  LET s == t.data IN
  /\ Exists(s, UserDoc(u))
  /\ db[HouseDoc(h)] = Absent             \* the id is new
  /\ Commit(t, Write(HouseDoc(h), [ownerId |-> u, memberIds |-> <<u>>,
                                   maxMemberCount |-> limit, photoRequired |-> FALSE])
                 ++ Write(UserDoc(u), WithHouse(s, u, h)))

\* u has the house's current code; whoever has an older one is refused.
JoinHouse(t, u, h) ==
  LET s == t.data
      house == s[HouseDoc(h)]
  IN /\ Exists(s, UserDoc(u))
     /\ Exists(s, InviteDoc(h))
     /\ Exists(s, HouseDoc(h))
     /\ u \notin Members(s, h)
     /\ Len(house.memberIds) < house.maxMemberCount
     /\ Commit(t, Write(HouseDoc(h), [house EXCEPT !.memberIds = Append(@, u)])
                    ++ Write(UserDoc(u), WithHouse(s, u, h)))

\* A member leaves, or the owner removes one; an owner's act revokes the invite.
ExitHouse(t, requester, target, h) ==
  LET s == t.data IN
  /\ IsMember(s, h, requester)
  /\ target \in Members(s, h)
  /\ requester = target \/ s[HouseDoc(h)].ownerId = requester
  /\ Exists(s, UserDoc(target))
  /\ IsOwner(s, h, target) => Others(MemberIds(s, h), target) # << >>
  /\ h \in s[UserDoc(target)].houseIds
  /\ Commit(t, Write(HouseDoc(h), LeftBy(s, h, target))
                 ++ Write(UserDoc(target), WithoutHouse(s, target, h))
                 ++ (IF IsOwner(s, h, requester) THEN InviteRevoked(s, h) ELSE << >>))

\* No transaction: the owner is read, then the code is written whatever the house
\* has become.
GenerateInviteCode(t, u, h) ==
  LET s == t.data IN
  /\ Exists(s, HouseDoc(h))
  /\ s[HouseDoc(h)].ownerId = u
  /\ Apply(Write(InviteDoc(h), [live |-> TRUE]))

UpdateProfile(t, u, h, limit, photoRequired) ==
  LET s == t.data
      house == s[HouseDoc(h)]
      changed == [house EXCEPT !.maxMemberCount = limit, !.photoRequired = photoRequired]
  IN /\ IsOwner(s, h, u)
     /\ limit >= Len(house.memberIds)
     /\ changed # house
     /\ Commit(t, Write(HouseDoc(h), changed))

(***************************************************************************)
(* Removal of an account (user/policies/accountRemoval.go)                 *)
(***************************************************************************)
HousesOf(s, u) ==
  {h \in Houses : Exists(s, HouseDoc(h)) /\ (u \in Members(s, h) \/ s[HouseDoc(h)].ownerId = u)}

Abandoned(s, u) == {h \in HousesOf(s, u) : Others(MemberIds(s, h), u) = << >>}

\* What goes away with the houses hs: everything that names one of them.
HouseScoped(s, hs) ==
  LET chores == {c \in Chores : Exists(s, ChoreDoc(c)) /\ s[ChoreDoc(c)].houseId \in hs}
      votes == {d \in {VoteDoc(c, r, u) : c \in chores, r \in Rounds, u \in Users} : Exists(s, d)}
      invites == {d \in {InviteDoc(h) : h \in hs} : Exists(s, d)}
  IN [d \in {HouseDoc(h) : h \in hs} \cup {ChoreDoc(c) : c \in chores} |-> Deleted]
     ++ [d \in votes \cup invites |-> Absent]

DeleteUser(t, u) ==
  LET s == t.data
      kept == HousesOf(s, u) \ Abandoned(s, u)
  IN /\ Exists(s, UserDoc(u))
     /\ Commit(t, Write(UserDoc(u), Deleted)
                    ++ HouseScoped(s, Abandoned(s, u))
                    ++ [d \in {HouseDoc(h) : h \in kept} |-> LeftBy(s, d[2], u)])

(***************************************************************************)
(* Chores (chore/policies and chore/commands)                              *)
(***************************************************************************)
ValidAssignee(s, h, a) == IsMember(s, h, a) /\ Exists(s, UserDoc(a))

CreateChore(t, u, h, a, c) ==
  LET s == t.data IN
  /\ IsMember(s, h, u)
  /\ ValidAssignee(s, h, a)
  /\ db[ChoreDoc(c)] = Absent             \* the id is new
  /\ Commit(t, Write(ChoreDoc(c),
       [houseId |-> h, assignedTo |-> a, status |-> "Draft", reviewRound |-> 0,
        completedBy |-> "", reviewPhotoKeys |-> [r \in Rounds |-> "none"]]))

\* No transaction: the chore is read, then the house; the update takes the chore
\* only in the version that was read, and every write of a chore makes a new one.
UpdateChore(t, later, u, c, a) ==
  LET chore == t.data[ChoreDoc(c)]
      s == later.data
  IN /\ later.age <= t.age
     /\ Exists(t.data, ChoreDoc(c))
     /\ IsMember(s, chore.houseId, u)
     /\ ValidAssignee(s, chore.houseId, a)
     /\ a # chore.assignedTo              \* other fields are not modelled
     /\ Untouched(t, {ChoreDoc(c)})
     /\ Apply(Write(ChoreDoc(c), [chore EXCEPT !.assignedTo = a]))

\* WorkflowPolicy.Advance
CanAdvance(chore, u) ==
  /\ chore.assignedTo = u
  /\ \/ chore.status = "Draft"
     \/ chore.status = "Progress" /\ chore.reviewRound < MaxReviewRounds

Submitted(chore, memberCount) ==
  [chore EXCEPT !.reviewRound = @ + 1,
                !.status = IF memberCount <= 1 THEN "Completed" ELSE "InTest",
                !.completedBy = IF memberCount <= 1 THEN chore.assignedTo ELSE ""]

Advanced(chore, memberCount) ==
  IF chore.status = "Draft" THEN [chore EXCEPT !.status = "Progress"]
  ELSE Submitted(chore, memberCount)

\* u's chores cs of one house move on together, each to its next status.
UpdateChoreStatus(t, u, h, cs) ==
  LET s == t.data IN
  /\ IsMember(s, h, u)
  /\ \A c \in cs :
       /\ Exists(s, ChoreDoc(c))
       /\ s[ChoreDoc(c)].houseId = h
       /\ s[ChoreDoc(c)].status = "Progress" => ~s[HouseDoc(h)].photoRequired
       /\ CanAdvance(s[ChoreDoc(c)], u)
  /\ Commit(t, [d \in {ChoreDoc(c) : c \in cs} |-> Advanced(s[d], Len(MemberIds(s, h)))])

\* The same for one chore with a photo. What is required is checked once before
\* the photo is stored, of the house and then, by another read, of the chore,
UploadReviewPhoto(t, later, u, h, c, p) ==
  LET chore == later.data[ChoreDoc(c)] IN
  /\ upload[p].state = "none"
  /\ later.age <= t.age
  /\ IsMember(t.data, h, u)
  /\ Exists(later.data, ChoreDoc(c))
  /\ chore.houseId = h
  /\ chore.status = "Progress"
  /\ CanAdvance(chore, u)
  /\ objects' = objects \cup {p}
  /\ upload' = [upload EXCEPT ![p] = [state |-> "stored", by |-> u, choreId |-> c]]

\* and again in the transaction, whose commit may go unanswered.
SubmitReviewPhoto(t, p, answered) ==
  LET s == t.data
      u == upload[p].by
      c == upload[p].choreId
      chore == s[ChoreDoc(c)]
      submitted == Submitted(chore, Len(MemberIds(s, chore.houseId)))
  IN /\ upload[p].state = "stored"
     /\ Exists(s, ChoreDoc(c))
     /\ IsMember(s, chore.houseId, u)
     /\ chore.status = "Progress"
     /\ CanAdvance(chore, u)
     /\ Commit(t, Write(ChoreDoc(c),
                 [submitted EXCEPT !.reviewPhotoKeys[submitted.reviewRound] = p]))
     /\ upload' = [upload EXCEPT ![p].state = IF answered THEN "kept" ELSE "unanswered"]

\* Mutant of DeleteUploadedPhoto: the object is deleted after a success as well.
DeleteEveryPhoto(p) ==
  /\ upload[p].state \in {"stored", "unanswered", "kept"}
  /\ objects' = objects \ {p}
  /\ upload' = [upload EXCEPT ![p].state = IF @ = "unanswered" THEN "lost" ELSE "failed"]

\* After an error of the transaction, whatever it means, the object is deleted.
\* (A crash, or a failure to delete, is that this never happens.)
DeleteUploadedPhoto(p) ==
  /\ upload[p].state \in {"stored", "unanswered"}
  /\ objects' = objects \ {p}
  /\ upload' = [upload EXCEPT ![p].state = IF @ = "stored" THEN "failed" ELSE "lost"]

Votes(s, c, r, approved) == {u \in Users : s[VoteDoc(c, r, u)] = [isApproved |-> approved]}

\* Mutant of Reviewed: the assignee is taken for one of the reviewers' votes.
ReviewedEarly(chore, isApproved, approvedCount, memberCount) ==
  CASE ~isApproved /\ chore.reviewRound < MaxReviewRounds ->
         [chore EXCEPT !.status = "Progress", !.completedBy = ""]
    [] ~isApproved /\ chore.reviewRound >= MaxReviewRounds ->
         [chore EXCEPT !.status = "Completed", !.completedBy = "system"]
    [] isApproved /\ approvedCount < memberCount - 2 -> chore
    [] isApproved /\ approvedCount >= memberCount - 2 ->
         [chore EXCEPT !.status = "Completed", !.completedBy = chore.assignedTo]

\* WorkflowPolicy.ApplyReview
Reviewed(chore, isApproved, approvedCount, memberCount) ==
  CASE ~isApproved /\ chore.reviewRound < MaxReviewRounds ->
         [chore EXCEPT !.status = "Progress", !.completedBy = ""]
    [] ~isApproved /\ chore.reviewRound >= MaxReviewRounds ->
         [chore EXCEPT !.status = "Completed", !.completedBy = "system"]
    [] isApproved /\ approvedCount < memberCount - 1 -> chore
    [] isApproved /\ approvedCount >= memberCount - 1 ->
         [chore EXCEPT !.status = "Completed", !.completedBy = chore.assignedTo]

\* Mutant of ReviewChore: no transaction and no version.
ReviewChoreUnlocked(t, u, c, isApproved) ==
  LET s == t.data
      chore == s[ChoreDoc(c)]
      approvals == Votes(s, c, chore.reviewRound, TRUE) \cup {u}
  IN /\ Exists(s, ChoreDoc(c))
     /\ chore.status = "InTest"
     /\ IsMember(s, chore.houseId, u)
     /\ chore.assignedTo # u
     /\ ~Exists(s, VoteDoc(c, chore.reviewRound, u))       \* unique index
     /\ Apply(Write(ChoreDoc(c), Reviewed(chore, isApproved, Cardinality(approvals),
                                                 Len(MemberIds(s, chore.houseId))))
                   ++ Write(VoteDoc(c, chore.reviewRound, u), [isApproved |-> isApproved]))

ReviewChore(t, u, c, isApproved) ==
  LET s == t.data
      chore == s[ChoreDoc(c)]
      approvals == Votes(s, c, chore.reviewRound, TRUE) \cup {u}
  IN /\ Exists(s, ChoreDoc(c))
     /\ chore.status = "InTest"
     /\ IsMember(s, chore.houseId, u)
     /\ chore.assignedTo # u
     /\ ~Exists(s, VoteDoc(c, chore.reviewRound, u))       \* unique index
     /\ Commit(t, Write(ChoreDoc(c), Reviewed(chore, isApproved, Cardinality(approvals),
                                                 Len(MemberIds(s, chore.houseId))))
                    ++ Write(VoteDoc(c, chore.reviewRound, u), [isApproved |-> isApproved]))

(***************************************************************************)
(* The specification                                                       *)
(***************************************************************************)
UnderReview(s, c) ==
  Exists(s, ChoreDoc(c)) /\ s[ChoreDoc(c)].status \in {"InTest", "Completed"}

HouseholdOf(s, c) ==
  LET h == s[ChoreDoc(c)].houseId IN IF Exists(s, HouseDoc(h)) THEN Members(s, h) ELSE {}

\* Who is to review c: everybody in the house but the assignee.
Reviewers(s, c) == HouseholdOf(s, c) \ {s[ChoreDoc(c)].assignedTo}

\* A round is disturbed when the household or the assignee changes, or the house has
\* been written between the snapshot in which the round was opened and its commit.
Tracked(t) ==
  disturbed' = {c \in Chores :
    /\ UnderReview(db', c)
    /\ IF UnderReview(db, c)
       THEN \/ c \in disturbed
            \/ HouseholdOf(db', c) # HouseholdOf(db, c)
            \/ db'[ChoreDoc(c)].assignedTo # db[ChoreDoc(c)].assignedTo
       ELSE ~Untouched(t, {HouseDoc(db'[ChoreDoc(c)].houseId)})}

Init ==
  /\ TransactionsInit([d \in Documents |->
       IF d \in {UserDoc(u) : u \in Users} THEN [houseIds |-> {}] ELSE Absent])
  /\ objects = {}
  /\ upload = [p \in Photos |-> [state |-> "none"]]
  /\ changes = 0
  /\ disturbed = {}

Counted == changes < MaxChanges /\ changes' = changes + 1

HouseStep ==
  \E t \in Snapshots, u \in Users, h \in Houses :
    /\ \/ \E limit \in Limits : CreateHouse(t, u, h, limit)
       \/ JoinHouse(t, u, h)
       \/ \E target \in Users : ExitHouse(t, u, target, h)
       \/ GenerateInviteCode(t, u, h)
       \/ \E limit \in Limits, required \in BOOLEAN : UpdateProfile(t, u, h, limit, required)
    /\ Counted
    /\ Tracked(t)
    /\ UNCHANGED <<objects, upload>>

DeleteUserStep ==
  \E t \in Snapshots, u \in Users :
    /\ DeleteUser(t, u)
    /\ Counted
    /\ Tracked(t)
    /\ UNCHANGED <<objects, upload>>

ChoreStep ==
  \E t \in Snapshots, u \in Users :
    /\ \/ \E h \in Houses, a \in Users, c \in Chores : CreateChore(t, u, h, a, c)
       \/ \E h \in Houses, cs \in SUBSET Chores \ {{}} : UpdateChoreStatus(t, u, h, cs)
       \/ \E c \in Chores, isApproved \in BOOLEAN : ReviewChore(t, u, c, isApproved)
    /\ Tracked(t)
    /\ UNCHANGED <<objects, upload, changes>>

ReassignStep ==
  \E t, later \in Snapshots, u, a \in Users, c \in Chores :
    /\ UpdateChore(t, later, u, c, a)
    /\ Counted
    /\ Tracked(t)
    /\ UNCHANGED <<objects, upload>>

PhotoStep ==
  \E t \in Snapshots, p \in Photos :
    \/ /\ \E later \in Snapshots, u \in Users, h \in Houses, c \in Chores :
            UploadReviewPhoto(t, later, u, h, c, p)
       /\ UNCHANGED <<db, past, changes, disturbed>>
    \/ /\ \E answered \in BOOLEAN :
            /\ answered \/ Cardinality({q \in Photos : upload[q].state \in {"unanswered", "lost"}})
                             < MaxUnanswered
            /\ SubmitReviewPhoto(t, p, answered)
       /\ Tracked(t)
       /\ UNCHANGED <<objects, changes>>
    \/ /\ DeleteUploadedPhoto(p)
       /\ UNCHANGED <<db, past, changes, disturbed>>

Next == HouseStep \/ DeleteUserStep \/ ChoreStep \/ ReassignStep \/ PhotoStep

Spec == Init /\ [][Next]_vars

(***************************************************************************)
(* Properties                                                              *)
(***************************************************************************)
\* Type invariant.
TypeOK ==
  /\ DOMAIN db = Documents
  /\ \A u \in Users : db[UserDoc(u)] \in AccountValues \cup {Deleted}
  /\ \A h \in Houses : db[HouseDoc(h)] \in HouseValues \cup {Absent, Deleted}
  /\ \A h \in Houses : db[InviteDoc(h)] \in [live : {TRUE}] \cup {Absent}
  /\ \A c \in Chores : db[ChoreDoc(c)] \in ChoreValues \cup {Absent, Deleted}
  /\ \A c \in Chores, r \in Rounds, u \in Users :
       db[VoteDoc(c, r, u)] \in [isApproved : BOOLEAN] \cup {Absent}
  /\ objects \subseteq Photos
  /\ disturbed \subseteq Chores

\* Membership is kept twice, in the house and in the account, and the two agree:
\* whoever a house lists has an account that lists the house, and conversely
\* (JoinHouse, ExitHouse and AccountRemoval write both in one transaction).
MembershipSymmetric ==
  \A h \in Houses, u \in Users :
    IsMember(db, h, u) <=> Exists(db, UserDoc(u)) /\ h \in db[UserDoc(u)].houseIds

\* A house has an owner who is one of its members, whoever leaves, is removed or
\* deletes an account at the same time, and whoever is handed the house then.
OwnerIsMember ==
  \A h \in Houses : Exists(db, HouseDoc(h)) => db[HouseDoc(h)].ownerId \in Members(db, h)

\* A house lists nobody twice and no more members than it allows, although the
\* limit may be lowered while somebody joins.
WithinLimit ==
  \A h \in Houses : Exists(db, HouseDoc(h)) =>
    /\ Cardinality(Members(db, h)) = Len(MemberIds(db, h))
    /\ Len(MemberIds(db, h)) <= db[HouseDoc(h)].maxMemberCount

\* Houses and accounts agree, every house is owned by a member, and none has more
\* members than it allows.
HousesAgree == MembershipSymmetric /\ OwnerIsMember /\ WithinLimit

\* A rejection ends its round, so a round has at most one; every round before the
\* last has ended with one, and a round under review has none (ReviewChore takes
\* the chore in the version it has read).
OneRejectionEndsARound ==
  \A c \in Chores : Exists(db, ChoreDoc(c)) =>
    LET chore == db[ChoreDoc(c)]
        rejections(r) == Cardinality(Votes(db, c, r, FALSE))
    IN \A r \in Rounds :
         /\ r < chore.reviewRound => rejections(r) = 1
         /\ r > chore.reviewRound => rejections(r) = 0
         /\ r = chore.reviewRound =>
              rejections(r) = IF \/ chore.status = "Progress"
                                 \/ chore.completedBy = "system" THEN 1 ELSE 0

\* A review can be decided: while the household is the one it was opened in,
\* somebody in it has yet to vote (ApplyReview closes it with the last one).
ReviewCanBeDecided ==
  \A c \in Chores \ disturbed :
    (Exists(db, ChoreDoc(c)) /\ db[ChoreDoc(c)].status = "InTest") =>
      \E u \in Reviewers(db, c) : ~Exists(db, VoteDoc(c, db[ChoreDoc(c)].reviewRound, u))

\* Rounds of review follow each other, each ended by one rejection, and the last one
\* can be decided, whichever votes, advances and changes of the house overtake each
\* other (UpdateChoreStatus, ReviewChore).
ReviewsProceed == TypeOK /\ OneRejectionEndsARound /\ ReviewCanBeDecided

\* A chore that its assignee completed was approved by each of the others, if
\* the household is the one the round was opened in (ApplyReview only counts).
ApprovedByTheOthers ==
  \A c \in Chores \ disturbed :
    LET chore == db[ChoreDoc(c)] IN
    (Exists(db, ChoreDoc(c)) /\ chore.status = "Completed" /\ chore.completedBy # "system") =>
      /\ chore.completedBy = chore.assignedTo
      /\ Votes(db, c, chore.reviewRound, TRUE) = Reviewers(db, c)

StoredKeys(c) == {db[ChoreDoc(c)].reviewPhotoKeys[r] : r \in Rounds} \ {"none"}

\* A chore's photo is there to be seen, and nobody else's request deletes it: only
\* a request whose own commit went unanswered does (UpdateChoreStatus).
PhotoLostOnlyUnanswered ==
  \A c \in Chores : Exists(db, ChoreDoc(c)) =>
    \A p \in StoredKeys(c) : p \in objects \/ upload[p].state = "lost"
=============================================================================
