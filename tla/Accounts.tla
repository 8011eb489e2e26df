------------------------------ MODULE Accounts ------------------------------
(***************************************************************************)
(* Accounts and the ways to sign in to them: application/auth/{commands,   *)
(* policies}, and the parts of application/user that create, change and    *)
(* remove accounts. What removal does to houses is in Household.           *)
(*                                                                         *)
(* Each handler is one action; t, with what it has read, is a snapshot     *)
(* (see Transactions). A handler without a transaction reads several times *)
(* and writes to whatever the documents have become meanwhile. Errors      *)
(* change nothing and have no action, except where a token of Apple's has  *)
(* been issued by then.                                                    *)
(*                                                                         *)
(* Left out: the emails with codes (a code that is presented is right),    *)
(* sessions (a JWT is never stored), logins that only set a date, and the  *)
(* record of a confirmed data deletion.                                    *)
(***************************************************************************)
EXTENDS Naturals, Sequences, FiniteSets

CONSTANTS
  Users,              \* ids of users, each given to one account at most
  Emails,
  ProviderAccounts,   \* accounts at providers
  Provider,           \* provider of each of them
  SharedEmail,        \* the email its provider shares, or ""
  Apple, Facebook,    \* the provider with authorizations to keep, and the one
                      \* that asks for deletions
  MaxFailed,          \* maxFailedLoginAttempts
  MaxAge,             \* bound: commits that may overtake one handler
  MaxLinks,           \* bound: links ever made
  MaxChanges,         \* bound: withdrawals of consent, and changes of
                      \* passwords and profiles
  Absent, Deleted     \* contents of documents that do not exist (any more)

ASSUME AccountsAssumption ==
  /\ SharedEmail \in [ProviderAccounts -> Emails \cup {""}]
  /\ Provider \in [ProviderAccounts -> Nat \ {0}]
  /\ MaxFailed \in Nat \ {0} /\ {MaxAge, MaxLinks, MaxChanges} \subseteq Nat
  /\ "" \notin Emails
  /\ \A p \in ProviderAccounts : Provider[p] = Apple => SharedEmail[p] # ""

UserDoc(u) == <<"User", u>>
IdentityDoc(p) == <<"UserIdentity", p>>
HistoryDoc(u, i) == <<"UserInfoHistory", u, i>>

Documents ==
  {UserDoc(u) : u \in Users} \cup {IdentityDoc(p) : p \in ProviderAccounts}
    \cup {HistoryDoc(u, i) : u \in Users, i \in 1 .. 2}

UserValues ==
  [email : Emails, hasPassword : BOOLEAN, isActive : BOOLEAN,
   failedLoginAttempts : 0 .. MaxFailed, isVerifyEmail : BOOLEAN]
IdentityValues == [id : 1 .. MaxLinks, userId : Users]

ASSUME NoContentAssumption ==
  /\ {Absent, Deleted} \cap (UserValues \cup IdentityValues \cup {TRUE}) = {}
  /\ Absent # Deleted

VARIABLES
  db, past,           \* see Transactions
  links,              \* number of links, and of authorizations kept, so far
  revoking,           \* links whose authorization is about to be revoked
  revoked,            \* links whose authorization we have revoked at Apple
  withdrawn,          \* links whose authorization the person has withdrawn
  notices,            \* accounts Apple has told us a withdrawal of, and may again
  changes,            \* number of those changes so far
  failures,           \* history: wrong passwords since the last right one
  dropped             \* history: links dropped because consent was withdrawn

apple == <<links, revoking, revoked, withdrawn, notices>>
vars == <<db, past, apple, changes, failures, dropped>>

INSTANCE Transactions

Exists(s, doc) == s[doc] \notin {Absent, Deleted}
User(s, u) == s[UserDoc(u)]
Identity(s, p) == s[IdentityDoc(p)]
IsActive(s, u) == Exists(s, UserDoc(u)) /\ User(s, u).isActive

EmailTaken(s, e) == \E u \in Users : Exists(s, UserDoc(u)) /\ User(s, u).email = e
LinkedTo(s, u) ==
  {p \in ProviderAccounts : Exists(s, IdentityDoc(p)) /\ Identity(s, p).userId = u}
Linked(s, p) == Exists(s, IdentityDoc(p))
Connected(s, u, provider) == \E p \in LinkedTo(s, u) : Provider[p] = provider

\* What the two unique indexes of UserIdentity let in.
Linkable(s, u, p) == ~Linked(s, p) /\ ~Connected(s, u, Provider[p])

\* Before the link is written Apple has issued an authorization for it.
Keeps(p) == Provider[p] = Apple
AppleLinks(s, ps) == {Identity(s, p).id : p \in {q \in ps : Keeps(q)}}

\* Deleting a link by its id finds nothing when the link has been replaced.
DeleteLink(s, p) ==
  IF Linked(db, p) /\ Identity(db, p).id = Identity(s, p).id
    THEN Apply(Write(IdentityDoc(p), Absent))
    ELSE UNCHANGED <<db, past>>

\* The number of the next link and of what is kept for it.
Number == links < MaxLinks /\ links' = links + 1

Change == changes < MaxChanges /\ changes' = changes + 1

(***************************************************************************)
(* New accounts                                                            *)
(***************************************************************************)
NewUser(e, password, verified) ==
  [email |-> e, hasPassword |-> password, isActive |-> TRUE,
   failedLoginAttempts |-> 0, isVerifyEmail |-> verified]

\* The user with the first entries of its profile history.
NewAccount(u, e, password, verified) ==
  Write(UserDoc(u), NewUser(e, password, verified)) ++ Write(HistoryDoc(u, 1), TRUE)

CreateUser(u, e) ==
  /\ db[UserDoc(u)] = Absent
  /\ ~EmailTaken(db, e)
  /\ Apply(NewAccount(u, e, TRUE, FALSE))
  /\ UNCHANGED <<apple, changes, failures, dropped>>

SignUp(t, u, e) ==
  /\ ~EmailTaken(t.data, e)
  /\ CreateUser(u, e)

\* A link to a user that is gone is dropped, and the sign-up goes on. The link
\* is read before the user.
SignIn(t, t2, p) ==
  /\ t2.age <= t.age
  /\ Linked(t.data, p)
  /\ ~Exists(t2.data, UserDoc(Identity(t.data, p).userId))
  /\ DeleteLink(t.data, p)
  /\ UNCHANGED <<apple, changes, failures, dropped>>

\* The user and its link, unless another request has taken the email or the
\* provider account; an authorization kept for this one is forgotten then.
Create(u, p, e, verified) ==
  /\ db[UserDoc(u)] = Absent
  /\ Number
  /\ IF EmailTaken(db, e) \/ Linked(db, p)
       THEN Keeps(p) /\ UNCHANGED <<db, past>>
       ELSE Apply(NewAccount(u, e, FALSE, verified)
                  ++ Write(IdentityDoc(p), [id |-> links + 1, userId |-> u]))
  /\ UNCHANGED <<revoking, revoked, withdrawn, notices>>

\* The provider account is not linked, then the email is not taken.
SocialAuth(t, t2, u, p) ==
  /\ SharedEmail[p] # ""
  /\ t2.age <= t.age
  /\ ~Linked(t.data, p)
  /\ ~EmailTaken(t2.data, SharedEmail[p])
  /\ Create(u, p, SharedEmail[p], TRUE)
  /\ UNCHANGED <<changes, failures, dropped>>

\* The person has proved an email the provider did not share.
CompleteSocialSignUp(t, t2, u, p, e) ==
  /\ SharedEmail[p] = ""
  /\ t2.age <= t.age
  /\ ~Linked(t.data, p)
  /\ ~EmailTaken(t2.data, e)
  /\ Create(u, p, e, TRUE)
  /\ UNCHANGED <<changes, failures, dropped>>

(***************************************************************************)
(* Links                                                                   *)
(***************************************************************************)

\* No transaction: the user may be gone, and the provider account or the user
\* linked otherwise, by the time the link is inserted.
LinkSocialProvider(t, t2, u, p) ==
  /\ t2.age <= t.age
  /\ IsActive(t.data, u)
  /\ Linkable(t2.data, u, p)
  /\ Number
  /\ IF Linkable(db, u, p)
       THEN Apply(Write(IdentityDoc(p), [id |-> links + 1, userId |-> u]))
       ELSE Keeps(p) /\ UNCHANGED <<db, past>>
  /\ UNCHANGED <<revoking, revoked, withdrawn, notices, changes, failures, dropped>>

\* Mutant of UnlinkSocialProvider: the user is not written.
UnlinkWithoutUser(t, u, p) ==
  /\ p \in LinkedTo(t.data, u)
  /\ Exists(t.data, UserDoc(u))
  /\ User(t.data, u).hasPassword \/ Cardinality(LinkedTo(t.data, u)) > 1
  /\ Commit(t, Write(IdentityDoc(p), Absent))
  /\ revoking' = revoking \cup AppleLinks(t.data, {p})
  /\ UNCHANGED <<links, revoked, withdrawn, notices, changes, failures, dropped>>

\* Mutant of UnlinkSocialProvider: the authorization is revoked even if the
\* transaction does not commit.
UnlinkOrNot(t, u, p) ==
  /\ p \in LinkedTo(t.data, u)
  /\ Exists(t.data, UserDoc(u))
  /\ User(t.data, u).hasPassword \/ Cardinality(LinkedTo(t.data, u)) > 1
  /\ \/ Commit(t, Write(IdentityDoc(p), Absent) ++ Write(UserDoc(u), User(t.data, u)))
     \/ UNCHANGED <<db, past>>
  /\ revoking' = revoking \cup AppleLinks(t.data, {p})
  /\ UNCHANGED <<links, revoked, withdrawn, notices, changes, failures, dropped>>

\* The user is written too, so that two of these conflict.
UnlinkSocialProvider(t, u, p) ==
  /\ p \in LinkedTo(t.data, u)
  /\ Exists(t.data, UserDoc(u))
  /\ User(t.data, u).hasPassword \/ Cardinality(LinkedTo(t.data, u)) > 1
  /\ Commit(t, Write(IdentityDoc(p), Absent) ++ Write(UserDoc(u), User(t.data, u)))
  /\ revoking' = revoking \cup AppleLinks(t.data, {p})
  /\ UNCHANGED <<links, revoked, withdrawn, notices, changes, failures, dropped>>

\* The person stops using Apple to sign in; Apple will tell us.
WithdrawConsent(p) ==
  /\ Provider[p] = Apple
  /\ Linked(db, p)
  /\ Identity(db, p).id \notin withdrawn
  /\ Change
  /\ withdrawn' = withdrawn \cup {Identity(db, p).id}
  /\ notices' = notices \cup {p}
  /\ UNCHANGED <<db, past, links, revoking, revoked, failures, dropped>>

\* Apple's notice arrives, for the first time or again.
ConsentRevoked(t, p) ==
  /\ p \in notices
  /\ Linked(t.data, p)
  /\ DeleteLink(t.data, p)
  /\ dropped' = IF Linked(db, p) /\ Identity(db, p).id = Identity(t.data, p).id
                  THEN dropped \cup {Identity(db, p)} ELSE dropped
  /\ UNCHANGED <<apple, changes, failures>>

\* A revocation reaches Apple, or is lost.
Revoke(id) ==
  /\ id \in revoking
  /\ revoking' = revoking \ {id}
  /\ revoked' \in {revoked, revoked \cup {id}}
  /\ UNCHANGED <<db, past, links, withdrawn, notices, changes, failures, dropped>>

(***************************************************************************)
(* Removal                                                                 *)
(***************************************************************************)

\* The authorizations to revoke are those of the links read before the
\* transaction; it deletes the links it finds.
Remove(before, t, u) ==
  /\ t.age <= before.age
  /\ Exists(t.data, UserDoc(u))
  /\ Commit(t, Write(UserDoc(u), Deleted)
                 ++ [d \in {IdentityDoc(p) : p \in LinkedTo(t.data, u)} |-> Absent]
                 ++ [d \in {HistoryDoc(u, i) : i \in 1 .. 2} |-> Absent])
  /\ revoking' = revoking \cup AppleLinks(before.data, LinkedTo(before.data, u))
  /\ UNCHANGED <<links, revoked, withdrawn, notices>>

DeleteUser(before, t, u) ==
  /\ Remove(before, t, u)
  /\ UNCHANGED <<changes, failures, dropped>>

\* The person behind p is gone at the provider. A user that is gone here leaves
\* only a link.
DeletedAtProvider(first, before, t, p) ==
  /\ before.age <= first.age /\ t.age <= before.age
  /\ Linked(first.data, p)
  /\ LET u == Identity(first.data, p).userId IN
     \/ Remove(before, t, u)
     \/ /\ ~Exists(t.data, UserDoc(u))
        /\ DeleteLink(first.data, p)
        /\ UNCHANGED apple
  /\ UNCHANGED <<changes, failures, dropped>>

\* Apple's notice that an account was deleted.
AccountDeleted(first, before, t, p) ==
  /\ Provider[p] = Apple
  /\ DeletedAtProvider(first, before, t, p)

\* Facebook's request to delete somebody's data, whatever else they sign in with.
DataDeletion(first, before, t, p) ==
  /\ Provider[p] = Facebook
  /\ DeletedAtProvider(first, before, t, p)

(***************************************************************************)
(* Passwords and profiles                                                  *)
(***************************************************************************)
Login(t, u) ==
  /\ IsActive(t.data, u) /\ User(t.data, u).hasPassword
  /\ IsActive(db, u)
  /\ Apply(Write(UserDoc(u), [User(db, u) EXCEPT !.failedLoginAttempts = 0]))
  /\ failures' = [failures EXCEPT ![u] = 0]
  /\ Change /\ UNCHANGED <<apple, dropped>>

\* Mutant of WrongPassword: the count that was read is written back.
WrongPasswordFromRead(t, u) ==
  LET attempts == User(t.data, u).failedLoginAttempts + 1 IN
  /\ IsActive(t.data, u) /\ User(t.data, u).hasPassword
  /\ IsActive(db, u)
  /\ Apply(Write(UserDoc(u), [User(db, u) EXCEPT !.failedLoginAttempts = attempts,
                                                 !.isActive = attempts < MaxFailed]))
  /\ failures' = [failures EXCEPT ![u] = IF @ = MaxFailed THEN @ ELSE @ + 1]
  /\ Change /\ UNCHANGED <<apple, dropped>>

\* The attempt that reaches the limit locks the account.
WrongPassword(t, u) ==
  LET attempts == User(db, u).failedLoginAttempts + 1 IN
  /\ IsActive(t.data, u) /\ User(t.data, u).hasPassword
  /\ IsActive(db, u)
  /\ Apply(Write(UserDoc(u), [User(db, u) EXCEPT !.failedLoginAttempts = attempts,
                                                 !.isActive = attempts < MaxFailed]))
  /\ failures' = [failures EXCEPT ![u] = IF @ = MaxFailed THEN @ ELSE @ + 1]
  /\ Change /\ UNCHANGED <<apple, dropped>>

\* The first password of an account made at a provider is set this way too.
ResetPassword(t, u) ==
  /\ Exists(t.data, UserDoc(u))
  /\ Exists(db, UserDoc(u))
  /\ Apply(Write(UserDoc(u), [User(db, u) EXCEPT !.hasPassword = TRUE, !.isActive = TRUE,
                                                 !.failedLoginAttempts = 0]))
  /\ failures' = [failures EXCEPT ![u] = 0]
  /\ Change /\ UNCHANGED <<apple, dropped>>

ValidateEmail(t, u) ==
  /\ Exists(t.data, UserDoc(u)) /\ ~User(t.data, u).isVerifyEmail
  /\ Exists(db, UserDoc(u))
  /\ Apply(Write(UserDoc(u), [User(db, u) EXCEPT !.isVerifyEmail = TRUE]))
  /\ Change /\ UNCHANGED <<apple, failures, dropped>>

Recent(s, u) == {i \in 1 .. 2 : s[HistoryDoc(u, i)] = TRUE}

\* Mutant of UpdateProfile: the user is written before the transaction.
UpdateProfileApart(t, u) ==
  /\ Change
  /\ Exists(t.data, UserDoc(u)) /\ Exists(db, UserDoc(u))
  /\ Recent(t.data, u) = {}
  /\ \E i \in 1 .. 2 \ Recent(db, u) : Apply(Write(HistoryDoc(u, i), TRUE))
  /\ UNCHANGED <<apple, failures, dropped>>

\* A change of a restricted field, refused when its history has a recent one.
\* The entry is a document of its own and conflicts with nothing.
UpdateProfile(t, u) ==
  /\ Change
  /\ Exists(t.data, UserDoc(u))
  /\ Recent(t.data, u) = {}
  /\ Untouched(t, {UserDoc(u)})
  /\ \E i \in 1 .. 2 \ Recent(db, u) :
       Apply(Write(UserDoc(u), User(t.data, u)) ++ Write(HistoryDoc(u, i), TRUE))
  /\ UNCHANGED <<apple, failures, dropped>>

\* profileFieldUpdateInterval has passed since the last change. Not counted: a
\* change comes first.
IntervalPasses(u) ==
  /\ Recent(db, u) # {}
  /\ Apply([d \in {HistoryDoc(u, i) : i \in Recent(db, u)} |-> Absent])
  /\ UNCHANGED <<apple, changes, failures, dropped>>

Init ==
  /\ TransactionsInit([d \in Documents |-> Absent])
  /\ links = 0 /\ changes = 0
  /\ revoking = {} /\ revoked = {} /\ withdrawn = {} /\ notices = {}
  /\ failures = [u \in Users |-> 0]
  /\ dropped = {}

Next ==
  \/ \E u \in Users, e \in Emails : CreateUser(u, e)
  \/ \E p \in ProviderAccounts : WithdrawConsent(p)
  \/ \E id \in revoking : Revoke(id)
  \/ \E u \in Users : IntervalPasses(u)
  \/ \E t \in Snapshots, u \in Users :
       \/ Login(t, u)
       \/ WrongPassword(t, u)
       \/ ResetPassword(t, u)
       \/ ValidateEmail(t, u)
       \/ UpdateProfile(t, u)
       \/ \E e \in Emails : SignUp(t, u, e)
       \/ \E before \in Snapshots : DeleteUser(before, t, u)
  \/ \E t \in Snapshots, p \in ProviderAccounts :
       \/ ConsentRevoked(t, p)
       \/ \E u \in Users : UnlinkSocialProvider(t, u, p)
       \/ \E t2 \in Snapshots :
            \/ SignIn(t, t2, p)
            \/ \E u \in Users : SocialAuth(t, t2, u, p)
            \/ \E u \in Users : LinkSocialProvider(t, t2, u, p)
            \/ \E u \in Users, e \in Emails : CompleteSocialSignUp(t, t2, u, p, e)
            \/ \E first \in Snapshots : AccountDeleted(first, t2, t, p)
            \/ \E first \in Snapshots : DataDeletion(first, t2, t, p)

Spec == Init /\ [][Next]_vars

TypeOK ==
  /\ DOMAIN db = Documents
  /\ \A u \in Users : db[UserDoc(u)] \in UserValues \cup {Absent, Deleted}
  /\ \A p \in ProviderAccounts : db[IdentityDoc(p)] \in IdentityValues \cup {Absent}
  /\ links \in 0 .. MaxLinks /\ changes \in 0 .. MaxChanges
  /\ revoking \cup revoked \cup withdrawn \subseteq 1 .. links
  /\ notices \subseteq ProviderAccounts
  /\ failures \in [Users -> 0 .. MaxFailed]
  /\ dropped \subseteq IdentityValues

\* An account without a password keeps a link, whatever two unlinks, a removal
\* or a profile change interleave with, unless its provider had it dropped.
NobodyLockedOut ==
  /\ TypeOK
  /\ \A u \in Users :
    /\ Exists(db, UserDoc(u))
    /\ ~User(db, u).hasPassword
    /\ LinkedTo(db, u) = {}
    => \E link \in dropped : link.userId = u

\* Wrong passwords that come all at once are all counted: once there have been
\* enough of them the account is locked, whatever a success, a reset or a removal
\* interleave with.
WrongPasswordsLock == \A u \in Users : failures[u] = MaxFailed => ~IsActive(db, u)

\* Of several changes of a restricted field that come all at once only one is
\* accepted in an interval, though each request looks for a recent entry in its
\* snapshot and the entries are documents that conflict with nothing.
OneChangePerInterval == \A u \in Users : Cardinality(Recent(db, u)) <= 1

\* What is limited is counted also when requests come all at once, each checked
\* against what was read before.
LimitsHold == WrongPasswordsLock /\ OneChangePerInterval

\* An authorization we revoke is one of a link that is gone: a link that could
\* not be removed still works.
RevokedIsGone ==
  \A p \in ProviderAccounts : Linked(db, p) => Identity(db, p).id \notin revoking \cup revoked
=============================================================================
