--------------------------- MODULE HouseholdProofs ---------------------------
(***************************************************************************)
(* Membership is symmetric, every house is owned by a member and has no    *)
(* more members than it allows, for any users, houses and chores, and      *)
(* however many commits overtake a handler.                                *)
(*                                                                         *)
(* Sound is about a content of the database. It holds in the database and  *)
(* in every snapshot a handler may have; a snapshot agrees with the        *)
(* database on the documents that were not written since (Reads). So it is *)
(* enough that each handler keeps Sound in what it writes (StepKeeps).     *)
(* The second half is about chores: their rounds of review, who approved   *)
(* them and what becomes of their photos.                                  *)
(***************************************************************************)
EXTENDS Household, FiniteSetTheorems, TLAPS

UsersSound(s) == \A u \in Users : s[UserDoc(u)] \in AccountValues \cup {Deleted}

ListedOnce(members) ==
  \A i, j \in 1 .. Len(members) : members[i] = members[j] => i = j

HouseSound(s, h) ==
  /\ s[HouseDoc(h)] \in HouseValues \cup {Absent, Deleted}
  /\ Exists(s, HouseDoc(h)) =>
       /\ ListedOnce(MemberIds(s, h))
       /\ Len(MemberIds(s, h)) <= s[HouseDoc(h)].maxMemberCount
       /\ s[HouseDoc(h)].ownerId \in Members(s, h)

Symmetric(s, h, u) ==
  IsMember(s, h, u) <=> Exists(s, UserDoc(u)) /\ h \in s[UserDoc(u)].houseIds

Sound(s) ==
  /\ UsersSound(s)
  /\ \A h \in Houses : HouseSound(s, h)
  /\ \A h \in Houses, u \in Users : Symmetric(s, h, u)

\* data is a sound state from which current differs only in the documents in wrote.
Reads(current, data, wrote) ==
  /\ Sound(data)
  /\ \A d \in Documents \ wrote : data[d] = current[d]

HouseholdInv ==
  /\ Documents \subseteq DOMAIN db
  /\ Sound(db)
  /\ past \in Seq({past[i] : i \in DOMAIN past})
  /\ \A i \in DOMAIN past : Reads(db, past[i].data, past[i].wrote)

-----------------------------------------------------------------------------
\* A house has room for its first member.
LEMMA LimitsArePositive == \A limit \in Limits : limit \in Nat /\ 1 <= limit
<1>1. Limits \subseteq Nat \ {0}
  BY HouseholdAssumption
<1> QED
  BY <1>1

\* Every snapshot a handler may have reads a sound state.
LEMMA SnapshotReads ==
  ASSUME HouseholdInv, NEW t \in Snapshots
  PROVE  Reads(db, t.data, t.wrote)
BY DEF HouseholdInv, Snapshots, Reads

\* What the documents are after a write.
LEMMA Written ==
  ASSUME NEW s, NEW writes, NEW d \in DOMAIN s
  PROVE  (writes ++ s)[d] = IF d \in DOMAIN writes THEN writes[d] ELSE s[d]
BY DEF ++

\* A commit keeps the invariant if what it writes is sound.
LEMMA StepKeeps ==
  ASSUME HouseholdInv, MaxAge \in Nat, NEW writes, Apply(writes), Sound(writes ++ db)
  PROVE  HouseholdInv'
<1> DEFINE W == DOMAIN writes
           n == IF Len(past) < MaxAge THEN Len(past) + 1 ELSE MaxAge
<1>1. Len(past) \in Nat /\ DOMAIN past = 1 .. Len(past)
  BY DEF HouseholdInv
<1>2. n \in Nat /\ n <= Len(past) + 1
  BY <1>1
<1>3. db' = writes ++ db
  BY DEF Apply
<1>4. past' = [i \in 1 .. n |-> IF i = 1 THEN [data |-> db, wrote |-> W]
                 ELSE [data |-> past[i - 1].data, wrote |-> past[i - 1].wrote \cup W]]
  BY DEF Apply
<1>5. \A d \in Documents : d \notin W => db'[d] = db[d]
  BY <1>3, Written DEF HouseholdInv
<1>6. Documents \subseteq DOMAIN db'
  BY <1>3 DEF HouseholdInv, ++
<1>7. past' \in Seq({past'[i] : i \in DOMAIN past'})
  <2>1. DOMAIN past' = 1 .. n /\ past' = [i \in 1 .. n |-> past'[i]]
    BY <1>4
  <2> QED
    BY <1>2, <2>1
<1>8. ASSUME NEW i \in DOMAIN past'
      PROVE  Reads(db', past'[i].data, past'[i].wrote)
  <2>1. i \in 1 .. n
    BY <1>4
  <2>2. CASE i = 1
    <3>1. past'[i] = [data |-> db, wrote |-> W]
      BY <1>4, <2>1, <2>2
    <3> QED
      BY <3>1, <1>5 DEF Reads, HouseholdInv, Sound, UsersSound, HouseSound, Symmetric, Documents
  <2>3. CASE i # 1
    <3>1. i - 1 \in DOMAIN past
      BY <1>1, <1>2, <2>1, <2>3
    <3>2. past'[i] = [data |-> past[i - 1].data, wrote |-> past[i - 1].wrote \cup W]
      BY <1>4, <2>1, <2>3
    <3>3. Reads(db, past[i - 1].data, past[i - 1].wrote)
      BY <3>1 DEF HouseholdInv
    <3> QED
      BY <3>2, <3>3, <1>5 DEF Reads, Documents
  <2> QED
    BY <2>2, <2>3
<1> QED
  BY <1>3, <1>6, <1>7, <1>8 DEF HouseholdInv

-----------------------------------------------------------------------------
\* Sound is about accounts and houses only.
LEMMA SoundUnchanged ==
  ASSUME NEW s, NEW r, Sound(s),
         \A u \in Users : r[UserDoc(u)] = s[UserDoc(u)],
         \A h \in Houses : r[HouseDoc(h)] = s[HouseDoc(h)]
  PROVE  Sound(r)
<1>1. UsersSound(r)
  BY DEF Sound, UsersSound
<1>2. ASSUME NEW h \in Houses
      PROVE  HouseSound(r, h)
  <2>1. HouseSound(s, h) /\ r[HouseDoc(h)] = s[HouseDoc(h)]
    BY DEF Sound
  <2> QED
    BY <2>1 DEF HouseSound, Exists, Members, MemberIds
<1>3. ASSUME NEW h \in Houses, NEW u \in Users
      PROVE  Symmetric(r, h, u)
  <2>1. Symmetric(s, h, u) /\ r[HouseDoc(h)] = s[HouseDoc(h)] /\ r[UserDoc(u)] = s[UserDoc(u)]
    BY DEF Sound
  <2> QED
    BY <2>1 DEF Symmetric, IsMember, Exists, Members, MemberIds
<1> QED
  BY <1>1, <1>2, <1>3 DEF Sound

\* A handler that writes neither accounts nor houses keeps everything sound.
LEMMA OtherDocuments ==
  ASSUME HouseholdInv, NEW writes,
         \A u \in Users : UserDoc(u) \notin DOMAIN writes,
         \A h \in Houses : HouseDoc(h) \notin DOMAIN writes
  PROVE  Sound(writes ++ db)
<1>1. \A u \in Users : (writes ++ db)[UserDoc(u)] = db[UserDoc(u)]
  BY Written DEF HouseholdInv, Documents
<1>2. \A h \in Houses : (writes ++ db)[HouseDoc(h)] = db[HouseDoc(h)]
  BY Written DEF HouseholdInv, Documents
<1>3. Sound(db)
  BY DEF HouseholdInv
<1> HIDE DEF ++
<1> QED
  BY <1>1, <1>2, <1>3, SoundUnchanged

\* Who is left when u is taken from a list of members.
LEMMA OthersProperties ==
  ASSUME NEW members \in Seq(Users), ListedOnce(members), NEW u
  PROVE  /\ Others(members, u) \in Seq(Users)
         /\ ListedOnce(Others(members, u))
         /\ Len(Others(members, u)) <= Len(members)
         /\ {Others(members, u)[i] : i \in 1 .. Len(Others(members, u))}
              = {members[i] : i \in 1 .. Len(members)} \ {u}
<1>1. CASE \A i \in 1 .. Len(members) : members[i] # u
  BY <1>1 DEF Others
<1>2. CASE \E i \in 1 .. Len(members) : members[i] = u
  <2> DEFINE k == CHOOSE i \in 1 .. Len(members) : members[i] = u
             rest == [i \in 1 .. Len(members) - 1 |->
                        IF i < k THEN members[i] ELSE members[i + 1]]
  <2>1. k \in 1 .. Len(members) /\ members[k] = u
    BY <1>2
  <2>2. Others(members, u) = rest
    BY <1>2 DEF Others
  <2> HIDE DEF k
  <2>3. Len(members) \in Nat /\ Len(members) - 1 \in Nat
    BY <2>1
  <2>4. \A i \in 1 .. Len(members) - 1 : rest[i] \in Users
    BY <2>1, <2>3
  <2>5. rest \in Seq(Users) /\ Len(rest) = Len(members) - 1
    BY <2>3, <2>4
  <2>6. ListedOnce(rest)
    BY <2>1, <2>3, <2>5 DEF ListedOnce
  <2>7. ASSUME NEW i \in 1 .. Len(rest)
        PROVE  rest[i] \in {members[j] : j \in 1 .. Len(members)} \ {u}
    BY <2>1, <2>3, <2>5 DEF ListedOnce
  <2>8. ASSUME NEW j \in 1 .. Len(members), members[j] # u
        PROVE  members[j] \in {rest[i] : i \in 1 .. Len(rest)}
    <3>1. CASE j < k
      <4>1. j \in 1 .. Len(rest) /\ rest[j] = members[j]
        BY <2>1, <2>3, <2>5, <3>1
      <4> QED
        BY <4>1
    <3>2. CASE ~(j < k)
      <4>1. j - 1 \in 1 .. Len(rest) /\ rest[j - 1] = members[j]
        BY <2>1, <2>3, <2>5, <2>8, <3>2
      <4> QED
        BY <4>1
    <3> QED
      BY <3>1, <3>2
  <2> HIDE DEF rest
  <2>9. {rest[i] : i \in 1 .. Len(rest)} = {members[i] : i \in 1 .. Len(members)} \ {u}
    <3>1. \A x : x \in {rest[i] : i \in 1 .. Len(rest)} <=> \E i \in 1 .. Len(rest) : x = rest[i]
      OBVIOUS
    <3>2. \A x : x \in {members[i] : i \in 1 .. Len(members)}
                <=> \E i \in 1 .. Len(members) : x = members[i]
      OBVIOUS
    <3> QED
      BY <3>1, <3>2, <2>7, <2>8
  <2>10. Len(rest) <= Len(members)
    BY <2>3, <2>5
  <2> QED
    BY <2>2, <2>5, <2>6, <2>9, <2>10
<1> QED
  BY <1>1, <1>2

\* A house that u has left has the same members without u, and an owner among them.
LEMMA LeftByProperties ==
  ASSUME NEW s, NEW h \in Houses, NEW u \in Users, HouseSound(s, h), Exists(s, HouseDoc(h)),
         Others(MemberIds(s, h), u) # << >>,
         NEW r, r[HouseDoc(h)] = LeftBy(s, h, u)
  PROVE  /\ HouseSound(r, h)
         /\ Exists(r, HouseDoc(h))
         /\ Members(r, h) = Members(s, h) \ {u}
<1> DEFINE house == s[HouseDoc(h)]
           others == Others(house.memberIds, u)
           left == [house EXCEPT !.memberIds = others,
                                 !.ownerId = IF @ = u THEN Head(others) ELSE @]
<1>1. house \in HouseValues
  BY DEF HouseSound, Exists
<1>2. house.memberIds \in Seq(Users) /\ ListedOnce(house.memberIds)
  BY <1>1 DEF HouseSound, MemberIds, HouseValues
<1>3. /\ others \in Seq(Users)
      /\ ListedOnce(others)
      /\ Len(others) <= Len(house.memberIds)
      /\ {others[i] : i \in 1 .. Len(others)} = Members(s, h) \ {u}
  BY <1>2, OthersProperties DEF Members, MemberIds
<1>4. others # << >>
  BY DEF MemberIds
<1>5. LeftBy(s, h, u) = left
  BY <1>4 DEF LeftBy, FirstOf
<1> HIDE DEF others
<1>6. Head(others) \in {others[i] : i \in 1 .. Len(others)}
  BY <1>3, <1>4
<1>7. /\ house.ownerId \in Members(s, h) /\ house.ownerId \in Users
      /\ Len(house.memberIds) <= house.maxMemberCount
  BY <1>1 DEF HouseSound, HouseValues, MemberIds
<1>8. Head(others) \in Users
  BY <1>3, <1>4
<1> HIDE DEF house
<1>9. /\ left \in HouseValues
      /\ left.memberIds = others
      /\ left.maxMemberCount = house.maxMemberCount
      /\ left.ownerId \in Members(s, h) \ {u}
  BY <1>1, <1>3, <1>6, <1>7, <1>8 DEF HouseValues
<1> HIDE DEF left
<1>13. Len(others) <= left.maxMemberCount
  <2>1. house.maxMemberCount \in Nat /\ Len(house.memberIds) \in Nat /\ Len(others) \in Nat
    BY <1>1, <1>2, <1>3, LimitsArePositive DEF HouseValues
  <2> QED
    BY <2>1, <1>3, <1>7, <1>9
<1>10. r[HouseDoc(h)] = left
  BY <1>5
<1>11. Exists(r, HouseDoc(h))
  BY <1>9, <1>10, NoContentAssumption DEF Exists
<1>12. MemberIds(r, h) = others /\ Members(r, h) = Members(s, h) \ {u}
  BY <1>3, <1>9, <1>10 DEF MemberIds, Members
<1> QED
  BY <1>3, <1>9, <1>10, <1>11, <1>12, <1>13 DEF HouseSound

\* One house and one account change, together.
LEMMA Together ==
  ASSUME NEW s, Sound(s), NEW r, NEW h \in Houses, NEW u \in Users,
         \A v \in Users \ {u} : r[UserDoc(v)] = s[UserDoc(v)],
         \A g \in Houses \ {h} : r[HouseDoc(g)] = s[HouseDoc(g)],
         Exists(s, UserDoc(u)),
         r[UserDoc(u)] \in AccountValues,
         \A g \in Houses \ {h} : g \in r[UserDoc(u)].houseIds <=> g \in s[UserDoc(u)].houseIds,
         HouseSound(r, h),
         Exists(r, HouseDoc(h)),
         \A v \in Users \ {u} : v \in Members(r, h) <=> IsMember(s, h, v),
         u \in Members(r, h) <=> h \in r[UserDoc(u)].houseIds
  PROVE  Sound(r)
<1>1. UsersSound(r)
  BY DEF Sound, UsersSound
<1>2. Exists(r, UserDoc(u))
  BY NoContentAssumption DEF Exists
<1>3. ASSUME NEW g \in Houses, g # h
      PROVE  /\ HouseSound(r, g)
             /\ \A v \in Users : IsMember(r, g, v) <=> IsMember(s, g, v)
  <2>1. HouseSound(s, g) /\ r[HouseDoc(g)] = s[HouseDoc(g)]
    BY <1>3 DEF Sound
  <2> QED
    BY <2>1 DEF HouseSound, IsMember, Exists, Members, MemberIds
<1>4. ASSUME NEW g \in Houses, NEW v \in Users
      PROVE  Symmetric(r, g, v)
  <2>1. Symmetric(s, g, v)
    BY DEF Sound
  <2>2. CASE g = h /\ v = u
    BY <2>2, <1>2 DEF Symmetric, IsMember
  <2>3. CASE g = h /\ v # u
    BY <2>1, <2>3 DEF Symmetric, IsMember, Exists
  <2>4. CASE g # h /\ v = u
    BY <2>1, <2>4, <1>2, <1>3 DEF Symmetric
  <2>5. CASE g # h /\ v # u
    BY <2>1, <2>5, <1>3 DEF Symmetric, Exists
  <2> QED
    BY <2>2, <2>3, <2>4, <2>5
<1> QED
  BY <1>1, <1>3, <1>4 DEF Sound

-----------------------------------------------------------------------------
\* What a transaction has read of the documents it writes is still so.
LEMMA CurrentReads ==
  ASSUME HouseholdInv, NEW t \in Snapshots, NEW writes, Commit(t, writes)
  PROVE  /\ Sound(t.data) /\ Sound(db)
         /\ \A d \in Documents \cap DOMAIN writes : t.data[d] = db[d]
BY SnapshotReads DEF Commit, Untouched, Reads, HouseholdInv

\* The documents of accounts and houses.
LEMMA DistinctDocuments ==
  /\ \A u \in Users : UserDoc(u) \in Documents
  /\ \A h \in Houses : HouseDoc(h) \in Documents
  /\ \A u, v \in Users : UserDoc(u) = UserDoc(v) => u = v
  /\ \A h, g \in Houses : HouseDoc(h) = HouseDoc(g) => h = g
  /\ \A u \in Users, h \in Houses : UserDoc(u) # HouseDoc(h)
BY DEF UserDoc, HouseDoc, Documents

\* What is written of a house, of an account, and by the way.
LEMMA TwoWrites ==
  ASSUME HouseholdInv, NEW h \in Houses, NEW u \in Users, NEW house, NEW account, NEW rest,
         \A g \in Houses : HouseDoc(g) \notin DOMAIN rest,
         \A v \in Users : UserDoc(v) \notin DOMAIN rest,
         NEW writes, writes = (Write(HouseDoc(h), house) ++ Write(UserDoc(u), account)) ++ rest
  PROVE  /\ HouseDoc(h) \in DOMAIN writes /\ UserDoc(u) \in DOMAIN writes
         /\ (writes ++ db)[HouseDoc(h)] = house
         /\ (writes ++ db)[UserDoc(u)] = account
         /\ \A g \in Houses \ {h} : (writes ++ db)[HouseDoc(g)] = db[HouseDoc(g)]
         /\ \A v \in Users \ {u} : (writes ++ db)[UserDoc(v)] = db[UserDoc(v)]
<1>1. DOMAIN writes = {HouseDoc(h), UserDoc(u)} \cup DOMAIN rest
  BY DEF ++, Write
<1>2. writes[HouseDoc(h)] = house /\ writes[UserDoc(u)] = account
  BY DistinctDocuments DEF ++, Write
<1> QED
  BY <1>1, <1>2, DistinctDocuments DEF ++, HouseholdInv

\* A new house has one member, who owns it.
LEMMA CreateHouseKeeps ==
  ASSUME HouseholdInv, MaxAge \in Nat, NEW t \in Snapshots, NEW u \in Users, NEW h \in Houses,
         NEW limit \in Limits, CreateHouse(t, u, h, limit)
  PROVE  HouseholdInv'
<1> DEFINE house == [ownerId |-> u, memberIds |-> <<u>>, maxMemberCount |-> limit,
                     photoRequired |-> FALSE]
           account == WithHouse(t.data, u, h)
           writes == Write(HouseDoc(h), house) ++ Write(UserDoc(u), account)
           r == writes ++ db
<1>1. Commit(t, writes) /\ db[HouseDoc(h)] = Absent /\ Exists(t.data, UserDoc(u))
  BY DEF CreateHouse
<1>2. /\ HouseDoc(h) \in DOMAIN writes /\ UserDoc(u) \in DOMAIN writes
      /\ r[HouseDoc(h)] = house
      /\ r[UserDoc(u)] = account
      /\ \A g \in Houses \ {h} : r[HouseDoc(g)] = db[HouseDoc(g)]
      /\ \A v \in Users \ {u} : r[UserDoc(v)] = db[UserDoc(v)]
  BY DistinctDocuments DEF ++, Write, HouseholdInv
<1> HIDE DEF writes
<1>3. Sound(db) /\ t.data[UserDoc(u)] = db[UserDoc(u)]
  BY <1>1, <1>2, CurrentReads, DistinctDocuments
<1>4. Exists(db, UserDoc(u)) /\ db[UserDoc(u)] \in AccountValues
  BY <1>1, <1>3 DEF Exists, Sound, UsersSound
<1>5. account \in AccountValues /\ account.houseIds = db[UserDoc(u)].houseIds \cup {h}
  BY <1>3, <1>4 DEF WithHouse, AccountValues
<1>6. house \in HouseValues
  BY DEF HouseValues
<1>7. Exists(r, HouseDoc(h))
  BY <1>2, <1>6, NoContentAssumption DEF Exists
<1>8. MemberIds(r, h) = <<u>> /\ Members(r, h) = {u} /\ r[HouseDoc(h)].ownerId = u
  BY <1>2 DEF MemberIds, Members
<1>9. HouseSound(r, h)
  <2>1. Len(<<u>>) <= limit
    BY LimitsArePositive
  <2>2. ListedOnce(<<u>>)
    BY DEF ListedOnce
  <2> QED
    BY <1>2, <1>6, <1>8, <2>1, <2>2 DEF HouseSound
<1>10. \A v \in Users : ~IsMember(db, h, v)
  BY <1>1 DEF IsMember, Exists
<1> HIDE DEF r, house, account
<1>11. Sound(r)
  BY <1>2, <1>3, <1>4, <1>5, <1>7, <1>8, <1>9, <1>10, Together
<1> QED
  BY <1>1, <1>11, StepKeeps DEF r, Commit

\* A member more, at the end of the list.
LEMMA JoinHouseKeeps ==
  ASSUME HouseholdInv, MaxAge \in Nat, NEW t \in Snapshots, NEW u \in Users, NEW h \in Houses,
         JoinHouse(t, u, h)
  PROVE  HouseholdInv'
<1> DEFINE old == t.data[HouseDoc(h)]
           house == [old EXCEPT !.memberIds = Append(@, u)]
           account == WithHouse(t.data, u, h)
           writes == Write(HouseDoc(h), house) ++ Write(UserDoc(u), account)
           r == writes ++ db
<1>1. /\ Commit(t, writes)
      /\ Exists(t.data, HouseDoc(h)) /\ Exists(t.data, UserDoc(u))
      /\ u \notin Members(t.data, h)
      /\ Len(old.memberIds) < old.maxMemberCount
  BY DEF JoinHouse
<1>2. /\ HouseDoc(h) \in DOMAIN writes /\ UserDoc(u) \in DOMAIN writes
      /\ r[HouseDoc(h)] = house
      /\ r[UserDoc(u)] = account
      /\ \A g \in Houses \ {h} : r[HouseDoc(g)] = db[HouseDoc(g)]
      /\ \A v \in Users \ {u} : r[UserDoc(v)] = db[UserDoc(v)]
  BY DistinctDocuments DEF ++, Write, HouseholdInv
<1> HIDE DEF writes
<1>3. Sound(db) /\ t.data[UserDoc(u)] = db[UserDoc(u)] /\ old = db[HouseDoc(h)]
  BY <1>1, <1>2, CurrentReads, DistinctDocuments
<1>4. Exists(db, UserDoc(u)) /\ db[UserDoc(u)] \in AccountValues
  BY <1>1, <1>3 DEF Exists, Sound, UsersSound
<1>5. account \in AccountValues /\ account.houseIds = db[UserDoc(u)].houseIds \cup {h}
  BY <1>3, <1>4 DEF WithHouse, AccountValues
<1>6. HouseSound(db, h) /\ Exists(db, HouseDoc(h))
  BY <1>1, <1>3 DEF Exists, Sound
<1>7. /\ old \in HouseValues /\ old.memberIds \in Seq(Users) /\ ListedOnce(old.memberIds)
      /\ Members(db, h) = {old.memberIds[i] : i \in 1 .. Len(old.memberIds)}
      /\ u \notin Members(db, h)
      /\ old.ownerId \in Members(db, h)
  BY <1>1, <1>3, <1>6 DEF HouseSound, Exists, MemberIds, Members, HouseValues
<1> HIDE DEF old
<1>8. house \in HouseValues /\ house.memberIds = Append(old.memberIds, u)
                            /\ house.ownerId = old.ownerId
                            /\ house.maxMemberCount = old.maxMemberCount
  <2>1. Append(old.memberIds, u) \in Seq(Users)
    BY <1>7
  <2> QED
    BY <1>7, <2>1, Zenon DEF HouseValues
<1>9. /\ ListedOnce(house.memberIds)
      /\ {house.memberIds[i] : i \in 1 .. Len(house.memberIds)} = Members(db, h) \cup {u}
  <2> DEFINE ids == old.memberIds
  <2>1. ids \in Seq(Users) /\ Len(ids) \in Nat /\ Len(Append(ids, u)) = Len(ids) + 1
    BY <1>7
  <2>2. \A i \in 1 .. Len(ids) : Append(ids, u)[i] = ids[i] /\ ids[i] # u
    BY <1>7, <2>1
  <2>3. Append(ids, u)[Len(ids) + 1] = u
    BY <1>7, <2>1
  <2>4. ListedOnce(ids) /\ Members(db, h) = {ids[i] : i \in 1 .. Len(ids)}
    BY <1>7
  <2> HIDE DEF ids
  <2>5. ListedOnce(Append(ids, u))
    BY <2>1, <2>2, <2>3, <2>4 DEF ListedOnce
  <2>6. {Append(ids, u)[i] : i \in 1 .. Len(Append(ids, u))} = {ids[i] : i \in 1 .. Len(ids)} \cup {u}
    BY <2>1, <2>2, <2>3
  <2> QED
    BY <1>8, <2>4, <2>5, <2>6 DEF ids
<1>15. Len(house.memberIds) <= house.maxMemberCount
  <2>1. old.maxMemberCount \in Nat /\ Len(old.memberIds) \in Nat
    BY <1>7, LimitsArePositive DEF HouseValues
  <2>2. Len(Append(old.memberIds, u)) = Len(old.memberIds) + 1
    BY <1>7
  <2> QED
    BY <1>1, <1>8, <2>1, <2>2
<1> HIDE DEF house
<1>10. Exists(r, HouseDoc(h))
  BY <1>2, <1>8, NoContentAssumption DEF Exists
<1>11. Members(r, h) = Members(db, h) \cup {u}
  BY <1>2, <1>9 DEF MemberIds, Members
<1>12. HouseSound(r, h)
  BY <1>2, <1>7, <1>8, <1>9, <1>11, <1>15 DEF HouseSound, MemberIds
<1>13. \A v \in Users : IsMember(db, h, v) <=> v \in Members(db, h)
  BY <1>6 DEF IsMember
<1> HIDE DEF r, account
<1>14. Sound(r)
  BY <1>2, <1>3, <1>4, <1>5, <1>10, <1>11, <1>12, <1>13, Together
<1> QED
  BY <1>1, <1>14, StepKeeps DEF r, Commit

\* Whoever leaves, an owner among the others remains: a requester who is not the
\* one who leaves owns the house.
LEMMA ExitHouseKeeps ==
  ASSUME HouseholdInv, MaxAge \in Nat, NEW t \in Snapshots, NEW requester \in Users,
         NEW u \in Users, NEW h \in Houses, ExitHouse(t, requester, u, h)
  PROVE  HouseholdInv'
<1> DEFINE s == t.data
           rest == IF IsOwner(s, h, requester) THEN InviteRevoked(s, h) ELSE << >>
           account == WithoutHouse(s, u, h)
           writes == (Write(HouseDoc(h), LeftBy(s, h, u)) ++ Write(UserDoc(u), account)) ++ rest
           r == writes ++ db
<1>1. /\ Commit(t, writes)
      /\ Exists(s, HouseDoc(h)) /\ Exists(s, UserDoc(u))
      /\ u \in Members(s, h)
      /\ requester = u \/ s[HouseDoc(h)].ownerId = requester
      /\ IsMember(s, h, requester)
      /\ IsOwner(s, h, u) => Others(MemberIds(s, h), u) # << >>
  BY DEF ExitHouse, IsMember
<1>2. /\ \A g \in Houses : HouseDoc(g) \notin DOMAIN rest
      /\ \A v \in Users : UserDoc(v) \notin DOMAIN rest
  BY DEF InviteRevoked, Write, InviteDoc, HouseDoc, UserDoc
<1> HIDE DEF rest
<1>3. /\ HouseDoc(h) \in DOMAIN writes /\ UserDoc(u) \in DOMAIN writes
      /\ r[HouseDoc(h)] = LeftBy(s, h, u)
      /\ r[UserDoc(u)] = account
      /\ \A g \in Houses \ {h} : r[HouseDoc(g)] = db[HouseDoc(g)]
      /\ \A v \in Users \ {u} : r[UserDoc(v)] = db[UserDoc(v)]
  BY <1>2, TwoWrites
<1> HIDE DEF writes
<1>4. Sound(db) /\ Sound(s) /\ s[UserDoc(u)] = db[UserDoc(u)] /\ s[HouseDoc(h)] = db[HouseDoc(h)]
  BY <1>1, <1>3, CurrentReads, DistinctDocuments
<1>5. Exists(db, UserDoc(u)) /\ db[UserDoc(u)] \in AccountValues
  BY <1>1, <1>4 DEF Exists, Sound, UsersSound
<1>6. account \in AccountValues /\ account.houseIds = db[UserDoc(u)].houseIds \ {h}
  BY <1>4, <1>5 DEF WithoutHouse, AccountValues
<1>7. HouseSound(s, h) /\ Members(s, h) = Members(db, h) /\ Exists(db, HouseDoc(h))
  BY <1>1, <1>4 DEF Sound, Members, MemberIds, Exists
<1>8. Others(MemberIds(s, h), u) # << >>
  <2>1. CASE s[HouseDoc(h)].ownerId = u
    BY <1>1, <2>1 DEF IsOwner, IsMember
  <2>2. CASE s[HouseDoc(h)].ownerId # u
    <3>1. s[HouseDoc(h)].ownerId \in Members(s, h) \ {u}
      BY <1>1, <1>7, <2>2 DEF HouseSound
    <3>2. MemberIds(s, h) \in Seq(Users) /\ ListedOnce(MemberIds(s, h))
      BY <1>1, <1>7 DEF HouseSound, HouseValues, MemberIds, Exists
    <3>3. {Others(MemberIds(s, h), u)[i] : i \in 1 .. Len(Others(MemberIds(s, h), u))}
            = Members(s, h) \ {u}
      BY <3>2, OthersProperties DEF Members
    <3> QED
      BY <3>1, <3>3
  <2> QED
    BY <2>1, <2>2
<1> HIDE DEF r
<1>9. HouseSound(r, h) /\ Exists(r, HouseDoc(h)) /\ Members(r, h) = Members(s, h) \ {u}
  BY <1>1, <1>3, <1>7, <1>8, LeftByProperties
<1>10. \A v \in Users : IsMember(db, h, v) <=> v \in Members(s, h)
  BY <1>7 DEF IsMember
<1> HIDE DEF account, s
<1>11. Sound(r)
  BY <1>3, <1>4, <1>5, <1>6, <1>9, <1>10, Together
<1> QED
  BY <1>1, <1>11, StepKeeps DEF r, Commit

\* A house is given another limit or photo requirement.
LEMMA UpdateProfileKeeps ==
  ASSUME HouseholdInv, MaxAge \in Nat, NEW t \in Snapshots, NEW u \in Users, NEW h \in Houses,
         NEW limit \in Limits, NEW required \in BOOLEAN, UpdateProfile(t, u, h, limit, required)
  PROVE  HouseholdInv'
<1> DEFINE old == t.data[HouseDoc(h)]
           house == [old EXCEPT !.maxMemberCount = limit, !.photoRequired = required]
           writes == Write(HouseDoc(h), house)
           r == writes ++ db
<1>1. /\ Commit(t, writes) /\ Exists(t.data, HouseDoc(h))
      /\ limit >= Len(old.memberIds)
  BY DEF UpdateProfile, IsOwner, IsMember
<1>2. /\ HouseDoc(h) \in DOMAIN writes
      /\ r[HouseDoc(h)] = house
      /\ \A g \in Houses \ {h} : r[HouseDoc(g)] = db[HouseDoc(g)]
      /\ \A v \in Users : r[UserDoc(v)] = db[UserDoc(v)]
  BY DistinctDocuments DEF ++, Write, HouseholdInv
<1> HIDE DEF writes
<1>3. Sound(db) /\ old = db[HouseDoc(h)]
  BY <1>1, <1>2, CurrentReads, DistinctDocuments
<1>4. HouseSound(db, h) /\ Exists(db, HouseDoc(h))
  BY <1>1, <1>3 DEF Exists, Sound
<1>5. old \in HouseValues
  BY <1>3, <1>4 DEF HouseSound, Exists
<1> HIDE DEF old
<1>6. /\ house \in HouseValues /\ house.memberIds = old.memberIds /\ house.ownerId = old.ownerId
      /\ house.maxMemberCount = limit
  BY <1>5 DEF HouseValues
<1>12. Len(house.memberIds) <= house.maxMemberCount
  <2>1. limit \in Nat /\ Len(old.memberIds) \in Nat
    BY <1>5, LimitsArePositive DEF HouseValues
  <2> QED
    BY <1>1, <1>6, <2>1
<1> HIDE DEF house
<1>7. Exists(r, HouseDoc(h))
  BY <1>2, <1>6, NoContentAssumption DEF Exists
<1>8. MemberIds(r, h) = MemberIds(db, h) /\ Members(r, h) = Members(db, h)
  BY <1>2, <1>3, <1>6 DEF MemberIds, Members
<1>9. HouseSound(r, h)
  <2>1. Len(MemberIds(r, h)) <= r[HouseDoc(h)].maxMemberCount
    BY <1>2, <1>12 DEF MemberIds
  <2> QED
    BY <1>2, <1>3, <1>4, <1>6, <1>8, <2>1 DEF HouseSound
<1> HIDE DEF r
<1>10. ASSUME NEW g \in Houses
       PROVE  /\ HouseSound(r, g)
              /\ \A v \in Users : IsMember(r, g, v) <=> IsMember(db, g, v)
  <2>1. CASE g = h
    BY <2>1, <1>4, <1>7, <1>8, <1>9 DEF IsMember
  <2>2. CASE g # h
    <3>1. HouseSound(db, g) /\ r[HouseDoc(g)] = db[HouseDoc(g)]
      BY <2>2, <1>2, <1>3 DEF Sound
    <3> QED
      BY <3>1 DEF HouseSound, IsMember, Exists, Members, MemberIds
  <2> QED
    BY <2>1, <2>2
<1>11. Sound(r)
  BY <1>2, <1>3, <1>10 DEF Sound, UsersSound, Symmetric, Exists
<1> QED
  BY <1>1, <1>11, StepKeeps DEF r, Commit

\* What goes away with some houses are the houses, and no accounts.
LEMMA ScopedToHouses ==
  ASSUME NEW s, NEW hs \in SUBSET Houses
  PROVE  LET scoped == HouseScoped(s, hs)
         IN /\ \A h \in Houses : HouseDoc(h) \in DOMAIN scoped <=> h \in hs
            /\ \A h \in hs : scoped[HouseDoc(h)] = Deleted
            /\ \A u \in Users : UserDoc(u) \notin DOMAIN scoped
<1> DEFINE chores == {c \in Chores : Exists(s, ChoreDoc(c)) /\ s[ChoreDoc(c)].houseId \in hs}
           votes == {d \in {VoteDoc(c, r, u) : c \in chores, r \in Rounds, u \in Users} : Exists(s, d)}
           invites == {d \in {InviteDoc(h) : h \in hs} : Exists(s, d)}
           houses == {HouseDoc(h) : h \in hs} \cup {ChoreDoc(c) : c \in chores}
           scoped == [d \in houses |-> Deleted] ++ [d \in votes \cup invites |-> Absent]
<1>1. HouseScoped(s, hs) = scoped
  BY DEF HouseScoped
<1>2. \A h \in Houses : HouseDoc(h) \in houses <=> h \in hs
  BY DEF HouseDoc, ChoreDoc
<1>3. \A h \in Houses : HouseDoc(h) \notin votes /\ HouseDoc(h) \notin invites
  BY DEF HouseDoc, VoteDoc, InviteDoc
<1>4. \A u \in Users : UserDoc(u) \notin votes /\ UserDoc(u) \notin invites /\ UserDoc(u) \notin houses
  BY DEF UserDoc, HouseDoc, ChoreDoc, VoteDoc, InviteDoc
<1> HIDE DEF houses, votes, invites
<1>5. DOMAIN scoped = houses \cup votes \cup invites
  BY DEF ++
<1>6. \A d \in houses : scoped[d] = Deleted
  BY DEF ++
<1> HIDE DEF scoped
<1>7. \A h \in hs : scoped[HouseDoc(h)] = Deleted
  BY <1>2, <1>6
<1> QED
  BY <1>1, <1>2, <1>3, <1>4, <1>5, <1>7

\* u's account is removed: of the houses that list u, the ones where nobody else is
\* left are deleted and the others go on without u.
LEMMA DeleteUserKeeps ==
  ASSUME HouseholdInv, MaxAge \in Nat, NEW t \in Snapshots, NEW u \in Users, DeleteUser(t, u)
  PROVE  HouseholdInv'
<1> DEFINE s == t.data
           gone == Abandoned(s, u)
           kept == HousesOf(s, u) \ gone
           scoped == HouseScoped(s, gone)
           handed == [d \in {HouseDoc(h) : h \in kept} |-> LeftBy(s, d[2], u)]
           writes == (Write(UserDoc(u), Deleted) ++ scoped) ++ handed
           r == writes ++ db
<1>1. Commit(t, writes) /\ Exists(s, UserDoc(u))
  BY DEF DeleteUser
<1>2. gone \subseteq Houses /\ kept \subseteq Houses /\ gone \cap kept = {}
  BY DEF Abandoned, HousesOf
<1>3. /\ \A h \in Houses : HouseDoc(h) \in DOMAIN scoped <=> h \in gone
      /\ \A h \in gone : scoped[HouseDoc(h)] = Deleted
      /\ \A v \in Users : UserDoc(v) \notin DOMAIN scoped
  <2> HIDE DEF gone
  <2> QED
    BY <1>2, ScopedToHouses
<1>4. /\ \A h \in Houses : HouseDoc(h) \in DOMAIN handed <=> h \in kept
      /\ \A h \in kept : handed[HouseDoc(h)] = LeftBy(s, h, u)
      /\ \A v \in Users : UserDoc(v) \notin DOMAIN handed
  <2> HIDE DEF kept
  <2> QED
    BY <1>2 DEF HouseDoc, UserDoc
<1> HIDE DEF scoped, handed
<1>5. /\ UserDoc(u) \in DOMAIN writes
      /\ \A h \in Houses : HouseDoc(h) \in DOMAIN writes <=> h \in gone \cup kept
      /\ r[UserDoc(u)] = Deleted
      /\ \A v \in Users \ {u} : r[UserDoc(v)] = db[UserDoc(v)]
      /\ \A h \in gone : r[HouseDoc(h)] = Deleted
      /\ \A h \in kept : r[HouseDoc(h)] = LeftBy(s, h, u)
      /\ \A h \in Houses \ (gone \cup kept) : r[HouseDoc(h)] = db[HouseDoc(h)]
  <2> HIDE DEF gone, kept
  <2> QED
    BY <1>2, <1>3, <1>4, DistinctDocuments DEF ++, Write, HouseholdInv
<1> HIDE DEF writes
<1>6. /\ Sound(db) /\ Sound(s)
      /\ s[UserDoc(u)] = db[UserDoc(u)]
      /\ \A h \in gone \cup kept : s[HouseDoc(h)] = db[HouseDoc(h)]
  <2> HIDE DEF gone, kept
  <2> QED
    BY <1>1, <1>2, <1>5, CurrentReads, DistinctDocuments
<1> HIDE DEF r
<1>7. UsersSound(r)
  BY <1>5, <1>6 DEF Sound, UsersSound
<1>8. ~Exists(r, UserDoc(u)) /\ \A v \in Users \ {u} : r[UserDoc(v)] = db[UserDoc(v)]
  BY <1>5 DEF Exists
<1>9. ASSUME NEW h \in gone
      PROVE  HouseSound(r, h) /\ \A v \in Users : Symmetric(r, h, v)
  <2>1. h \in Houses /\ Exists(s, HouseDoc(h)) /\ Others(MemberIds(s, h), u) = << >>
    BY DEF Abandoned, HousesOf
  <2>2. r[HouseDoc(h)] = Deleted /\ s[HouseDoc(h)] = db[HouseDoc(h)]
    BY <1>5, <1>6
  <2>3. MemberIds(s, h) \in Seq(Users) /\ ListedOnce(MemberIds(s, h))
    BY <2>1, <1>6 DEF Sound, HouseSound, HouseValues, MemberIds, Exists
  <2>4. {Others(MemberIds(s, h), u)[i] : i \in 1 .. Len(Others(MemberIds(s, h), u))}
          = Members(s, h) \ {u}
    BY <2>3, OthersProperties DEF Members
  <2>5. Members(s, h) \subseteq {u}
    BY <2>1, <2>4
  <2>6. ASSUME NEW v \in Users, v # u
        PROVE  ~IsMember(db, h, v) /\ Symmetric(db, h, v)
    BY <2>1, <2>2, <2>5, <2>6, <1>6 DEF IsMember, Members, MemberIds, Sound
  <2>7. ~Exists(r, HouseDoc(h))
    BY <2>2 DEF Exists
  <2>8. HouseSound(r, h)
    BY <2>2, <2>7 DEF HouseSound
  <2>9. ASSUME NEW v \in Users
        PROVE  Symmetric(r, h, v)
    <3>1. CASE v = u
      BY <3>1, <2>7, <1>8 DEF Symmetric, IsMember
    <3>2. CASE v # u
      BY <3>2, <2>6, <2>7, <1>8 DEF Symmetric, IsMember, Exists
    <3> QED
      BY <3>1, <3>2
  <2> QED
    BY <2>8, <2>9
<1>10. ASSUME NEW h \in kept
       PROVE  HouseSound(r, h) /\ \A v \in Users : Symmetric(r, h, v)
  <2>1. h \in Houses /\ Exists(s, HouseDoc(h)) /\ Others(MemberIds(s, h), u) # << >>
    BY DEF Abandoned, HousesOf
  <2>2. r[HouseDoc(h)] = LeftBy(s, h, u) /\ s[HouseDoc(h)] = db[HouseDoc(h)]
    BY <1>5, <1>6
  <2>3. HouseSound(s, h)
    BY <2>1, <1>6 DEF Sound
  <2>4. HouseSound(r, h) /\ Exists(r, HouseDoc(h)) /\ Members(r, h) = Members(s, h) \ {u}
    BY <2>1, <2>2, <2>3, LeftByProperties
  <2>5. ASSUME NEW v \in Users
        PROVE  IsMember(db, h, v) <=> v \in Members(s, h)
    BY <2>1, <2>2 DEF IsMember, Members, MemberIds, Exists
  <2>6. ASSUME NEW v \in Users
        PROVE  Symmetric(r, h, v)
    <3>1. CASE v = u
      BY <3>1, <2>4, <1>8 DEF Symmetric, IsMember
    <3>2. CASE v # u
      <4>1. Symmetric(db, h, v)
        BY <2>1, <1>6 DEF Sound
      <4> QED
        BY <4>1, <3>2, <2>4, <2>5, <1>8 DEF Symmetric, IsMember, Exists
    <3> QED
      BY <3>1, <3>2
  <2> QED
    BY <2>4, <2>6
<1>11. ASSUME NEW h \in Houses, h \notin gone \cup kept
       PROVE  HouseSound(r, h) /\ \A v \in Users : Symmetric(r, h, v)
  <2>1. r[HouseDoc(h)] = db[HouseDoc(h)]
    BY <1>5, <1>11
  <2>2. HouseSound(db, h) /\ \A v \in Users : Symmetric(db, h, v) /\ Symmetric(s, h, v)
    BY <1>6 DEF Sound
  <2>3. HouseSound(r, h) /\ \A v \in Users : IsMember(r, h, v) <=> IsMember(db, h, v)
    BY <2>1, <2>2 DEF HouseSound, IsMember, Exists, Members, MemberIds
  <2>4. ~IsMember(s, h, u)
    BY <1>11 DEF IsMember, HousesOf
  <2>5. ~IsMember(db, h, u)
    BY <2>2, <2>4, <1>6 DEF Symmetric, Exists
  <2>6. ASSUME NEW v \in Users
        PROVE  Symmetric(r, h, v)
    <3>1. CASE v = u
      BY <3>1, <2>3, <2>5, <1>8 DEF Symmetric
    <3>2. CASE v # u
      BY <3>2, <2>2, <2>3, <1>8 DEF Symmetric, Exists
    <3> QED
      BY <3>1, <3>2
  <2> QED
    BY <2>3, <2>6
<1>12. Sound(r)
  BY <1>7, <1>9, <1>10, <1>11 DEF Sound
<1> QED
  BY <1>1, <1>12, StepKeeps DEF r, Commit

-----------------------------------------------------------------------------
\* Documents other than accounts and houses: invites, chores and votes.
OtherThanHouseholds(docs) ==
  /\ \A u \in Users : UserDoc(u) \notin docs
  /\ \A h \in Houses : HouseDoc(h) \notin docs

\* A handler that writes only such documents keeps the invariant.
LEMMA OtherHandlersKeep ==
  ASSUME HouseholdInv, MaxAge \in Nat, NEW writes, Apply(writes),
         OtherThanHouseholds(DOMAIN writes)
  PROVE  HouseholdInv'
BY OtherDocuments, StepKeeps DEF OtherThanHouseholds

\* Invites, chores and votes are not accounts and not houses.
LEMMA OneOther ==
  /\ \A h : OtherThanHouseholds({InviteDoc(h)})
  /\ \A c : OtherThanHouseholds({ChoreDoc(c)})
  /\ \A c, r, u : OtherThanHouseholds({ChoreDoc(c), VoteDoc(c, r, u)})
  /\ \A cs : OtherThanHouseholds({ChoreDoc(c) : c \in cs})
BY DEF OtherThanHouseholds, UserDoc, HouseDoc, InviteDoc, ChoreDoc, VoteDoc

\* Every handler of houses.
LEMMA HouseStepKeeps ==
  ASSUME HouseholdInv, HouseStep
  PROVE  HouseholdInv'
<1>0. MaxAge \in Nat
  BY HouseholdAssumption
<1>1. PICK t \in Snapshots, u \in Users, h \in Houses :
        \/ \E limit \in Limits : CreateHouse(t, u, h, limit)
        \/ JoinHouse(t, u, h)
        \/ \E target \in Users : ExitHouse(t, u, target, h)
        \/ GenerateInviteCode(t, u, h)
        \/ \E limit \in Limits, required \in BOOLEAN : UpdateProfile(t, u, h, limit, required)
  BY DEF HouseStep
<1>2. CASE \E limit \in Limits : CreateHouse(t, u, h, limit)
  BY <1>0, <1>2, CreateHouseKeeps
<1>3. CASE JoinHouse(t, u, h)
  BY <1>0, <1>3, JoinHouseKeeps
<1>4. CASE \E target \in Users : ExitHouse(t, u, target, h)
  BY <1>0, <1>4, ExitHouseKeeps
<1>5. CASE GenerateInviteCode(t, u, h)
  <2>1. Apply(Write(InviteDoc(h), [live |-> TRUE]))
    BY <1>5 DEF GenerateInviteCode
  <2>2. DOMAIN Write(InviteDoc(h), [live |-> TRUE]) = {InviteDoc(h)}
    BY DEF Write
  <2> QED
    BY <1>0, <2>1, <2>2, OneOther, OtherHandlersKeep
<1>6. CASE \E limit \in Limits, required \in BOOLEAN : UpdateProfile(t, u, h, limit, required)
  BY <1>0, <1>6, UpdateProfileKeeps
<1> QED
  BY <1>1, <1>2, <1>3, <1>4, <1>5, <1>6

\* Every handler of chores that uses a transaction.
LEMMA ChoreStepKeeps ==
  ASSUME HouseholdInv, ChoreStep
  PROVE  HouseholdInv'
<1>0. MaxAge \in Nat
  BY HouseholdAssumption
<1>1. PICK t \in Snapshots, u \in Users :
        \/ \E h \in Houses, a \in Users, c \in Chores : CreateChore(t, u, h, a, c)
        \/ \E h \in Houses, cs \in SUBSET Chores \ {{}} : UpdateChoreStatus(t, u, h, cs)
        \/ \E c \in Chores, isApproved \in BOOLEAN : ReviewChore(t, u, c, isApproved)
  BY DEF ChoreStep
<1>2. CASE \E h \in Houses, a \in Users, c \in Chores : CreateChore(t, u, h, a, c)
  <2>1. PICK h \in Houses, a \in Users, c \in Chores : CreateChore(t, u, h, a, c)
    BY <1>2
  <2>2. PICK chore : Apply(Write(ChoreDoc(c), chore))
    BY <2>1 DEF CreateChore, Commit
  <2>3. DOMAIN Write(ChoreDoc(c), chore) = {ChoreDoc(c)}
    BY DEF Write
  <2> QED
    BY <1>0, <2>2, <2>3, OneOther, OtherHandlersKeep
<1>3. CASE \E h \in Houses, cs \in SUBSET Chores \ {{}} : UpdateChoreStatus(t, u, h, cs)
  <2>1. PICK h \in Houses, cs \in SUBSET Chores : UpdateChoreStatus(t, u, h, cs)
    BY <1>3
  <2> DEFINE writes == [d \in {ChoreDoc(c) : c \in cs} |->
                          Advanced(t.data[d], Len(MemberIds(t.data, h)))]
  <2>2. Apply(writes)
    BY <2>1 DEF UpdateChoreStatus, Commit
  <2>3. DOMAIN writes = {ChoreDoc(c) : c \in cs}
    OBVIOUS
  <2> HIDE DEF writes
  <2> QED
    BY <1>0, <2>2, <2>3, OneOther, OtherHandlersKeep
<1>4. CASE \E c \in Chores, isApproved \in BOOLEAN : ReviewChore(t, u, c, isApproved)
  <2>1. PICK c \in Chores, isApproved \in BOOLEAN : ReviewChore(t, u, c, isApproved)
    BY <1>4
  <2>2. PICK chore, r, vote : Apply(Write(ChoreDoc(c), chore) ++ Write(VoteDoc(c, r, u), vote))
    BY <2>1 DEF ReviewChore, Commit
  <2> DEFINE writes == Write(ChoreDoc(c), chore) ++ Write(VoteDoc(c, r, u), vote)
  <2>3. DOMAIN writes = {ChoreDoc(c), VoteDoc(c, r, u)}
    BY DEF Write, ++
  <2>4. Apply(writes)
    BY <2>2
  <2> HIDE DEF writes
  <2> QED
    BY <1>0, <2>3, <2>4, OneOther, OtherHandlersKeep
<1> QED
  BY <1>1, <1>2, <1>3, <1>4

\* The handler that reassigns a chore.
LEMMA ReassignStepKeeps ==
  ASSUME HouseholdInv, ReassignStep
  PROVE  HouseholdInv'
<1>1. MaxAge \in Nat
  BY HouseholdAssumption
<1>2. PICK c, chore : Apply(Write(ChoreDoc(c), chore))
  BY DEF ReassignStep, UpdateChore
<1>3. DOMAIN Write(ChoreDoc(c), chore) = {ChoreDoc(c)}
  BY DEF Write
<1> QED
  BY <1>1, <1>2, <1>3, OneOther, OtherHandlersKeep

\* The storage of photos is not part of the database.
LEMMA PhotoStepKeeps ==
  ASSUME HouseholdInv, PhotoStep
  PROVE  HouseholdInv'
<1>1. MaxAge \in Nat
  BY HouseholdAssumption
<1>2. CASE \E t \in Snapshots, p \in Photos, answered \in BOOLEAN : SubmitReviewPhoto(t, p, answered)
  <2>1. PICK c, chore : Apply(Write(ChoreDoc(c), chore))
    BY <1>2 DEF SubmitReviewPhoto, Commit
  <2>2. DOMAIN Write(ChoreDoc(c), chore) = {ChoreDoc(c)}
    BY DEF Write
  <2> QED
    BY <1>1, <2>1, <2>2, OneOther, OtherHandlersKeep
<1>3. CASE UNCHANGED <<db, past>>
  BY <1>3 DEF HouseholdInv
<1> QED
  BY <1>2, <1>3 DEF PhotoStep

\* At first there are accounts and nothing else.
LEMMA InitSound ==
  ASSUME Init
  PROVE  HouseholdInv
<1>1. db = [d \in Documents |->
              IF d \in {UserDoc(u) : u \in Users} THEN [houseIds |-> {}] ELSE Absent]
  BY DEF Init, TransactionsInit
<1>2. \A u \in Users : db[UserDoc(u)] = [houseIds |-> {}]
  BY <1>1, DistinctDocuments
<1>3. \A h \in Houses : db[HouseDoc(h)] = Absent
  BY <1>1, DistinctDocuments
<1>4. Sound(db)
  BY <1>2, <1>3 DEF Sound, UsersSound, HouseSound, Symmetric, IsMember, Exists, AccountValues
<1>5. past = << >>
  BY DEF Init, TransactionsInit
<1> QED
  BY <1>1, <1>4, <1>5 DEF HouseholdInv

\* Houses and accounts agree in the database and in whatever a handler may still
\* be working with, after any commits of any handlers.
THEOREM HouseholdInvHolds == Spec => []HouseholdInv
<1>1. Init => HouseholdInv
  BY InitSound
<1>2. HouseholdInv /\ [Next]_vars => HouseholdInv'
  <2> SUFFICES ASSUME HouseholdInv, [Next]_vars
               PROVE  HouseholdInv'
    OBVIOUS
  <2>1. CASE HouseStep
    BY <2>1, HouseStepKeeps
  <2>2. CASE DeleteUserStep
    BY <2>2, DeleteUserKeeps, HouseholdAssumption DEF DeleteUserStep
  <2>3. CASE ChoreStep
    BY <2>3, ChoreStepKeeps
  <2>4. CASE ReassignStep
    BY <2>4, ReassignStepKeeps
  <2>5. CASE PhotoStep
    BY <2>5, PhotoStepKeeps
  <2>6. CASE UNCHANGED vars
    BY <2>6 DEF vars, HouseholdInv
  <2> QED
    BY <2>1, <2>2, <2>3, <2>4, <2>5, <2>6 DEF Next
<1> QED
  BY <1>1, <1>2, PTL DEF Spec

\* A house lists exactly the users whose accounts list the house, although two
\* documents say so and handlers decide on snapshots that may be out of date
\* (joinHouse.go, exitHouse.go, accountRemoval.go).
THEOREM MembershipIsSymmetric == Spec => []MembershipSymmetric
<1>1. HouseholdInv => MembershipSymmetric
  BY DEF HouseholdInv, Sound, Symmetric, MembershipSymmetric
<1> QED
  BY <1>1, HouseholdInvHolds, PTL

\* Every house has an owner who is one of its members, whoever leaves it and
\* whichever account is removed (exitHouse.go, accountRemoval.go).
THEOREM OwnersAreMembers == Spec => []OwnerIsMember
<1>1. HouseholdInv => OwnerIsMember
  BY DEF HouseholdInv, Sound, HouseSound, OwnerIsMember
<1> QED
  BY <1>1, HouseholdInvHolds, PTL

\* A list that has nobody twice has as many members as entries.
LEMMA ListedOnceCounts ==
  ASSUME NEW members \in Seq(Users), ListedOnce(members)
  PROVE  Cardinality({members[i] : i \in 1 .. Len(members)}) = Len(members)
<1> DEFINE listed == {members[i] : i \in 1 .. Len(members)}
           n == Len(members)
<1>1. n \in Nat /\ members \in [1 .. n -> listed]
  OBVIOUS
<1>2. members \in Injection(1 .. n, listed)
  BY <1>1 DEF Injection, IsInjective, ListedOnce
<1>3. members \in Surjection(1 .. n, listed)
  BY <1>1 DEF Surjection
<1>4. ExistsBijection(1 .. n, listed)
  BY <1>2, <1>3 DEF ExistsBijection, Bijection
<1> QED
  BY <1>1, <1>4, FS_CountingElements

\* No house has more members than it allows, although a member may join and the
\* owner lower the limit at the same time (joinHouse.go, updateHouseProfile.go).
THEOREM HousesAreWithinLimit == Spec => []WithinLimit
<1>1. HouseholdInv => WithinLimit
  <2> SUFFICES ASSUME HouseholdInv, NEW h \in Houses, Exists(db, HouseDoc(h))
               PROVE  /\ Cardinality(Members(db, h)) = Len(MemberIds(db, h))
                      /\ Len(MemberIds(db, h)) <= db[HouseDoc(h)].maxMemberCount
    BY DEF WithinLimit
  <2>1. HouseSound(db, h)
    BY DEF HouseholdInv, Sound
  <2>2. MemberIds(db, h) \in Seq(Users) /\ ListedOnce(MemberIds(db, h))
    BY <2>1 DEF HouseSound, HouseValues, MemberIds, Exists
  <2> QED
    BY <2>1, <2>2, ListedOnceCounts DEF HouseSound, Members
<1> QED
  BY <1>1, HouseholdInvHolds, PTL

\* Houses and accounts agree in everything the run checks of them, for any users,
\* houses, chores, limits and numbers of overtaking commits.
THEOREM HousesAlwaysAgree == Spec => []HousesAgree
BY MembershipIsSymmetric, OwnersAreMembers, HousesAreWithinLimit, PTL DEF HousesAgree

(***************************************************************************)
(* The review of chores, and their photos, for any number of rounds.       *)
(*                                                                         *)
(* A chore and its votes of every round agree (RoundsOK): each round       *)
(* before the present one was ended by one rejection, and none is ahead.   *)
(* While a round is undisturbed, its approvals come from the assignee's    *)
(* household (ReviewOK). A handler that finds the chore as it has read it  *)
(* has read all of its votes, because whoever votes writes the chore, and  *)
(* the household as it is, because otherwise the round is disturbed        *)
(* (ReadsReview). So counting what was read counts what there is.          *)
(***************************************************************************)

\* Every document has its type.
DocumentsOK(s) ==
  /\ DOMAIN s = Documents
  /\ \A h \in Houses : s[InviteDoc(h)] \in [live : {TRUE}] \cup {Absent}
  /\ \A c \in Chores : s[ChoreDoc(c)] \in ChoreValues \cup {Absent, Deleted}
  /\ \A c \in Chores, r \in Rounds, u \in Users :
       s[VoteDoc(c, r, u)] \in [isApproved : BOOLEAN] \cup {Absent}

Blank(s, c, r) == \A u \in Users : s[VoteDoc(c, r, u)] = Absent
Rejected(s, c, r) == \E u \in Users : Votes(s, c, r, FALSE) = {u}
NotRejected(s, c, r) == Votes(s, c, r, FALSE) = {}

\* A chore's rounds up to the present one, and none beyond.
RoundsOK(s, c) ==
  /\ s[ChoreDoc(c)] = Absent => \A r \in Rounds : Blank(s, c, r)
  /\ Exists(s, ChoreDoc(c)) =>
       LET chore == s[ChoreDoc(c)] IN
       /\ chore.status = "Draft" => chore.reviewRound = 0
       /\ chore.status \in {"InTest", "Completed"} => chore.reviewRound \in Rounds
       /\ chore.status # "Completed" => chore.completedBy = ""
       /\ \A r \in Rounds :
            /\ IsFiniteSet(Votes(s, c, r, TRUE))
            /\ r < chore.reviewRound => Rejected(s, c, r)
            /\ r > chore.reviewRound => Blank(s, c, r)
            /\ r = chore.reviewRound =>
                 IF chore.status = "Progress" \/ chore.completedBy = "system"
                 THEN Rejected(s, c, r) ELSE NotRejected(s, c, r)

\* A round the household and the assignee have been the same for: the others have
\* approved, all of them once the assignee is said to have completed the chore.
ReviewOK(s, c) ==
  UnderReview(s, c) =>
    LET chore == s[ChoreDoc(c)]
        approvals == Votes(s, c, chore.reviewRound, TRUE)
    IN  /\ chore.assignedTo \in HouseholdOf(s, c)
        /\ chore.status = "InTest" =>
             approvals \subseteq Reviewers(s, c) /\ approvals # Reviewers(s, c)
        /\ chore.status = "Completed" /\ chore.completedBy # "system" =>
             chore.completedBy = chore.assignedTo /\ approvals = Reviewers(s, c)

\* What a handler has read of a chore nobody has written since: all of its votes,
\* and the household that reviews it.
ReadsReview(data, wrote, s, besides) ==
  \A c \in Chores : ChoreDoc(c) \notin wrote =>
    /\ \A r \in Rounds, u \in Users : VoteDoc(c, r, u) \notin wrote
    /\ c \notin besides /\ UnderReview(s, c) => HouseholdOf(data, c) = HouseholdOf(s, c)

ReviewInv ==
  /\ HouseholdInv /\ DocumentsOK(db)
  /\ \A c \in Chores : RoundsOK(db, c)
  /\ \A c \in Chores \ disturbed : ReviewOK(db, c)
  /\ \A i \in DOMAIN past : ReadsReview(past[i].data, past[i].wrote, db, disturbed)
  /\ objects \subseteq Photos /\ disturbed \subseteq Chores

\* A photo a chore names was committed, and one that was stored is there until its
\* own request deletes it.
UploadStates == {"stored", "unanswered", "kept", "failed", "lost"}
UploadValues ==
  [state : {"none"}] \cup [state : UploadStates, by : Users, choreId : Chores]

PhotoInv ==
  /\ upload \in [Photos -> UploadValues]
  /\ \A p \in Photos : upload[p].state \in {"stored", "unanswered", "kept"} => p \in objects
  /\ \A c \in Chores : Exists(db, ChoreDoc(c)) =>
       \A p \in StoredKeys(c) : p \in Photos /\ upload[p].state \in {"unanswered", "kept", "lost"}

\* A step after which chores name no photo they did not name before.
KeysStay ==
  \A c \in Chores : Exists(db', ChoreDoc(c)) =>
    \A r \in Rounds : LET p == db'[ChoreDoc(c)].reviewPhotoKeys[r] IN
      \/ p = "none"
      \/ Exists(db, ChoreDoc(c)) /\ p = db[ChoreDoc(c)].reviewPhotoKeys[r]

\* Documents of different kinds are different, and each is named by its parts.
LEMMA DocumentNames ==
  /\ \A h \in Houses : InviteDoc(h) \in Documents
  /\ \A c \in Chores : ChoreDoc(c) \in Documents
  /\ \A c \in Chores, r \in Rounds, u \in Users : VoteDoc(c, r, u) \in Documents
  /\ \A c, e : ChoreDoc(c) = ChoreDoc(e) => c = e
  /\ \A c, e, r, q, u, v : VoteDoc(c, r, u) = VoteDoc(e, q, v) => c = e /\ r = q /\ u = v
  /\ \A c, e, r, u : ChoreDoc(c) # VoteDoc(e, r, u)
  /\ \A c, h : ChoreDoc(c) # InviteDoc(h) /\ ChoreDoc(c) # HouseDoc(h) /\ ChoreDoc(c) # UserDoc(h)
  /\ \A c, r, u, h : /\ VoteDoc(c, r, u) # InviteDoc(h) /\ VoteDoc(c, r, u) # HouseDoc(h)
                     /\ VoteDoc(c, r, u) # UserDoc(h)
  /\ \A h, g : InviteDoc(h) # HouseDoc(g) /\ InviteDoc(h) # UserDoc(g)
  /\ \A h, g : InviteDoc(h) = InviteDoc(g) => h = g
BY DEF Documents, InviteDoc, ChoreDoc, VoteDoc, HouseDoc, UserDoc

\* A chore and a vote are contents that exist.
LEMMA WhatExists ==
  /\ \A v \in ChoreValues : v \notin {Absent, Deleted}
  /\ \A b \in BOOLEAN : [isApproved |-> b] # Absent
BY NoContentAssumption

\* The fields of a chore.
LEMMA ChoreFields ==
  ASSUME NEW chore \in ChoreValues
  PROVE  /\ chore.houseId \in Houses /\ chore.assignedTo \in Users
         /\ chore.status \in {"Draft", "Progress", "InTest", "Completed"}
         /\ chore.reviewRound \in 0 .. MaxReviewRounds /\ chore.reviewRound \in Nat
         /\ chore.completedBy \in Users \cup {"", "system"}
         /\ chore.reviewPhotoKeys \in [Rounds -> Photos \cup {"none"}]
<1>1. MaxReviewRounds \in Nat
  BY HouseholdAssumption
<1>2. chore.reviewRound \in 0 .. MaxReviewRounds
  BY DEF ChoreValues
<1>3. chore.reviewRound \in Nat
  BY <1>1, <1>2
<1> QED
  BY <1>2, <1>3 DEF ChoreValues

\* Rounds are counted from one.
LEMMA RoundNumbers ==
  /\ MaxReviewRounds \in Nat /\ 0 \in 0 .. MaxReviewRounds
  /\ \A r \in Rounds : r \in Nat /\ r > 0 /\ r <= MaxReviewRounds
<1>1. MaxReviewRounds \in Nat \ {0}
  BY HouseholdAssumption
<1> QED
  BY <1>1 DEF Rounds

\* A blank round has no votes.
LEMMA BlankVotes ==
  ASSUME NEW s, NEW c, NEW r, Blank(s, c, r), NEW b \in BOOLEAN
  PROVE  Votes(s, c, r, b) = {}
BY WhatExists DEF Blank, Votes

\* What a snapshot says of chores.
LEMMA SnapshotReview ==
  ASSUME ReviewInv, NEW t \in Snapshots
  PROVE  ReadsReview(t.data, t.wrote, db, disturbed)
BY DEF ReviewInv, Snapshots, ReadsReview

\* The documents nobody has written since are as the snapshot has them.
LEMMA SnapshotCurrent ==
  ASSUME ReviewInv, NEW t \in Snapshots, NEW d \in Documents, d \notin t.wrote
  PROVE  t.data[d] = db[d]
BY SnapshotReads DEF ReviewInv, Reads

\* A round under review after a step is undisturbed only if the step left its
\* household and assignee alone, or opened it in the house as it is.
LEMMA TrackedRounds ==
  ASSUME NEW t, Tracked(t), NEW c \in Chores, c \notin disturbed', UnderReview(db', c)
  PROVE  IF UnderReview(db, c)
         THEN /\ c \notin disturbed /\ HouseholdOf(db', c) = HouseholdOf(db, c)
              /\ db'[ChoreDoc(c)].assignedTo = db[ChoreDoc(c)].assignedTo
         ELSE Untouched(t, {HouseDoc(db'[ChoreDoc(c)].houseId)})
BY DEF Tracked

-----------------------------------------------------------------------------
\* A chore and its votes that a step does not write.
LEMMA ChoreKept ==
  ASSUME ReviewInv, NEW t, Tracked(t), NEW c \in Chores,
         db'[ChoreDoc(c)] = db[ChoreDoc(c)],
         \A r \in Rounds, u \in Users : db'[VoteDoc(c, r, u)] = db[VoteDoc(c, r, u)]
  PROVE  /\ RoundsOK(db', c)
         /\ c \notin disturbed' => ReviewOK(db', c)
<1>1. RoundsOK(db, c) /\ (c \notin disturbed => ReviewOK(db, c))
  BY DEF ReviewInv
<1>2. \A r \in Rounds, b \in BOOLEAN : Votes(db', c, r, b) = Votes(db, c, r, b)
  BY DEF Votes
<1>3. \A r \in Rounds : Blank(db', c, r) <=> Blank(db, c, r)
  BY DEF Blank
<1>4. Exists(db', ChoreDoc(c)) <=> Exists(db, ChoreDoc(c))
  BY DEF Exists
<1>5. RoundsOK(db', c)
  BY <1>1, <1>2, <1>3, <1>4 DEF RoundsOK, Rejected, NotRejected
<1>6. ASSUME c \notin disturbed', UnderReview(db', c)
      PROVE  ReviewOK(db', c)
  <2>1. UnderReview(db, c)
    BY <1>6 DEF UnderReview, Exists
  <2>2. c \notin disturbed /\ HouseholdOf(db', c) = HouseholdOf(db, c)
    BY <1>6, <2>1, TrackedRounds
  <2>3. Reviewers(db', c) = Reviewers(db, c)
    BY <2>2 DEF Reviewers
  <2>4. db[ChoreDoc(c)].reviewRound \in Rounds
    BY <1>1, <2>1 DEF UnderReview, RoundsOK
  <2>5. \A b \in BOOLEAN : Votes(db', c, db[ChoreDoc(c)].reviewRound, b)
                             = Votes(db, c, db[ChoreDoc(c)].reviewRound, b)
    BY <1>2, <2>4
  <2> QED
    BY <1>1, <2>1, <2>2, <2>3, <2>5 DEF ReviewOK
<1>7. ~UnderReview(db', c) => ReviewOK(db', c)
  BY DEF ReviewOK
<1> QED
  BY <1>5, <1>6, <1>7

\* What a snapshot says of chores stays so when a step leaves a chore alone.
LEMMA ReadsStay ==
  ASSUME ReviewInv, NEW t, Tracked(t), NEW writes, NEW data, NEW wrote,
         \A c \in Chores, r \in Rounds, u \in Users :
           VoteDoc(c, r, u) \in DOMAIN writes => ChoreDoc(c) \in DOMAIN writes,
         \A d \in Documents \ DOMAIN writes : db'[d] = db[d],
         ReadsReview(data, wrote, db, disturbed)
  PROVE  ReadsReview(data, wrote \cup DOMAIN writes, db', disturbed')
<1> SUFFICES ASSUME NEW c \in Chores, ChoreDoc(c) \notin wrote \cup DOMAIN writes
             PROVE  /\ \A r \in Rounds, u \in Users : VoteDoc(c, r, u) \notin wrote \cup DOMAIN writes
                    /\ c \notin disturbed' /\ UnderReview(db', c)
                         => HouseholdOf(data, c) = HouseholdOf(db', c)
  BY DEF ReadsReview
<1>1. \A r \in Rounds, u \in Users : VoteDoc(c, r, u) \notin wrote \cup DOMAIN writes
  BY DEF ReadsReview
<1>2. ASSUME c \notin disturbed', UnderReview(db', c)
      PROVE  HouseholdOf(data, c) = HouseholdOf(db', c)
  <2>1. db'[ChoreDoc(c)] = db[ChoreDoc(c)]
    BY DocumentNames
  <2>2. UnderReview(db, c)
    BY <1>2, <2>1 DEF UnderReview, Exists
  <2>3. c \notin disturbed /\ HouseholdOf(db', c) = HouseholdOf(db, c)
    BY <1>2, <2>2, TrackedRounds
  <2> QED
    BY <2>2, <2>3 DEF ReadsReview
<1> QED
  BY <1>1, <1>2

\* Every content a handler writes has the type of its document.
TypedWrites(writes) ==
  /\ DOMAIN writes \subseteq Documents
  /\ \A h \in Houses : InviteDoc(h) \in DOMAIN writes =>
       writes[InviteDoc(h)] \in [live : {TRUE}] \cup {Absent}
  /\ \A c \in Chores : ChoreDoc(c) \in DOMAIN writes =>
       writes[ChoreDoc(c)] \in ChoreValues \cup {Absent, Deleted}
  /\ \A c \in Chores, r \in Rounds, u \in Users : VoteDoc(c, r, u) \in DOMAIN writes =>
       writes[VoteDoc(c, r, u)] \in [isApproved : BOOLEAN] \cup {Absent}

\* So it is enough to look at the chores a step writes.
LEMMA ReviewStep ==
  ASSUME ReviewInv, HouseholdInv', NEW t, Tracked(t), NEW writes, Apply(writes),
         TypedWrites(writes),
         \A c \in Chores, r \in Rounds, u \in Users :
           VoteDoc(c, r, u) \in DOMAIN writes => ChoreDoc(c) \in DOMAIN writes,
         \A c \in Chores : ChoreDoc(c) \in DOMAIN writes =>
           RoundsOK(db', c) /\ (c \notin disturbed' => ReviewOK(db', c)),
         objects' \subseteq Photos
  PROVE  ReviewInv'
<1> DEFINE W == DOMAIN writes
           n == IF Len(past) < MaxAge THEN Len(past) + 1 ELSE MaxAge
<1>1. db' = writes ++ db
  BY DEF Apply
<1>2. \A d \in Documents : db'[d] = IF d \in W THEN writes[d] ELSE db[d]
  BY <1>1, Written DEF ReviewInv, HouseholdInv
<1>3. DocumentsOK(db')
  <2>1. DOMAIN db' = Documents
    BY <1>1 DEF ++, TypedWrites, ReviewInv, DocumentsOK
  <2>2. \A h \in Houses : db'[InviteDoc(h)] \in [live : {TRUE}] \cup {Absent}
    BY <1>2, DocumentNames DEF TypedWrites, ReviewInv, DocumentsOK
  <2>3. \A c \in Chores : db'[ChoreDoc(c)] \in ChoreValues \cup {Absent, Deleted}
    BY <1>2, DocumentNames DEF TypedWrites, ReviewInv, DocumentsOK
  <2>4. \A c \in Chores, r \in Rounds, u \in Users :
          db'[VoteDoc(c, r, u)] \in [isApproved : BOOLEAN] \cup {Absent}
    BY <1>2, DocumentNames DEF TypedWrites, ReviewInv, DocumentsOK
  <2> QED
    BY <2>1, <2>2, <2>3, <2>4 DEF DocumentsOK
<1>4. ASSUME NEW c \in Chores
      PROVE  RoundsOK(db', c) /\ (c \notin disturbed' => ReviewOK(db', c))
  <2>1. CASE ChoreDoc(c) \notin W
    <3>1. db'[ChoreDoc(c)] = db[ChoreDoc(c)]
      BY <1>2, <2>1, DocumentNames
    <3>2. \A r \in Rounds, u \in Users : db'[VoteDoc(c, r, u)] = db[VoteDoc(c, r, u)]
      BY <1>2, <2>1, DocumentNames
    <3> QED
      BY <3>1, <3>2, ChoreKept
  <2> QED
    BY <2>1
<1>5. \A i \in DOMAIN past' : ReadsReview(past'[i].data, past'[i].wrote, db', disturbed')
  <2>1. Len(past) \in Nat /\ DOMAIN past = 1 .. Len(past)
    BY DEF ReviewInv, HouseholdInv
  <2>2. past' = [i \in 1 .. n |-> IF i = 1 THEN [data |-> db, wrote |-> W]
                   ELSE [data |-> past[i - 1].data, wrote |-> past[i - 1].wrote \cup W]]
    BY DEF Apply
  <2>3. \A d \in Documents \ W : db'[d] = db[d]
    BY <1>2
  <2>4. ReadsReview(db, {}, db, disturbed)
    BY DEF ReadsReview
  <2>5. ReadsReview(db, {} \cup W, db', disturbed')
    BY <2>3, <2>4, ReadsStay
  <2>6. n \in Nat /\ n <= Len(past) + 1
    <3>1. MaxAge \in Nat
      BY HouseholdAssumption
    <3> QED
      BY <2>1, <3>1
  <2> HIDE DEF n
  <2>7. ASSUME NEW i \in DOMAIN past'
        PROVE  ReadsReview(past'[i].data, past'[i].wrote, db', disturbed')
    <3>1. i \in 1 .. n
      BY <2>2
    <3>2. CASE i = 1
      <4>1. past'[i].data = db /\ past'[i].wrote = {} \cup W
        BY <2>2, <3>1, <3>2
      <4> QED
        BY <2>5, <4>1
    <3>3. CASE i # 1
      <4>1. i - 1 \in DOMAIN past
        BY <2>1, <2>6, <3>1, <3>3
      <4>2. past'[i].data = past[i - 1].data /\ past'[i].wrote = past[i - 1].wrote \cup W
        BY <2>2, <3>1, <3>3
      <4>3. ReadsReview(past[i - 1].data, past[i - 1].wrote, db, disturbed)
        BY <4>1 DEF ReviewInv
      <4>4. ReadsReview(past[i - 1].data, past[i - 1].wrote \cup W, db', disturbed')
        BY <2>3, <4>3, ReadsStay
      <4> QED
        BY <4>2, <4>4
    <3> QED
      BY <3>2, <3>3
  <2> QED
    BY <2>7
<1>6. disturbed' \subseteq Chores
  BY DEF Tracked
<1>7. \A c \in Chores \ disturbed' : ReviewOK(db', c)
  BY <1>4
<1> QED
  BY <1>3, <1>4, <1>5, <1>6, <1>7 DEF ReviewInv

\* What a document is after a step.
LEMMA After ==
  ASSUME ReviewInv, NEW writes, Apply(writes), NEW d \in Documents
  PROVE  db'[d] = IF d \in DOMAIN writes THEN writes[d] ELSE db[d]
BY Written DEF Apply, ReviewInv, HouseholdInv

\* Houses, accounts and invites are not part of a review.
LEMMA HouseWrites ==
  ASSUME ReviewInv, HouseholdInv', NEW t, Tracked(t), NEW writes, Apply(writes),
         NEW u \in Users, NEW h \in Houses,
         DOMAIN writes \subseteq {HouseDoc(h), UserDoc(u), InviteDoc(h)},
         InviteDoc(h) \in DOMAIN writes => writes[InviteDoc(h)] \in [live : {TRUE}] \cup {Absent},
         UNCHANGED objects
  PROVE  ReviewInv' /\ KeysStay
<1>1. \A c \in Chores : ChoreDoc(c) \notin DOMAIN writes
  BY DocumentNames
<1>2. \A c \in Chores, r \in Rounds, v \in Users : VoteDoc(c, r, v) \notin DOMAIN writes
  BY DocumentNames
<1>3. DOMAIN writes \subseteq Documents
  BY DocumentNames, DistinctDocuments
<1>4. \A g \in Houses : InviteDoc(g) \in DOMAIN writes => g = h
  BY DocumentNames
<1>5. TypedWrites(writes)
  BY <1>1, <1>2, <1>3, <1>4 DEF TypedWrites
<1>6. objects' \subseteq Photos
  BY DEF ReviewInv
<1>7. \A c \in Chores : db'[ChoreDoc(c)] = db[ChoreDoc(c)]
  BY <1>1, After, DocumentNames
<1>8. KeysStay
  BY <1>7 DEF KeysStay, Exists
<1> QED
  BY <1>1, <1>2, <1>5, <1>6, <1>8, ReviewStep

\* A step that writes chores only.
LEMMA ChoreWrites ==
  ASSUME ReviewInv, HouseholdInv', NEW t, Tracked(t), NEW writes, Apply(writes),
         NEW cs \in SUBSET Chores, DOMAIN writes = {ChoreDoc(c) : c \in cs},
         \A c \in cs : /\ writes[ChoreDoc(c)] \in ChoreValues
                       /\ RoundsOK(db', c)
                       /\ c \notin disturbed' => ReviewOK(db', c),
         UNCHANGED objects
  PROVE  /\ ReviewInv'
         /\ \A c \in Chores \ cs : db'[ChoreDoc(c)] = db[ChoreDoc(c)]
         /\ \A c \in cs : db'[ChoreDoc(c)] = writes[ChoreDoc(c)]
<1>1. \A c \in Chores : ChoreDoc(c) \in DOMAIN writes => c \in cs
  BY DocumentNames
<1>2. \A c \in Chores, r \in Rounds, v \in Users : VoteDoc(c, r, v) \notin DOMAIN writes
  BY DocumentNames
<1>3. DOMAIN writes \subseteq Documents
  BY DocumentNames
<1>4. \A g \in Houses : InviteDoc(g) \notin DOMAIN writes
  BY DocumentNames
<1>5. TypedWrites(writes)
  BY <1>1, <1>2, <1>3, <1>4 DEF TypedWrites
<1>6. objects' \subseteq Photos
  BY DEF ReviewInv
<1>7. \A c \in Chores \ cs : db'[ChoreDoc(c)] = db[ChoreDoc(c)]
  BY <1>1, After, DocumentNames
<1>8. \A c \in cs : db'[ChoreDoc(c)] = writes[ChoreDoc(c)]
  BY After, DocumentNames
<1> QED
  BY <1>7, <1>8, <1>1, <1>2, <1>5, <1>6, ReviewStep

\* The votes on a chore and its house when a step writes chores only.
LEMMA OnlyChores ==
  ASSUME ReviewInv, NEW writes, Apply(writes), NEW cs, DOMAIN writes = {ChoreDoc(c) : c \in cs},
         NEW c \in Chores
  PROVE  /\ \A r \in Rounds, u \in Users : db'[VoteDoc(c, r, u)] = db[VoteDoc(c, r, u)]
         /\ \A r \in Rounds, b \in BOOLEAN : Votes(db', c, r, b) = Votes(db, c, r, b)
         /\ \A r \in Rounds : Blank(db', c, r) <=> Blank(db, c, r)
         /\ \A h \in Houses : db'[HouseDoc(h)] = db[HouseDoc(h)]
<1>1. \A r \in Rounds, u \in Users : db'[VoteDoc(c, r, u)] = db[VoteDoc(c, r, u)]
  BY After, DocumentNames
<1>2. \A h \in Houses : db'[HouseDoc(h)] = db[HouseDoc(h)]
  BY After, DocumentNames, DistinctDocuments
<1> QED
  BY <1>1, <1>2 DEF Votes, Blank

\* A chore that a handler is to write is the chore it has read.
LEMMA ChoreRead ==
  ASSUME ReviewInv, NEW t \in Snapshots, NEW c \in Chores, Untouched(t, {ChoreDoc(c)}),
         Exists(t.data, ChoreDoc(c))
  PROVE  /\ t.data[ChoreDoc(c)] = db[ChoreDoc(c)]
         /\ db[ChoreDoc(c)] \in ChoreValues
         /\ Exists(db, ChoreDoc(c))
<1>1. t.data[ChoreDoc(c)] = db[ChoreDoc(c)]
  BY SnapshotCurrent, DocumentNames DEF Untouched
<1> QED
  BY <1>1 DEF Exists, ReviewInv, DocumentsOK

-----------------------------------------------------------------------------
\* Whatever happens to houses, no chore and no vote changes.
LEMMA HouseStepReview ==
  ASSUME ReviewInv, HouseholdInv', HouseStep
  PROVE  ReviewInv' /\ KeysStay
<1>1. PICK t \in Snapshots, u \in Users, h \in Houses :
        /\ \/ \E limit \in Limits : CreateHouse(t, u, h, limit)
           \/ JoinHouse(t, u, h)
           \/ \E target \in Users : ExitHouse(t, u, target, h)
           \/ GenerateInviteCode(t, u, h)
           \/ \E limit \in Limits, required \in BOOLEAN : UpdateProfile(t, u, h, limit, required)
        /\ Tracked(t) /\ UNCHANGED objects
  BY DEF HouseStep
<1>2. CASE (\E limit \in Limits : CreateHouse(t, u, h, limit)) \/ JoinHouse(t, u, h)
  <2>1. PICK house, account : Apply(Write(HouseDoc(h), house) ++ Write(UserDoc(u), account))
    BY <1>2 DEF CreateHouse, JoinHouse, Commit
  <2> DEFINE writes == Write(HouseDoc(h), house) ++ Write(UserDoc(u), account)
  <2>2. DOMAIN writes = {HouseDoc(h), UserDoc(u)}
    BY DEF Write, ++
  <2>3. Apply(writes) /\ InviteDoc(h) \notin DOMAIN writes
    BY <2>1, <2>2, DocumentNames
  <2> HIDE DEF writes
  <2> QED
    BY <1>1, <2>2, <2>3, HouseWrites
<1>3. CASE \E target \in Users : ExitHouse(t, u, target, h)
  <2>1. PICK target \in Users : ExitHouse(t, u, target, h)
    BY <1>3
  <2> DEFINE rest == IF IsOwner(t.data, h, u) THEN InviteRevoked(t.data, h) ELSE << >>
  <2>2. PICK house, account :
          Apply((Write(HouseDoc(h), house) ++ Write(UserDoc(target), account)) ++ rest)
    BY <2>1 DEF ExitHouse, Commit
  <2> DEFINE writes == (Write(HouseDoc(h), house) ++ Write(UserDoc(target), account)) ++ rest
  <2>3. /\ DOMAIN rest \subseteq {InviteDoc(h)}
        /\ InviteDoc(h) \in DOMAIN rest => rest[InviteDoc(h)] = Absent
    BY DEF InviteRevoked, Write
  <2> HIDE DEF rest
  <2>4. /\ DOMAIN writes \subseteq {HouseDoc(h), UserDoc(target), InviteDoc(h)}
        /\ InviteDoc(h) \in DOMAIN writes => writes[InviteDoc(h)] = Absent
    BY <2>3, DocumentNames DEF Write, ++
  <2>5. Apply(writes)
    BY <2>2
  <2> HIDE DEF writes
  <2> QED
    BY <1>1, <2>4, <2>5, HouseWrites
<1>4. CASE GenerateInviteCode(t, u, h)
  <2> DEFINE writes == Write(InviteDoc(h), [live |-> TRUE])
  <2>1. Apply(writes)
    BY <1>4 DEF GenerateInviteCode
  <2>2. DOMAIN writes = {InviteDoc(h)} /\ writes[InviteDoc(h)] \in [live : {TRUE}]
    BY DEF Write
  <2> HIDE DEF writes
  <2> QED
    BY <1>1, <2>1, <2>2, HouseWrites
<1>5. CASE \E limit \in Limits, required \in BOOLEAN : UpdateProfile(t, u, h, limit, required)
  <2>1. PICK house : Apply(Write(HouseDoc(h), house))
    BY <1>5 DEF UpdateProfile, Commit
  <2> DEFINE writes == Write(HouseDoc(h), house)
  <2>2. DOMAIN writes = {HouseDoc(h)}
    BY DEF Write
  <2>3. Apply(writes) /\ InviteDoc(h) \notin DOMAIN writes
    BY <2>1, <2>2, DocumentNames
  <2> HIDE DEF writes
  <2> QED
    BY <1>1, <2>2, <2>3, HouseWrites
<1> QED
  BY <1>1, <1>2, <1>3, <1>4, <1>5

\* What goes away with some houses: their chores, and the votes of those only.
LEMMA ScopedToChores ==
  ASSUME NEW s, NEW hs \in SUBSET Houses
  PROVE  LET scoped == HouseScoped(s, hs)
         IN /\ DOMAIN scoped \subseteq Documents
            /\ \A h \in Houses : InviteDoc(h) \in DOMAIN scoped => scoped[InviteDoc(h)] = Absent
            /\ \A c \in Chores : ChoreDoc(c) \in DOMAIN scoped => scoped[ChoreDoc(c)] = Deleted
            /\ \A c \in Chores, r \in Rounds, u \in Users : VoteDoc(c, r, u) \in DOMAIN scoped =>
                 /\ scoped[VoteDoc(c, r, u)] = Absent
                 /\ ChoreDoc(c) \in DOMAIN scoped
<1> DEFINE chores == {c \in Chores : Exists(s, ChoreDoc(c)) /\ s[ChoreDoc(c)].houseId \in hs}
           votes == {d \in {VoteDoc(c, r, u) : c \in chores, r \in Rounds, u \in Users} : Exists(s, d)}
           invites == {d \in {InviteDoc(h) : h \in hs} : Exists(s, d)}
           houses == {HouseDoc(h) : h \in hs} \cup {ChoreDoc(c) : c \in chores}
           scoped == [d \in houses |-> Deleted] ++ [d \in votes \cup invites |-> Absent]
<1>1. HouseScoped(s, hs) = scoped
  BY DEF HouseScoped
<1>2. houses \subseteq Documents /\ votes \subseteq Documents /\ invites \subseteq Documents
  BY DEF Documents
<1>3. \A h \in Houses : InviteDoc(h) \notin houses
  BY DEF HouseDoc, ChoreDoc, InviteDoc
<1>4. \A c \in Chores : ChoreDoc(c) \notin votes /\ ChoreDoc(c) \notin invites
  BY DEF ChoreDoc, VoteDoc, InviteDoc
<1>5. \A c \in Chores, r \in Rounds, u \in Users :
        /\ VoteDoc(c, r, u) \notin houses /\ VoteDoc(c, r, u) \notin invites
        /\ VoteDoc(c, r, u) \in votes => ChoreDoc(c) \in houses
  BY DEF ChoreDoc, VoteDoc, InviteDoc, HouseDoc
<1> HIDE DEF houses, votes, invites
<1>6. DOMAIN scoped = houses \cup votes \cup invites
  BY DEF ++
<1>7. /\ \A d \in houses : scoped[d] = Deleted
      /\ \A d \in (votes \cup invites) \ houses : scoped[d] = Absent
  BY DEF ++
<1> HIDE DEF scoped
<1> QED
  BY <1>1, <1>2, <1>3, <1>4, <1>5, <1>6, <1>7

\* A chore that is deleted with its house takes its votes with it; nobody can
\* look at a vote of it any more.
LEMMA DeleteUserReview ==
  ASSUME ReviewInv, HouseholdInv', DeleteUserStep
  PROVE  ReviewInv' /\ KeysStay
<1>1. PICK t \in Snapshots, u \in Users : DeleteUser(t, u) /\ Tracked(t) /\ UNCHANGED objects
  BY DEF DeleteUserStep
<1> DEFINE s == t.data
           gone == Abandoned(s, u)
           kept == HousesOf(s, u) \ gone
           scoped == HouseScoped(s, gone)
           handed == [d \in {HouseDoc(h) : h \in kept} |-> LeftBy(s, d[2], u)]
           writes == (Write(UserDoc(u), Deleted) ++ scoped) ++ handed
<1>2. Apply(writes)
  BY <1>1 DEF DeleteUser, Commit
<1>3. gone \in SUBSET Houses /\ kept \subseteq Houses
  BY DEF Abandoned, HousesOf
<1> HIDE DEF gone, kept
<1>4. /\ DOMAIN scoped \subseteq Documents
      /\ \A h \in Houses : InviteDoc(h) \in DOMAIN scoped => scoped[InviteDoc(h)] = Absent
      /\ \A c \in Chores : ChoreDoc(c) \in DOMAIN scoped => scoped[ChoreDoc(c)] = Deleted
      /\ \A c \in Chores, r \in Rounds, v \in Users : VoteDoc(c, r, v) \in DOMAIN scoped =>
           /\ scoped[VoteDoc(c, r, v)] = Absent
           /\ ChoreDoc(c) \in DOMAIN scoped
  BY <1>3, ScopedToChores
<1>5. DOMAIN handed = {HouseDoc(h) : h \in kept}
  OBVIOUS
<1> HIDE DEF scoped, handed
<1>6. DOMAIN writes = ({UserDoc(u)} \cup DOMAIN scoped) \cup {HouseDoc(h) : h \in kept}
  BY <1>5 DEF ++, Write
<1>7. \A d \in DOMAIN scoped \ {UserDoc(u)} : writes[d] = scoped[d]
  BY <1>5 DEF ++, Write
<1> HIDE DEF writes
<1>8. DOMAIN writes \subseteq Documents
  BY <1>3, <1>4, <1>6, DistinctDocuments
<1>9. \A h \in Houses : InviteDoc(h) \in DOMAIN writes => writes[InviteDoc(h)] = Absent
  BY <1>4, <1>6, <1>7, DocumentNames
<1>10. \A c \in Chores : ChoreDoc(c) \in DOMAIN writes => writes[ChoreDoc(c)] = Deleted
  BY <1>4, <1>6, <1>7, DocumentNames
<1>11. \A c \in Chores, r \in Rounds, v \in Users : VoteDoc(c, r, v) \in DOMAIN writes =>
         writes[VoteDoc(c, r, v)] = Absent /\ ChoreDoc(c) \in DOMAIN writes
  BY <1>4, <1>6, <1>7, DocumentNames
<1>12. TypedWrites(writes)
  BY <1>8, <1>9, <1>10, <1>11 DEF TypedWrites
<1>13. ASSUME NEW c \in Chores, ChoreDoc(c) \in DOMAIN writes
       PROVE  RoundsOK(db', c) /\ ReviewOK(db', c)
  <2>1. db'[ChoreDoc(c)] = Deleted
    BY <1>2, <1>10, <1>13, After, DocumentNames
  <2> QED
    BY <2>1, NoContentAssumption DEF RoundsOK, ReviewOK, UnderReview, Exists
<1>14. KeysStay
  <2>1. \A c \in Chores : db'[ChoreDoc(c)] = db[ChoreDoc(c)] \/ db'[ChoreDoc(c)] = Deleted
    BY <1>2, <1>10, After, DocumentNames
  <2> QED
    BY <2>1 DEF KeysStay, Exists
<1>15. objects' \subseteq Photos
  BY <1>1 DEF ReviewInv
<1> QED
  BY <1>1, <1>2, <1>11, <1>12, <1>13, <1>15, <1>14, ReviewStep

-----------------------------------------------------------------------------
\* The rounds of a chore with some status, round and completer.
LEMMA RoundsAre ==
  ASSUME NEW s, NEW c, NEW status, NEW round, NEW by,
         s[ChoreDoc(c)] # Absent, s[ChoreDoc(c)].status = status,
         s[ChoreDoc(c)].reviewRound = round, s[ChoreDoc(c)].completedBy = by,
         status = "Draft" => round = 0,
         status \in {"InTest", "Completed"} => round \in Rounds,
         status # "Completed" => by = "",
         \A r \in Rounds :
           /\ IsFiniteSet(Votes(s, c, r, TRUE))
           /\ r < round => Rejected(s, c, r)
           /\ r > round => Blank(s, c, r)
           /\ r = round => IF status = "Progress" \/ by = "system"
                           THEN Rejected(s, c, r) ELSE NotRejected(s, c, r)
  PROVE  RoundsOK(s, c)
BY DEF RoundsOK

\* A new chore is a draft that nobody has voted on: there was nothing to vote on.
LEMMA CreateChoreReview ==
  ASSUME ReviewInv, HouseholdInv', NEW t \in Snapshots, Tracked(t), UNCHANGED objects,
         NEW u \in Users, NEW h \in Houses, NEW a \in Users, NEW c \in Chores,
         CreateChore(t, u, h, a, c)
  PROVE  ReviewInv' /\ KeysStay
<1> DEFINE chore == [houseId |-> h, assignedTo |-> a, status |-> "Draft", reviewRound |-> 0,
                     completedBy |-> "", reviewPhotoKeys |-> [r \in Rounds |-> "none"]]
           writes == Write(ChoreDoc(c), chore)
<1>1. Apply(writes) /\ db[ChoreDoc(c)] = Absent
  BY DEF CreateChore, Commit
<1>2. chore \in ChoreValues
  BY RoundNumbers DEF ChoreValues
<1>3. DOMAIN writes = {ChoreDoc(e) : e \in {c}} /\ writes[ChoreDoc(c)] = chore
  BY DEF Write
<1>4. /\ chore.status = "Draft" /\ chore.status \notin {"Progress", "InTest", "Completed"}
      /\ chore.reviewRound = 0 /\ chore.completedBy = "" /\ chore.completedBy # "system"
      /\ \A r \in Rounds : chore.reviewPhotoKeys[r] = "none"
  OBVIOUS
<1> HIDE DEF writes, chore
<1>5. db'[ChoreDoc(c)] = chore
  <2>1. ChoreDoc(c) \in DOMAIN writes
    BY <1>3
  <2> QED
    BY <1>1, <1>3, <2>1, After, DocumentNames
<1>6. \A r \in Rounds : Blank(db', c, r)
  BY <1>1, <1>3, OnlyChores DEF ReviewInv, RoundsOK
<1>7. \A r \in Rounds, b \in BOOLEAN : Votes(db', c, r, b) = {}
  BY <1>6, BlankVotes
<1>8. chore # Absent
  BY <1>2, WhatExists
<1>9. RoundsOK(db', c)
  <2>1. \A r \in Rounds : ~(r < 0) /\ r # 0
    BY RoundNumbers
  <2>2. \A r \in Rounds : IsFiniteSet(Votes(db', c, r, TRUE))
    BY <1>7, FS_EmptySet
  <2>3. \A r \in Rounds :
          /\ IsFiniteSet(Votes(db', c, r, TRUE))
          /\ r < 0 => Rejected(db', c, r)
          /\ r > 0 => Blank(db', c, r)
          /\ r = 0 => IF chore.status = "Progress" \/ chore.completedBy = "system"
                      THEN Rejected(db', c, r) ELSE NotRejected(db', c, r)
    BY <1>6, <2>1, <2>2
  <2> QED
    BY <1>4, <1>5, <1>8, <2>3, RoundsAre, Zenon
<1>10. ReviewOK(db', c)
  BY <1>4, <1>5 DEF ReviewOK, UnderReview
<1> DEFINE cs == {c}
<1>11. /\ cs \in SUBSET Chores /\ DOMAIN writes = {ChoreDoc(e) : e \in cs}
       /\ \A e \in cs : /\ writes[ChoreDoc(e)] \in ChoreValues
                        /\ RoundsOK(db', e)
                        /\ e \notin disturbed' => ReviewOK(db', e)
  BY <1>2, <1>3, <1>9, <1>10
<1> HIDE DEF cs
<1>12. ReviewInv' /\ \A e \in Chores \ cs : db'[ChoreDoc(e)] = db[ChoreDoc(e)]
  BY <1>1, <1>11, ChoreWrites
<1>13. KeysStay
  BY <1>4, <1>5, <1>12 DEF KeysStay, Exists, cs
<1> QED
  BY <1>12, <1>13

\* A chore that its assignee starts to work on.
LEMMA StartedReview ==
  ASSUME ReviewInv, NEW writes, Apply(writes), NEW cs, DOMAIN writes = {ChoreDoc(e) : e \in cs},
         NEW c \in Chores, db[ChoreDoc(c)] \in ChoreValues, db[ChoreDoc(c)].status = "Draft",
         db'[ChoreDoc(c)] = [db[ChoreDoc(c)] EXCEPT !.status = "Progress"]
  PROVE  RoundsOK(db', c) /\ ReviewOK(db', c) /\ db'[ChoreDoc(c)] \in ChoreValues
<1> DEFINE chore == db[ChoreDoc(c)]
           new == db'[ChoreDoc(c)]
<1>1. /\ new.status = "Progress" /\ new.reviewRound = chore.reviewRound
      /\ new.completedBy = chore.completedBy /\ new \in ChoreValues
  BY DEF ChoreValues
<1>2. RoundsOK(db, c) /\ Exists(db, ChoreDoc(c)) /\ Exists(db', ChoreDoc(c))
  BY <1>1, WhatExists DEF ReviewInv, Exists
<1>3. chore.reviewRound = 0 /\ chore.completedBy = ""
  BY <1>2 DEF RoundsOK
<1>4. new.status \notin {"Draft", "InTest", "Completed"} /\ new.completedBy # "system"
  BY <1>1, <1>3
<1>5. \A r \in Rounds : Blank(db', c, r) /\ IsFiniteSet(Votes(db', c, r, TRUE))
  <2>1. \A r \in Rounds : Blank(db, c, r)
    BY <1>2, <1>3, RoundNumbers DEF RoundsOK
  <2>2. \A r \in Rounds : Blank(db', c, r)
    BY <2>1, OnlyChores
  <2> QED
    BY <2>2, BlankVotes, FS_EmptySet
<1>6. new # Absent
  BY <1>2 DEF Exists
<1>7. RoundsOK(db', c)
  <2>1. \A r \in Rounds : ~(r < 0) /\ r # 0
    BY RoundNumbers
  <2>2. new.reviewRound = 0 /\ new.completedBy = ""
    BY <1>1, <1>3
  <2>3. \A r \in Rounds :
          /\ IsFiniteSet(Votes(db', c, r, TRUE))
          /\ r < 0 => Rejected(db', c, r)
          /\ r > 0 => Blank(db', c, r)
          /\ r = 0 => IF new.status = "Progress" \/ new.completedBy = "system"
                      THEN Rejected(db', c, r) ELSE NotRejected(db', c, r)
    BY <1>5, <2>1
  <2> QED
    BY <1>4, <1>6, <2>2, <2>3, Zenon DEF RoundsOK
<1> QED
  BY <1>1, <1>4, <1>7 DEF ReviewOK, UnderReview

\* A chore as its assignee submits it, with or without a photo.
IsSubmitted(chore, n, new) ==
  /\ new.houseId = chore.houseId /\ new.assignedTo = chore.assignedTo
  /\ new.reviewRound = chore.reviewRound + 1
  /\ new.status = IF n <= 1 THEN "Completed" ELSE "InTest"
  /\ new.completedBy = IF n <= 1 THEN chore.assignedTo ELSE ""

\* Such a chore is Submitted,
LEMMA SubmittedFields ==
  ASSUME NEW chore \in ChoreValues, chore.reviewRound < MaxReviewRounds, NEW n
  PROVE  /\ Submitted(chore, n) \in ChoreValues
         /\ IsSubmitted(chore, n, Submitted(chore, n))
         /\ Submitted(chore, n).reviewPhotoKeys = chore.reviewPhotoKeys
<1>1. chore.reviewRound \in Nat /\ MaxReviewRounds \in Nat
  BY ChoreFields, RoundNumbers
<1>2. chore.reviewRound + 1 \in 0 .. MaxReviewRounds
  BY <1>1
<1>3. Submitted(chore, n) \in ChoreValues
  BY <1>2 DEF Submitted, ChoreValues
<1>4. /\ IsSubmitted(chore, n, Submitted(chore, n))
      /\ Submitted(chore, n).reviewPhotoKeys = chore.reviewPhotoKeys
  BY DEF Submitted, ChoreValues, IsSubmitted
<1> QED
  BY <1>3, <1>4

\* and so it is with a photo in its new round.
LEMMA SubmittedWithPhoto ==
  ASSUME NEW chore \in ChoreValues, chore.reviewRound < MaxReviewRounds, NEW n, NEW p \in Photos
  PROVE  LET submitted == Submitted(chore, n)
             new == [submitted EXCEPT !.reviewPhotoKeys[submitted.reviewRound] = p]
         IN /\ new \in ChoreValues /\ IsSubmitted(chore, n, new)
            /\ new.reviewPhotoKeys = [chore.reviewPhotoKeys EXCEPT ![submitted.reviewRound] = p]
<1> DEFINE submitted == Submitted(chore, n)
           new == [submitted EXCEPT !.reviewPhotoKeys[submitted.reviewRound] = p]
<1>1. /\ submitted \in ChoreValues /\ IsSubmitted(chore, n, submitted)
      /\ submitted.reviewPhotoKeys = chore.reviewPhotoKeys
  BY SubmittedFields
<1> HIDE DEF submitted
<1>2. new \in ChoreValues
  BY <1>1 DEF ChoreValues
<1>3. /\ new.houseId = submitted.houseId /\ new.assignedTo = submitted.assignedTo
      /\ new.reviewRound = submitted.reviewRound /\ new.status = submitted.status
      /\ new.completedBy = submitted.completedBy
      /\ new.reviewPhotoKeys = [submitted.reviewPhotoKeys EXCEPT ![submitted.reviewRound] = p]
  BY <1>1 DEF ChoreValues
<1> HIDE DEF new
<1>4. IsSubmitted(chore, n, new)
  BY <1>1, <1>3 DEF IsSubmitted
<1> QED
  BY <1>1, <1>2, <1>3, <1>4 DEF submitted, new

\* A chore whose assignee submits it: its next round is open and nobody has voted
\* in it, or it is done because there is nobody else. If the house was not written
\* since it was read, the assignee is one of its members.
LEMMA SubmittedReview ==
  ASSUME ReviewInv, NEW t \in Snapshots, Tracked(t),
         NEW writes, Apply(writes), NEW cs, DOMAIN writes = {ChoreDoc(e) : e \in cs},
         NEW c \in Chores, db[ChoreDoc(c)] \in ChoreValues, db[ChoreDoc(c)].status = "Progress",
         db[ChoreDoc(c)].reviewRound < MaxReviewRounds,
         NEW h, h = db[ChoreDoc(c)].houseId, NEW a, a = db[ChoreDoc(c)].assignedTo,
         IsMember(t.data, h, a), NEW n, n = Len(MemberIds(t.data, h)),
         NEW new \in ChoreValues, db'[ChoreDoc(c)] = new,
         IsSubmitted(db[ChoreDoc(c)], n, new)
  PROVE  /\ RoundsOK(db', c)
         /\ c \notin disturbed' => ReviewOK(db', c)
<1> DEFINE chore == db[ChoreDoc(c)]
           next == chore.reviewRound + 1
<1>1. chore.reviewRound \in Nat /\ h \in Houses /\ a \in Users
  BY ChoreFields
<1>2. next \in Rounds /\ next \in 0 .. MaxReviewRounds
  BY <1>1, RoundNumbers DEF Rounds
<1>3. a # "system" /\ a # ""
  BY <1>1, HouseholdAssumption
<1>4. /\ new.houseId = h /\ new.assignedTo = a /\ new.reviewRound = next
      /\ new.status = IF n <= 1 THEN "Completed" ELSE "InTest"
      /\ new.completedBy = IF n <= 1 THEN a ELSE ""
  BY DEF IsSubmitted
<1>6. RoundsOK(db, c) /\ Exists(db, ChoreDoc(c)) /\ new # Absent
  BY WhatExists DEF ReviewInv, Exists
<1>7. /\ \A r \in Rounds, b \in BOOLEAN : Votes(db', c, r, b) = Votes(db, c, r, b)
      /\ \A r \in Rounds : Blank(db', c, r) <=> Blank(db, c, r)
      /\ db'[HouseDoc(h)] = db[HouseDoc(h)]
  BY <1>1, OnlyChores
<1>8. ASSUME NEW r \in Rounds
      PROVE  /\ IsFiniteSet(Votes(db', c, r, TRUE))
             /\ r < next => Rejected(db', c, r)
             /\ r > next => Blank(db', c, r)
             /\ r = next => Blank(db', c, r)
  <2>1. /\ IsFiniteSet(Votes(db, c, r, TRUE))
        /\ r <= chore.reviewRound => Rejected(db, c, r)
        /\ r > chore.reviewRound => Blank(db, c, r)
    <3>1. r < chore.reviewRound \/ r = chore.reviewRound \/ r > chore.reviewRound
      BY <1>1, RoundNumbers
    <3>2. r <= chore.reviewRound <=> r < chore.reviewRound \/ r = chore.reviewRound
      BY <1>1, RoundNumbers
    <3> QED
      BY <1>6, <3>1, <3>2 DEF RoundsOK
  <2>2. /\ r < next => r <= chore.reviewRound
        /\ r >= next <=> r > chore.reviewRound
        /\ r > next => r >= next
        /\ r = next => r >= next
    BY <1>1, RoundNumbers
  <2>3. Rejected(db, c, r) => Rejected(db', c, r)
    BY <1>7 DEF Rejected
  <2> QED
    BY <1>7, <2>1, <2>2, <2>3
<1>9. Votes(db', c, next, TRUE) = {} /\ NotRejected(db', c, next)
  BY <1>2, <1>8, BlankVotes DEF NotRejected
<1>10. RoundsOK(db', c)
  <2>1. /\ new.status # "Draft" /\ new.status # "Progress" /\ new.completedBy # "system"
        /\ new.status # "Completed" => new.completedBy = ""
    BY <1>3, <1>4
  <2>2. \A r \in Rounds :
          /\ IsFiniteSet(Votes(db', c, r, TRUE))
          /\ r < next => Rejected(db', c, r)
          /\ r > next => Blank(db', c, r)
          /\ r = next => IF new.status = "Progress" \/ new.completedBy = "system"
                         THEN Rejected(db', c, r) ELSE NotRejected(db', c, r)
    BY <1>8, <1>9, <2>1
  <2> HIDE DEF next
  <2> QED
    BY <1>2, <1>4, <1>6, <2>1, <2>2, Zenon DEF RoundsOK
<1>11. ASSUME c \notin disturbed', UnderReview(db', c)
       PROVE  ReviewOK(db', c)
  <2>1. ~UnderReview(db, c)
    BY DEF UnderReview
  <2>2. Untouched(t, {HouseDoc(h)})
    BY <1>4, <1>11, <2>1, TrackedRounds
  <2>3. t.data[HouseDoc(h)] = db'[HouseDoc(h)]
    BY <1>1, <1>7, <2>2, SnapshotCurrent, DistinctDocuments DEF Untouched
  <2>4. HouseholdOf(db', c) = Members(t.data, h) /\ a \in Members(t.data, h)
    <3>1. db'[ChoreDoc(c)].houseId = h /\ Exists(db', HouseDoc(h))
      BY <1>4, <2>3 DEF IsMember, Exists
    <3>2. Members(db', h) = Members(t.data, h)
      BY <2>3 DEF Members, MemberIds
    <3> QED
      BY <3>1, <3>2 DEF HouseholdOf, IsMember
  <2>5. Reviewers(db', c) = Members(t.data, h) \ {a}
    BY <1>4, <2>4 DEF Reviewers
  <2>6. MemberIds(t.data, h) \in Seq(Users) /\ ListedOnce(MemberIds(t.data, h))
    <3>1. HouseSound(t.data, h) /\ Exists(t.data, HouseDoc(h))
      BY <1>1, SnapshotReads DEF ReviewInv, Reads, Sound, IsMember
    <3> QED
      BY <3>1 DEF HouseSound, HouseValues, MemberIds, Exists
  <2>7. IF n <= 1 THEN Members(t.data, h) \ {a} = {} ELSE Members(t.data, h) \ {a} # {}
    <3> DEFINE ids == MemberIds(t.data, h)
    <3>1. n = Len(ids) /\ n \in Nat /\ Members(t.data, h) = {ids[i] : i \in 1 .. n}
      BY <2>6 DEF Members
    <3>2. ListedOnce(ids) /\ a \in {ids[i] : i \in 1 .. n}
      BY <2>4, <2>6, <3>1
    <3> HIDE DEF ids
    <3>3. CASE n <= 1
      <4>1. \A i \in 1 .. n : i = 1
        BY <3>1, <3>3
      <4> QED
        BY <3>1, <3>2, <3>3, <4>1
    <3>4. CASE ~(n <= 1)
      <4>1. 1 \in 1 .. n /\ 2 \in 1 .. n
        BY <3>1, <3>4
      <4>2. ids[1] # ids[2]
        BY <3>1, <3>2, <4>1 DEF ListedOnce
      <4>3. ids[1] \in Members(t.data, h) /\ ids[2] \in Members(t.data, h)
        BY <3>1, <4>1
      <4> QED
        BY <3>4, <4>2, <4>3
    <3> QED
      BY <3>3, <3>4
  <2>8. db'[ChoreDoc(c)].assignedTo \in HouseholdOf(db', c)
    BY <1>4, <2>4
  <2> QED
    <3>1. CASE n <= 1
      <4>1. new.status = "Completed" /\ new.completedBy = a
        BY <1>4, <3>1
      <4> QED
        BY <1>4, <1>9, <2>5, <2>7, <2>8, <3>1, <4>1 DEF ReviewOK
    <3>2. CASE ~(n <= 1)
      <4>1. new.status = "InTest"
        BY <1>4, <3>2
      <4> QED
        BY <1>4, <1>9, <2>5, <2>7, <2>8, <3>2, <4>1 DEF ReviewOK
    <3> QED
      BY <3>1, <3>2
<1>12. ~UnderReview(db', c) => ReviewOK(db', c)
  BY DEF ReviewOK
<1> QED
  BY <1>10, <1>11, <1>12

\* The chores that move on together are each as they were read.
LEMMA UpdateChoreStatusReview ==
  ASSUME ReviewInv, HouseholdInv', NEW t \in Snapshots, Tracked(t), UNCHANGED objects,
         NEW u \in Users, NEW h \in Houses, NEW cs \in SUBSET Chores,
         UpdateChoreStatus(t, u, h, cs)
  PROVE  ReviewInv' /\ KeysStay
<1> DEFINE n == Len(MemberIds(t.data, h))
           writes == [d \in {ChoreDoc(c) : c \in cs} |-> Advanced(t.data[d], n)]
<1>1. DOMAIN writes = {ChoreDoc(c) : c \in cs}
  OBVIOUS
<1>2. Apply(writes) /\ Untouched(t, {ChoreDoc(c) : c \in cs})
  BY <1>1 DEF UpdateChoreStatus, Commit
<1>3. /\ IsMember(t.data, h, u)
      /\ \A c \in cs :
           /\ Exists(t.data, ChoreDoc(c)) /\ t.data[ChoreDoc(c)].houseId = h
           /\ CanAdvance(t.data[ChoreDoc(c)], u)
  BY DEF UpdateChoreStatus
<1>4. \A c \in cs : writes[ChoreDoc(c)] = Advanced(t.data[ChoreDoc(c)], n)
  OBVIOUS
<1> HIDE DEF writes, n
<1>5. ASSUME NEW c \in cs
      PROVE  /\ writes[ChoreDoc(c)] \in ChoreValues
             /\ RoundsOK(db', c)
             /\ c \notin disturbed' => ReviewOK(db', c)
             /\ Exists(db, ChoreDoc(c))
             /\ writes[ChoreDoc(c)].reviewPhotoKeys = db[ChoreDoc(c)].reviewPhotoKeys
  <2> DEFINE chore == db[ChoreDoc(c)]
             new == writes[ChoreDoc(c)]
  <2>1. Untouched(t, {ChoreDoc(c)})
    BY <1>2 DEF Untouched
  <2>2. t.data[ChoreDoc(c)] = chore /\ chore \in ChoreValues /\ Exists(db, ChoreDoc(c))
    BY <1>3, <2>1, ChoreRead
  <2>3. db'[ChoreDoc(c)] = new /\ new = Advanced(chore, n)
    BY <1>1, <1>2, <1>4, <2>2, After, DocumentNames
  <2>4. CanAdvance(chore, u) /\ chore.houseId = h /\ chore.assignedTo = u
    BY <1>3, <2>2 DEF CanAdvance
  <2>5. CASE chore.status = "Draft"
    <3>1. db'[ChoreDoc(c)] = [chore EXCEPT !.status = "Progress"]
      BY <2>3, <2>5 DEF Advanced
    <3>2. db'[ChoreDoc(c)].reviewPhotoKeys = chore.reviewPhotoKeys
      BY <2>2, <3>1 DEF ChoreValues
    <3> QED
      BY <1>1, <1>2, <2>2, <2>3, <2>5, <3>1, <3>2, StartedReview
  <2>6. CASE chore.status # "Draft"
    <3>1. chore.status = "Progress" /\ chore.reviewRound < MaxReviewRounds
      BY <2>4, <2>6 DEF CanAdvance
    <3>2. new = Submitted(chore, n)
      BY <2>3, <2>6 DEF Advanced
    <3> HIDE DEF chore, new
    <3>3. /\ new \in ChoreValues /\ IsSubmitted(chore, n, new)
          /\ new.reviewPhotoKeys = chore.reviewPhotoKeys
      BY <2>2, <3>1, <3>2, SubmittedFields
    <3> USE DEF chore, new
    <3>4. n = Len(MemberIds(t.data, h))
      BY DEF n
    <3> QED
      BY <1>1, <1>2, <1>3, <2>2, <2>3, <2>4, <3>1, <3>3, <3>4, SubmittedReview
  <2> QED
    BY <2>5, <2>6
<1>6. /\ ReviewInv'
      /\ \A c \in Chores \ cs : db'[ChoreDoc(c)] = db[ChoreDoc(c)]
      /\ \A c \in cs : db'[ChoreDoc(c)] = writes[ChoreDoc(c)]
  BY <1>1, <1>2, <1>5, ChoreWrites
<1>7. KeysStay
  BY <1>5, <1>6 DEF KeysStay, Exists
<1> QED
  BY <1>6, <1>7

\* The same with a photo.
LEMMA SubmitReview ==
  ASSUME ReviewInv, HouseholdInv', NEW t \in Snapshots, Tracked(t), UNCHANGED objects,
         NEW p \in Photos, NEW answered \in BOOLEAN, SubmitReviewPhoto(t, p, answered),
         upload[p].choreId \in Chores
  PROVE  /\ ReviewInv'
         /\ \A e \in Chores \ {upload[p].choreId} : db'[ChoreDoc(e)] = db[ChoreDoc(e)]
         /\ LET c == upload[p].choreId IN
            /\ Exists(db, ChoreDoc(c))
            /\ \A r \in Rounds : db'[ChoreDoc(c)].reviewPhotoKeys[r]
                                  \in {db[ChoreDoc(c)].reviewPhotoKeys[r], p}
<1> DEFINE s == t.data
           u == upload[p].by
           c == upload[p].choreId
           chore == s[ChoreDoc(c)]
           n == Len(MemberIds(s, chore.houseId))
           submitted == Submitted(chore, n)
           new == [submitted EXCEPT !.reviewPhotoKeys[submitted.reviewRound] = p]
           writes == Write(ChoreDoc(c), new)
           cs == {c}
<1>1. /\ Exists(s, ChoreDoc(c)) /\ IsMember(s, chore.houseId, u)
      /\ chore.status = "Progress" /\ CanAdvance(chore, u)
  BY DEF SubmitReviewPhoto
<1>2. Apply(writes) /\ Untouched(t, {ChoreDoc(c)})
  BY DEF SubmitReviewPhoto, Commit, Write
<1>3. chore = db[ChoreDoc(c)] /\ chore \in ChoreValues /\ Exists(db, ChoreDoc(c))
  BY <1>1, <1>2, ChoreRead
<1>4. chore.reviewRound < MaxReviewRounds /\ chore.assignedTo = u
  BY <1>1 DEF CanAdvance
<1>5. /\ new \in ChoreValues /\ IsSubmitted(chore, n, new)
      /\ new.reviewPhotoKeys = [chore.reviewPhotoKeys EXCEPT ![submitted.reviewRound] = p]
  <2> HIDE DEF chore, n
  <2> QED
    BY <1>3, <1>4, SubmittedWithPhoto
<1>6. /\ cs \in SUBSET Chores /\ DOMAIN writes = {ChoreDoc(e) : e \in cs}
      /\ writes[ChoreDoc(c)] = new
  BY DEF Write
<1> HIDE DEF new, writes, submitted
<1>7. db'[ChoreDoc(c)] = new
  <2>1. ChoreDoc(c) \in DOMAIN writes
    BY <1>6
  <2> QED
    BY <1>2, <1>6, <2>1, After, DocumentNames
<1>8. RoundsOK(db', c) /\ (c \notin disturbed' => ReviewOK(db', c))
  <2>1. IsMember(s, db[ChoreDoc(c)].houseId, db[ChoreDoc(c)].assignedTo)
    BY <1>1, <1>3, <1>4
  <2>2. n = Len(MemberIds(s, db[ChoreDoc(c)].houseId)) /\ IsSubmitted(db[ChoreDoc(c)], n, new)
    BY <1>3, <1>5
  <2>3. /\ db[ChoreDoc(c)] \in ChoreValues /\ db[ChoreDoc(c)].status = "Progress"
        /\ db[ChoreDoc(c)].reviewRound < MaxReviewRounds
    BY <1>1, <1>3, <1>4
  <2>4. Apply(writes) /\ DOMAIN writes = {ChoreDoc(e) : e \in cs}
    BY <1>2, <1>6
  <2> HIDE DEF s, u, c, chore, n, cs
  <2>5. c \in Chores
    BY DEF c
  <2> QED
    BY <1>5, <1>7, <2>1, <2>2, <2>3, <2>4, <2>5, SubmittedReview DEF s
<1>9. \A e \in cs : /\ writes[ChoreDoc(e)] \in ChoreValues
                    /\ RoundsOK(db', e)
                    /\ e \notin disturbed' => ReviewOK(db', e)
  BY <1>5, <1>6, <1>8
<1>10. \A r \in Rounds : new.reviewPhotoKeys[r] \in {chore.reviewPhotoKeys[r], p}
  <2> HIDE DEF chore
  <2>1. chore.reviewPhotoKeys \in [Rounds -> Photos \cup {"none"}]
    BY <1>3, ChoreFields
  <2> QED
    BY <1>5, <2>1
<1> HIDE DEF cs
<1>11. ReviewInv' /\ \A e \in Chores \ cs : db'[ChoreDoc(e)] = db[ChoreDoc(e)]
  BY <1>2, <1>6, <1>9, ChoreWrites
<1> QED
  BY <1>3, <1>7, <1>10, <1>11 DEF cs

-----------------------------------------------------------------------------
\* A vote is the only change of a chore's votes.
LEMMA OneVote ==
  ASSUME ReviewInv, NEW writes, Apply(writes), NEW c \in Chores, NEW q \in Rounds, NEW u \in Users,
         NEW b \in BOOLEAN,
         DOMAIN writes = {ChoreDoc(c), VoteDoc(c, q, u)},
         writes[VoteDoc(c, q, u)] = [isApproved |-> b],
         db[VoteDoc(c, q, u)] = Absent
  PROVE  /\ \A r \in Rounds \ {q} : /\ Blank(db', c, r) <=> Blank(db, c, r)
                                    /\ \A a \in BOOLEAN : Votes(db', c, r, a) = Votes(db, c, r, a)
         /\ Votes(db', c, q, b) = Votes(db, c, q, b) \cup {u}
         /\ \A a \in BOOLEAN \ {b} : Votes(db', c, q, a) = Votes(db, c, q, a)
         /\ \A h \in Houses : db'[HouseDoc(h)] = db[HouseDoc(h)]
<1>1. \A r \in Rounds, v \in Users : r # q \/ v # u => db'[VoteDoc(c, r, v)] = db[VoteDoc(c, r, v)]
  BY After, DocumentNames
<1>2. db'[VoteDoc(c, q, u)] = [isApproved |-> b]
  <2>1. VoteDoc(c, q, u) \in DOMAIN writes
    OBVIOUS
  <2> QED
    BY <2>1, After, DocumentNames
<1>3. \A h \in Houses : db'[HouseDoc(h)] = db[HouseDoc(h)]
  BY After, DocumentNames, DistinctDocuments
<1>4. \A r \in Rounds \ {q} : /\ Blank(db', c, r) <=> Blank(db, c, r)
                              /\ \A a \in BOOLEAN : Votes(db', c, r, a) = Votes(db, c, r, a)
  BY <1>1 DEF Blank, Votes
<1>5. \A a \in BOOLEAN : [isApproved |-> a] # Absent /\ ([isApproved |-> a] = [isApproved |-> b] <=> a = b)
  <2>1. \A a \in BOOLEAN : [isApproved |-> a].isApproved = a
    OBVIOUS
  <2> QED
    BY <2>1, WhatExists
<1>6. \A a \in BOOLEAN, v \in Users :
        v \in Votes(db', c, q, a) <=> v \in Votes(db, c, q, a) \/ (a = b /\ v = u)
  BY <1>1, <1>2, <1>5 DEF Votes
<1>7. \A s, a : Votes(s, c, q, a) \subseteq Users
  BY DEF Votes
<1>8. Votes(db', c, q, b) = Votes(db, c, q, b) \cup {u}
  BY <1>6, <1>7
<1>9. \A a \in BOOLEAN \ {b} : Votes(db', c, q, a) = Votes(db, c, q, a)
  BY <1>6, <1>7
<1> QED
  BY <1>3, <1>4, <1>8, <1>9

\* A house has finitely many members.
LEMMA ListedOnceIsFinite ==
  ASSUME NEW members \in Seq(Users)
  PROVE  IsFiniteSet({members[i] : i \in 1 .. Len(members)})
<1> DEFINE n == Len(members)
           listed == {members[i] : i \in 1 .. n}
<1>1. n \in Nat /\ IsFiniteSet(1 .. n)
  BY FS_Interval
<1>2. members \in Surjection(1 .. n, listed)
  BY DEF Surjection
<1> QED
  BY <1>1, <1>2, FS_Surjection

\* What a vote does to a chore that is under review.
IsReviewed(chore, b, k, n, new) ==
  /\ new \in ChoreValues
  /\ new.houseId = chore.houseId /\ new.assignedTo = chore.assignedTo
  /\ new.reviewRound = chore.reviewRound /\ new.reviewPhotoKeys = chore.reviewPhotoKeys
  /\ ~b => IF chore.reviewRound < MaxReviewRounds
           THEN new.status = "Progress" /\ new.completedBy = ""
           ELSE new.status = "Completed" /\ new.completedBy = "system"
  /\ b => IF k < n - 1
          THEN new.status = chore.status /\ new.completedBy = chore.completedBy
          ELSE new.status = "Completed" /\ new.completedBy = chore.assignedTo

\* That is what Reviewed does.
LEMMA ReviewedFields ==
  ASSUME NEW chore \in ChoreValues, NEW b \in BOOLEAN, NEW k \in Nat, NEW n \in Nat
  PROVE  IsReviewed(chore, b, k, n, Reviewed(chore, b, k, n))
<1> DEFINE new == Reviewed(chore, b, k, n)
<1> SUFFICES IsReviewed(chore, b, k, n, new)
  OBVIOUS
<1>1. chore.reviewRound \in Nat /\ MaxReviewRounds \in Nat
  BY ChoreFields, RoundNumbers
<1>2. CASE ~b /\ chore.reviewRound < MaxReviewRounds
  <2>1. ~(chore.reviewRound >= MaxReviewRounds)
    BY <1>1, <1>2
  <2>2. new = [chore EXCEPT !.status = "Progress", !.completedBy = ""]
    BY <1>2, <2>1 DEF Reviewed
  <2>3. new \in ChoreValues
    BY <2>2 DEF ChoreValues
  <2> HIDE DEF new
  <2> QED
    BY <1>2, <2>2, <2>3 DEF ChoreValues, IsReviewed
<1>3. CASE ~b /\ ~(chore.reviewRound < MaxReviewRounds)
  <2>1. chore.reviewRound >= MaxReviewRounds
    BY <1>1, <1>3
  <2>2. new = [chore EXCEPT !.status = "Completed", !.completedBy = "system"]
    BY <1>3, <2>1 DEF Reviewed
  <2>3. new \in ChoreValues
    BY <2>2 DEF ChoreValues
  <2> HIDE DEF new
  <2> QED
    BY <1>3, <2>2, <2>3 DEF ChoreValues, IsReviewed
<1>4. CASE b /\ k < n - 1
  <2>1. ~(k >= n - 1)
    BY <1>4
  <2>2. new = chore
    BY <1>4, <2>1 DEF Reviewed
  <2> HIDE DEF new
  <2> QED
    BY <1>4, <2>2 DEF IsReviewed
<1>5. CASE b /\ ~(k < n - 1)
  <2>1. k >= n - 1
    BY <1>5
  <2>2. new = [chore EXCEPT !.status = "Completed", !.completedBy = chore.assignedTo]
    BY <1>5, <2>1 DEF Reviewed
  <2>3. new \in ChoreValues
    BY <2>2, ChoreFields DEF ChoreValues
  <2> HIDE DEF new
  <2> QED
    BY <1>5, <2>2, <2>3 DEF ChoreValues, IsReviewed
<1> QED
  BY <1>2, <1>3, <1>4, <1>5

\* A review is decided by the last of the others. The chore is the one that was
\* read, so all of its votes were read; and the household was read as it is, unless
\* it has changed since the round was opened.
LEMMA ReviewChoreReview ==
  ASSUME ReviewInv, HouseholdInv', NEW t \in Snapshots, Tracked(t), UNCHANGED objects,
         NEW u \in Users, NEW c \in Chores, NEW b \in BOOLEAN, ReviewChore(t, u, c, b)
  PROVE  ReviewInv' /\ KeysStay
<1> DEFINE s == t.data
           chore == s[ChoreDoc(c)]
           q == chore.reviewRound
           approvals == Votes(s, c, q, TRUE) \cup {u}
           k == Cardinality(approvals)
           n == Len(MemberIds(s, chore.houseId))
           new == Reviewed(chore, b, k, n)
           vote == VoteDoc(c, q, u)
           writes == Write(ChoreDoc(c), new) ++ Write(vote, [isApproved |-> b])
<1>1. /\ Exists(s, ChoreDoc(c)) /\ chore.status = "InTest"
      /\ IsMember(s, chore.houseId, u) /\ chore.assignedTo # u
      /\ ~Exists(s, vote)
      /\ Commit(t, writes)
  BY DEF ReviewChore
<1>2. /\ DOMAIN writes = {ChoreDoc(c), vote}
      /\ writes[ChoreDoc(c)] = new /\ writes[vote] = [isApproved |-> b]
  <2> HIDE DEF new, q
  <2> QED
    BY DocumentNames DEF Write, ++
<1> HIDE DEF writes, vote
<1>3. Apply(writes) /\ Untouched(t, {ChoreDoc(c)}) /\ Untouched(t, {vote})
  BY <1>1, <1>2 DEF Commit, Untouched
<1>4. chore = db[ChoreDoc(c)] /\ chore \in ChoreValues /\ Exists(db, ChoreDoc(c))
  BY <1>1, <1>3, ChoreRead
<1> HIDE DEF chore
<1>5. RoundsOK(db, c) /\ UnderReview(db, c)
  BY <1>1, <1>4 DEF ReviewInv, UnderReview
<1>6. q \in Rounds /\ chore.completedBy = "" /\ NotRejected(db, c, q) /\ IsFiniteSet(Votes(db, c, q, TRUE))
  <2>1. q \in Rounds /\ chore.completedBy = ""
    BY <1>1, <1>4, <1>5 DEF RoundsOK
  <2> QED
    BY <1>1, <1>4, <1>5, <2>1 DEF RoundsOK
<1>7. ReadsReview(s, t.wrote, db, disturbed) /\ ChoreDoc(c) \notin t.wrote
  BY <1>3, SnapshotReview DEF Untouched
<1>8. \A r \in Rounds, v \in Users : s[VoteDoc(c, r, v)] = db[VoteDoc(c, r, v)]
  BY <1>7, SnapshotCurrent, DocumentNames DEF ReadsReview
<1> HIDE DEF q
<1>9. Votes(s, c, q, TRUE) = Votes(db, c, q, TRUE)
  BY <1>6, <1>8 DEF Votes
<1>10. db[vote] = Absent
  <2>1. s[vote] \in {Absent, Deleted} /\ s[vote] = db[vote]
    BY <1>1, <1>6, <1>8 DEF Exists, vote
  <2>2. db[vote] \in [isApproved : BOOLEAN] \cup {Absent}
    BY <1>6 DEF ReviewInv, DocumentsOK, vote
  <2>3. Deleted \notin [isApproved : BOOLEAN]
    BY NoContentAssumption
  <2> QED
    BY <2>1, <2>2, <2>3
<1>11. IsFiniteSet(approvals) /\ k \in Nat
  BY <1>6, <1>9, FS_AddElement, FS_CardinalityType
<1>12. n \in Nat /\ MemberIds(s, chore.houseId) \in Seq(Users) /\ ListedOnce(MemberIds(s, chore.houseId))
  <2>1. chore.houseId \in Houses
    BY <1>4, ChoreFields
  <2>2. HouseSound(s, chore.houseId) /\ Exists(s, HouseDoc(chore.houseId))
    BY <1>1, <2>1, SnapshotReads DEF ReviewInv, Reads, Sound, IsMember
  <2> QED
    BY <2>2 DEF HouseSound, HouseValues, MemberIds, Exists
<1> HIDE DEF k, n
<1>13. /\ new \in ChoreValues
       /\ new.houseId = chore.houseId /\ new.assignedTo = chore.assignedTo /\ new.reviewRound = q
       /\ new.reviewPhotoKeys = chore.reviewPhotoKeys
       /\ ~b => IF q < MaxReviewRounds
                THEN new.status = "Progress" /\ new.completedBy = ""
                ELSE new.status = "Completed" /\ new.completedBy = "system"
       /\ b => IF k < n - 1
               THEN new.status = "InTest" /\ new.completedBy = ""
               ELSE new.status = "Completed" /\ new.completedBy = chore.assignedTo
  <2> HIDE DEF new
  <2>1. new = Reviewed(chore, b, k, n) /\ chore \in ChoreValues /\ k \in Nat /\ n \in Nat
    BY <1>4, <1>11, <1>12 DEF new
  <2>2. IsReviewed(chore, b, k, n, new)
    BY <2>1, ReviewedFields
  <2>3. chore.status = "InTest" /\ chore.completedBy = "" /\ q = chore.reviewRound
    BY <1>1, <1>6 DEF q
  <2> QED
    BY <2>2, <2>3 DEF IsReviewed
<1> HIDE DEF new
<1>14. db'[ChoreDoc(c)] = new
  <2>1. ChoreDoc(c) \in DOMAIN writes
    BY <1>2
  <2> QED
    BY <1>2, <1>3, <2>1, After, DocumentNames
<1>15. /\ \A r \in Rounds \ {q} : /\ Blank(db', c, r) <=> Blank(db, c, r)
                                  /\ \A a \in BOOLEAN : Votes(db', c, r, a) = Votes(db, c, r, a)
       /\ Votes(db', c, q, b) = Votes(db, c, q, b) \cup {u}
       /\ \A a \in BOOLEAN \ {b} : Votes(db', c, q, a) = Votes(db, c, q, a)
       /\ \A h \in Houses : db'[HouseDoc(h)] = db[HouseDoc(h)]
  <2>1. /\ DOMAIN writes = {ChoreDoc(c), VoteDoc(c, q, u)}
        /\ writes[VoteDoc(c, q, u)] = [isApproved |-> b]
        /\ db[VoteDoc(c, q, u)] = Absent
        /\ Apply(writes) /\ q \in Rounds
    BY <1>2, <1>3, <1>6, <1>10 DEF vote
  <2> QED
    BY <2>1, OneVote
<1>16. RoundsOK(db', c)
  <2>1. /\ ~b => Votes(db', c, q, FALSE) = {u} /\ Votes(db', c, q, TRUE) = Votes(db, c, q, TRUE)
        /\ b => Votes(db', c, q, FALSE) = {} /\ Votes(db', c, q, TRUE) = approvals
    BY <1>6, <1>9, <1>15 DEF NotRejected
  <2>2. ASSUME NEW r \in Rounds, r # q
        PROVE  /\ IsFiniteSet(Votes(db', c, r, TRUE))
               /\ r < q => Rejected(db', c, r)
               /\ r > q => Blank(db', c, r)
    <3>1. /\ IsFiniteSet(Votes(db, c, r, TRUE))
          /\ r < q => Rejected(db, c, r)
          /\ r > q => Blank(db, c, r)
      BY <1>4, <1>5 DEF RoundsOK, q
    <3> QED
      BY <1>15, <2>2, <3>1 DEF Rejected
  <2>3. ~(q < q) /\ ~(q > q)
    <3>1. q \in Nat
      BY <1>6, RoundNumbers
    <3> QED
      BY <3>1
  <2>4. chore.assignedTo # "system"
    BY <1>4, ChoreFields, HouseholdAssumption
  <2>5. /\ IsFiniteSet(Votes(db', c, q, TRUE))
        /\ IF new.status = "Progress" \/ new.completedBy = "system"
           THEN Rejected(db', c, q) ELSE NotRejected(db', c, q)
    <3>1. CASE ~b
      <4>1. new.status = "Progress" \/ new.completedBy = "system"
        BY <1>13, <3>1
      <4> QED
        BY <1>6, <2>1, <3>1, <4>1 DEF Rejected
    <3>2. CASE b
      <4>1. new.status # "Progress" /\ new.completedBy # "system"
        BY <1>13, <2>4, <3>2
      <4> QED
        BY <1>11, <2>1, <3>2, <4>1 DEF NotRejected
    <3> QED
      BY <3>1, <3>2
  <2>6. new.status # "Draft" /\ (new.status # "Completed" => new.completedBy = "")
    BY <1>13
  <2>7. new # Absent
    BY <1>13, WhatExists
  <2>8. \A r \in Rounds :
          /\ IsFiniteSet(Votes(db', c, r, TRUE))
          /\ r < q => Rejected(db', c, r)
          /\ r > q => Blank(db', c, r)
          /\ r = q => IF new.status = "Progress" \/ new.completedBy = "system"
                      THEN Rejected(db', c, r) ELSE NotRejected(db', c, r)
    BY <2>2, <2>3, <2>5
  <2> QED
    BY <1>6, <1>13, <1>14, <2>6, <2>7, <2>8, Zenon DEF RoundsOK
<1>17. ASSUME c \notin disturbed', UnderReview(db', c)
       PROVE  ReviewOK(db', c)
  <2> DEFINE house == HouseholdOf(db, c)
             a == chore.assignedTo
  <2>1. /\ c \notin disturbed /\ HouseholdOf(db', c) = house
        /\ new.status \in {"InTest", "Completed"}
    BY <1>5, <1>14, <1>17, TrackedRounds DEF UnderReview
  <2>2. HouseholdOf(s, c) = house
    BY <1>5, <1>7, <2>1 DEF ReadsReview
  <2>3. house = Members(s, chore.houseId) /\ u \in house
    BY <1>1, <2>2 DEF HouseholdOf, IsMember, chore
  <2>4. a \in house /\ Votes(db, c, q, TRUE) \subseteq house \ {a}
    <3>1. ReviewOK(db, c)
      BY <2>1 DEF ReviewInv
    <3> QED
      BY <1>1, <1>4, <1>5, <3>1 DEF ReviewOK, Reviewers, q
  <2>5. IsFiniteSet(house) /\ Cardinality(house) = n
    BY <1>12, <2>3, ListedOnceCounts, ListedOnceIsFinite DEF Members, n
  <2> HIDE DEF house, a
  <2>6. Reviewers(db', c) = house \ {a} /\ a \in HouseholdOf(db', c)
    BY <1>13, <1>14, <2>1, <2>4 DEF Reviewers, a
  <2>7. IsFiniteSet(house \ {a}) /\ Cardinality(house \ {a}) = n - 1
    BY <2>4, <2>5, FS_RemoveElement
  <2>8. approvals \subseteq house \ {a}
    BY <1>1, <1>9, <2>3, <2>4 DEF a
  <2>9. CASE ~b
    <3>1. new.status = "Completed" /\ new.completedBy = "system"
      BY <1>13, <2>1, <2>9
    <3> QED
      BY <1>13, <1>14, <2>6, <3>1 DEF ReviewOK, a
  <2>10. CASE b
    <3>1. Votes(db', c, q, TRUE) = approvals
      BY <1>9, <1>15, <2>10
    <3>2. CASE k < n - 1
      <4>1. approvals # house \ {a}
        <5>1. approvals = house \ {a} => k = n - 1
          BY <2>7 DEF k
        <5>2. k # n - 1
          BY <1>11, <1>12, <3>2
        <5> QED
          BY <5>1, <5>2
      <4>2. new.status = "InTest"
        BY <1>13, <2>10, <3>2
      <4> QED
        BY <1>13, <1>14, <2>6, <2>8, <3>1, <4>1, <4>2 DEF ReviewOK, a
    <3>3. CASE ~(k < n - 1)
      <4>1. approvals = house \ {a}
        <5>1. k <= n - 1
          BY <2>7, <2>8, FS_Subset DEF k
        <5>2. k = n - 1
          BY <1>11, <1>12, <3>3, <5>1
        <5> QED
          BY <2>7, <2>8, <5>2, FS_Subset DEF k
      <4>2. new.status = "Completed" /\ new.completedBy = a
        BY <1>13, <2>10, <3>3 DEF a
      <4> QED
        BY <1>13, <1>14, <2>6, <3>1, <4>1, <4>2 DEF ReviewOK, a
    <3> QED
      BY <3>2, <3>3
  <2> QED
    BY <2>9, <2>10
<1>18. ~UnderReview(db', c) => ReviewOK(db', c)
  BY DEF ReviewOK
<1>19. \A e \in Chores : ChoreDoc(e) \in DOMAIN writes => e = c
  BY <1>2, DocumentNames DEF vote
<1>20. \A e \in Chores, r \in Rounds, v \in Users : VoteDoc(e, r, v) \in DOMAIN writes =>
         /\ VoteDoc(e, r, v) = vote
         /\ ChoreDoc(e) \in DOMAIN writes
  BY <1>2, DocumentNames DEF vote
<1>21. TypedWrites(writes)
  <2>1. DOMAIN writes \subseteq Documents
    <3>1. ChoreDoc(c) \in Documents /\ vote \in Documents
      BY <1>6, DocumentNames DEF vote
    <3> QED
      BY <1>2, <3>1
  <2>2. \A h \in Houses : InviteDoc(h) \notin DOMAIN writes
    BY <1>2, DocumentNames DEF vote
  <2>3. writes[vote] \in [isApproved : BOOLEAN]
    BY <1>2
  <2> QED
    BY <1>2, <1>13, <1>19, <1>20, <2>1, <2>2, <2>3 DEF TypedWrites
<1>22. objects' \subseteq Photos
  BY DEF ReviewInv
<1>23. KeysStay
  <2>1. \A e \in Chores \ {c} : db'[ChoreDoc(e)] = db[ChoreDoc(e)]
    BY <1>3, <1>19, After, DocumentNames
  <2>2. Exists(db, ChoreDoc(c)) /\ db'[ChoreDoc(c)].reviewPhotoKeys = db[ChoreDoc(c)].reviewPhotoKeys
    BY <1>4, <1>13, <1>14
  <2> QED
    BY <2>1, <2>2 DEF KeysStay, Exists
<1> QED
  BY <1>3, <1>16, <1>17, <1>18, <1>19, <1>20, <1>21, <1>22, <1>23, ReviewStep

\* Whoever reassigns a chore under review disturbs its review.
LEMMA ReassignReview ==
  ASSUME ReviewInv, HouseholdInv', ReassignStep
  PROVE  ReviewInv' /\ KeysStay
<1>1. PICK t \in Snapshots, later \in Snapshots, u \in Users, a \in Users, c \in Chores :
        UpdateChore(t, later, u, c, a) /\ Tracked(t) /\ UNCHANGED objects
  BY DEF ReassignStep
<1> DEFINE chore == db[ChoreDoc(c)]
           new == [chore EXCEPT !.assignedTo = a]
           writes == Write(ChoreDoc(c), new)
           cs == {c}
<1>2. Untouched(t, {ChoreDoc(c)}) /\ Exists(t.data, ChoreDoc(c))
  BY <1>1 DEF UpdateChore
<1>3. t.data[ChoreDoc(c)] = chore /\ chore \in ChoreValues /\ Exists(db, ChoreDoc(c))
  BY <1>2, ChoreRead
<1>4. Apply(writes) /\ a # chore.assignedTo
  BY <1>1, <1>3 DEF UpdateChore
<1>5. /\ new \in ChoreValues /\ new.assignedTo = a
      /\ new.status = chore.status /\ new.reviewRound = chore.reviewRound
      /\ new.completedBy = chore.completedBy /\ new.reviewPhotoKeys = chore.reviewPhotoKeys
  BY <1>3 DEF ChoreValues
<1>6. /\ cs \in SUBSET Chores /\ DOMAIN writes = {ChoreDoc(e) : e \in cs}
      /\ writes[ChoreDoc(c)] = new /\ ChoreDoc(c) \in DOMAIN writes
  BY DEF Write
<1> HIDE DEF new, writes
<1>7. db'[ChoreDoc(c)] = new
  BY <1>4, <1>6, After, DocumentNames
<1>8. RoundsOK(db', c)
  <2>1. /\ \A r \in Rounds, b \in BOOLEAN : Votes(db', c, r, b) = Votes(db, c, r, b)
        /\ \A r \in Rounds : Blank(db', c, r) <=> Blank(db, c, r)
    <3> HIDE DEF cs
    <3> QED
      BY <1>4, <1>6, OnlyChores
  <2>2. RoundsOK(db, c) /\ new # Absent
    BY <1>5, WhatExists DEF ReviewInv
  <2> QED
    BY <1>3, <1>5, <1>7, <2>1, <2>2 DEF RoundsOK, Rejected, NotRejected
<1>9. c \notin disturbed' => ReviewOK(db', c)
  <2>1. UnderReview(db', c) => UnderReview(db, c)
    BY <1>3, <1>5, <1>7 DEF UnderReview
  <2>2. db'[ChoreDoc(c)].assignedTo # db[ChoreDoc(c)].assignedTo
    BY <1>4, <1>5, <1>7
  <2>3. UnderReview(db', c) => c \in disturbed'
    BY <1>1, <2>1, <2>2, TrackedRounds
  <2> QED
    BY <2>3 DEF ReviewOK
<1>10. \A e \in cs : /\ writes[ChoreDoc(e)] \in ChoreValues
                     /\ RoundsOK(db', e)
                     /\ e \notin disturbed' => ReviewOK(db', e)
  BY <1>5, <1>6, <1>8, <1>9
<1> HIDE DEF cs
<1>11. ReviewInv' /\ \A e \in Chores \ cs : db'[ChoreDoc(e)] = db[ChoreDoc(e)]
  BY <1>1, <1>4, <1>6, <1>10, ChoreWrites
<1>12. KeysStay
  BY <1>3, <1>5, <1>7, <1>11 DEF KeysStay, Exists, cs
<1> QED
  BY <1>11, <1>12

-----------------------------------------------------------------------------
\* What is remembered of a photo's request.
LEMMA UploadFields ==
  /\ \A v \in UploadValues : v.state = "none" \/ v.state \in UploadStates
  /\ \A v \in UploadValues : v.state # "none" =>
       /\ v.by \in Users /\ v.choreId \in Chores
       /\ \A st \in UploadStates :
            [v EXCEPT !.state = st] \in UploadValues /\ [v EXCEPT !.state = st].state = st
BY DEF UploadValues, UploadStates

\* A step that leaves photos and their requests alone.
LEMMA PhotosKept ==
  ASSUME ReviewInv, ReviewInv', PhotoInv, KeysStay, UNCHANGED <<objects, upload>>
  PROVE  PhotoInv'
<1>1. ASSUME NEW c \in Chores, Exists(db', ChoreDoc(c)), NEW p \in StoredKeys(c)'
      PROVE  p \in Photos /\ upload[p].state \in {"unanswered", "kept", "lost"}
  <2>1. PICK r \in Rounds : p = db'[ChoreDoc(c)].reviewPhotoKeys[r] /\ p # "none"
    BY <1>1 DEF StoredKeys
  <2>2. Exists(db, ChoreDoc(c)) /\ p = db[ChoreDoc(c)].reviewPhotoKeys[r]
    BY <1>1, <2>1 DEF KeysStay
  <2>3. p \in StoredKeys(c)
    BY <2>1, <2>2 DEF StoredKeys
  <2> QED
    BY <2>2, <2>3 DEF PhotoInv
<1>2. \A c \in Chores : Exists(db, ChoreDoc(c))' =>
        \A p \in StoredKeys(c)' : p \in Photos /\ upload'[p].state \in {"unanswered", "kept", "lost"}
  BY <1>1 DEF Exists
<1> QED
  BY <1>2 DEF PhotoInv

\* The requests of one photo at a time go on.
LEMMA PhotoStepPhotos ==
  ASSUME ReviewInv, HouseholdInv', PhotoInv, PhotoStep
  PROVE  ReviewInv' /\ PhotoInv'
<1>1. CASE \E t \in Snapshots, p \in Photos, later \in Snapshots, u \in Users, h \in Houses,
            c \in Chores : /\ UploadReviewPhoto(t, later, u, h, c, p)
                           /\ UNCHANGED <<db, past, changes, disturbed>>
  <2>0. PICK t \in Snapshots, p \in Photos, later \in Snapshots, u \in Users, h \in Houses,
             c \in Chores : /\ UploadReviewPhoto(t, later, u, h, c, p)
                            /\ UNCHANGED <<db, past, changes, disturbed>>
    BY <1>1, Zenon
  <2>1. /\ upload[p].state = "none" /\ objects' = objects \cup {p}
        /\ upload' = [upload EXCEPT ![p] = [state |-> "stored", by |-> u, choreId |-> c]]
        /\ UNCHANGED <<db, past, disturbed>>
    BY <2>0 DEF UploadReviewPhoto
  <2>2. ReviewInv'
    BY <2>1 DEF ReviewInv
  <2> DEFINE new == [state |-> "stored", by |-> u, choreId |-> c]
  <2>3. new \in UploadValues /\ new.state = "stored"
    BY DEF UploadValues, UploadStates
  <2> HIDE DEF new
  <2>4. /\ upload' \in [Photos -> UploadValues] /\ upload'[p] = new
        /\ \A q \in Photos \ {p} : upload'[q] = upload[q]
    BY <2>1, <2>3 DEF PhotoInv, new
  <2>5. \A q \in Photos : upload'[q].state \in {"stored", "unanswered", "kept"} => q \in objects'
    BY <2>1, <2>4 DEF PhotoInv
  <2>6. ASSUME NEW e \in Chores, Exists(db', ChoreDoc(e)), NEW q \in StoredKeys(e)'
        PROVE  q \in Photos /\ upload'[q].state \in {"unanswered", "kept", "lost"}
    <3>1. q \in StoredKeys(e) /\ Exists(db, ChoreDoc(e))
      BY <2>1, <2>6 DEF StoredKeys
    <3>2. q \in Photos /\ upload[q].state \in {"unanswered", "kept", "lost"}
      BY <3>1 DEF PhotoInv
    <3> QED
      BY <2>1, <2>4, <3>2
  <2>7. \A e \in Chores : Exists(db, ChoreDoc(e))' =>
          \A q \in StoredKeys(e)' : q \in Photos /\ upload'[q].state \in {"unanswered", "kept", "lost"}
    BY <2>6 DEF Exists
  <2> QED
    BY <2>2, <2>4, <2>5, <2>7 DEF PhotoInv
<1>2. CASE \E t \in Snapshots, p \in Photos, answered \in BOOLEAN :
            SubmitReviewPhoto(t, p, answered) /\ Tracked(t) /\ UNCHANGED <<objects, changes>>
  <2>1. PICK t \in Snapshots, p \in Photos, answered \in BOOLEAN :
          SubmitReviewPhoto(t, p, answered) /\ Tracked(t) /\ UNCHANGED objects
    BY <1>2
  <2> DEFINE c == upload[p].choreId
             state == IF answered THEN "kept" ELSE "unanswered"
             new == [upload[p] EXCEPT !.state = state]
  <2>2. upload[p].state = "stored" /\ upload' = [upload EXCEPT ![p].state = state]
    BY <2>1 DEF SubmitReviewPhoto
  <2>3. upload[p] \in UploadValues /\ upload[p].state # "none" /\ state \in UploadStates
        /\ state \in {"unanswered", "kept"}
    BY <2>2 DEF PhotoInv, UploadStates
  <2>4. c \in Chores /\ new \in UploadValues /\ new.state = state
    BY <2>3, UploadFields
  <2>5. /\ ReviewInv'
        /\ \A e \in Chores \ {c} : db'[ChoreDoc(e)] = db[ChoreDoc(e)]
        /\ Exists(db, ChoreDoc(c))
        /\ \A r \in Rounds : db'[ChoreDoc(c)].reviewPhotoKeys[r]
                              \in {db[ChoreDoc(c)].reviewPhotoKeys[r], p}
    BY <2>1, <2>4, SubmitReview
  <2>6. upload' = [upload EXCEPT ![p] = new]
    BY <2>2
  <2> HIDE DEF new, state, c
  <2>7. /\ upload' \in [Photos -> UploadValues] /\ upload'[p] = new
        /\ \A q \in Photos \ {p} : upload'[q] = upload[q]
    BY <2>4, <2>6 DEF PhotoInv
  <2>8. \A q \in Photos : upload'[q].state \in {"stored", "unanswered", "kept"} => q \in objects'
    BY <2>1, <2>2, <2>7 DEF PhotoInv
  <2>9. ASSUME NEW e \in Chores, Exists(db', ChoreDoc(e)), NEW q \in StoredKeys(e)'
        PROVE  q \in Photos /\ upload'[q].state \in {"unanswered", "kept", "lost"}
    <3>1. PICK r \in Rounds : q = db'[ChoreDoc(e)].reviewPhotoKeys[r] /\ q # "none"
      BY <2>9 DEF StoredKeys
    <3>2. CASE q = p
      BY <2>3, <2>4, <2>7, <3>2
    <3>3. CASE q # p
      <4>1. Exists(db, ChoreDoc(e)) /\ q = db[ChoreDoc(e)].reviewPhotoKeys[r]
        BY <2>5, <2>9, <3>1, <3>3 DEF Exists
      <4>2. q \in StoredKeys(e)
        BY <3>1, <4>1 DEF StoredKeys
      <4>3. q \in Photos /\ upload[q].state \in {"unanswered", "kept", "lost"}
        BY <4>1, <4>2 DEF PhotoInv
      <4> QED
        BY <2>7, <3>3, <4>3
    <3> QED
      BY <3>2, <3>3
  <2>10. \A e \in Chores : Exists(db, ChoreDoc(e))' =>
           \A q \in StoredKeys(e)' : q \in Photos /\ upload'[q].state \in {"unanswered", "kept", "lost"}
    BY <2>9 DEF Exists
  <2> QED
    BY <2>5, <2>7, <2>8, <2>10 DEF PhotoInv
<1>3. CASE \E p \in Photos : DeleteUploadedPhoto(p) /\ UNCHANGED <<db, past, changes, disturbed>>
  <2>1. PICK p \in Photos : DeleteUploadedPhoto(p) /\ UNCHANGED <<db, past, disturbed>>
    BY <1>3
  <2> DEFINE state == IF upload[p].state = "stored" THEN "failed" ELSE "lost"
             new == [upload[p] EXCEPT !.state = state]
  <2>2. /\ upload[p].state \in {"stored", "unanswered"} /\ objects' = objects \ {p}
        /\ upload' = [upload EXCEPT ![p] = new]
    BY <2>1 DEF DeleteUploadedPhoto
  <2>3. upload[p] \in UploadValues /\ upload[p].state # "none" /\ state \in UploadStates
    BY <2>2 DEF PhotoInv, UploadStates
  <2>4. new \in UploadValues /\ new.state = state
    BY <2>3, UploadFields
  <2>5. /\ state \notin {"stored", "unanswered", "kept"}
        /\ upload[p].state # "stored" => state = "lost"
    OBVIOUS
  <2>6. ReviewInv'
    BY <2>1, <2>2 DEF ReviewInv
  <2> HIDE DEF new, state
  <2>7. /\ upload' \in [Photos -> UploadValues] /\ upload'[p] = new
        /\ \A q \in Photos \ {p} : upload'[q] = upload[q]
    BY <2>2, <2>4 DEF PhotoInv
  <2>8. \A q \in Photos : upload'[q].state \in {"stored", "unanswered", "kept"} => q \in objects'
    BY <2>2, <2>4, <2>5, <2>7 DEF PhotoInv
  <2>9. ASSUME NEW e \in Chores, Exists(db', ChoreDoc(e)), NEW q \in StoredKeys(e)'
        PROVE  q \in Photos /\ upload'[q].state \in {"unanswered", "kept", "lost"}
    <3>1. q \in StoredKeys(e) /\ Exists(db, ChoreDoc(e))
      BY <2>1, <2>9 DEF StoredKeys
    <3>2. q \in Photos /\ upload[q].state \in {"unanswered", "kept", "lost"}
      BY <3>1 DEF PhotoInv
    <3> QED
      BY <2>4, <2>5, <2>7, <3>2
  <2>10. \A e \in Chores : Exists(db, ChoreDoc(e))' =>
           \A q \in StoredKeys(e)' : q \in Photos /\ upload'[q].state \in {"unanswered", "kept", "lost"}
    BY <2>9 DEF Exists
  <2> QED
    BY <2>6, <2>7, <2>8, <2>10 DEF PhotoInv
<1> QED
  BY <1>1, <1>2, <1>3 DEF PhotoStep

-----------------------------------------------------------------------------
\* At first there is neither a chore nor a photo.
LEMMA InitReview ==
  ASSUME Init
  PROVE  ReviewInv /\ PhotoInv
<1>1. /\ db = [d \in Documents |-> IF d \in {UserDoc(u) : u \in Users} THEN [houseIds |-> {}] ELSE Absent]
      /\ past = << >> /\ objects = {} /\ disturbed = {}
      /\ upload = [p \in Photos |-> [state |-> "none"]]
  BY DEF Init, TransactionsInit
<1>2. /\ \A h \in Houses : db[InviteDoc(h)] = Absent
      /\ \A c \in Chores : db[ChoreDoc(c)] = Absent
      /\ \A c \in Chores, r \in Rounds, u \in Users : db[VoteDoc(c, r, u)] = Absent
  <2>1. \A d \in Documents : (\A u \in Users : d # UserDoc(u)) => db[d] = Absent
    BY <1>1
  <2>2. \A h \in Houses : db[InviteDoc(h)] = Absent
    BY <2>1, DocumentNames
  <2>3. \A c \in Chores : db[ChoreDoc(c)] = Absent
    BY <2>1, DocumentNames
  <2>4. \A c \in Chores, r \in Rounds, u \in Users : db[VoteDoc(c, r, u)] = Absent
    BY <2>1, DocumentNames
  <2> QED
    BY <2>2, <2>3, <2>4
<1>3. DocumentsOK(db)
  BY <1>1, <1>2 DEF DocumentsOK
<1>4. \A c \in Chores : RoundsOK(db, c) /\ ReviewOK(db, c) /\ ~Exists(db, ChoreDoc(c))
  BY <1>2 DEF RoundsOK, ReviewOK, UnderReview, Exists, Blank
<1>5. ReviewInv
  BY <1>1, <1>3, <1>4, InitSound DEF ReviewInv
<1>6. \A p \in Photos : upload[p] \in UploadValues /\ upload[p].state = "none"
  BY <1>1 DEF UploadValues
<1>7. PhotoInv
  BY <1>1, <1>4, <1>6 DEF PhotoInv
<1> QED
  BY <1>5, <1>7

\* Every handler of chores keeps their rounds.
LEMMA ChoreStepReview ==
  ASSUME ReviewInv, HouseholdInv', ChoreStep
  PROVE  ReviewInv' /\ KeysStay
<1>1. PICK t \in Snapshots, u \in Users :
        /\ \/ \E h \in Houses, a \in Users, c \in Chores : CreateChore(t, u, h, a, c)
           \/ \E h \in Houses, cs \in SUBSET Chores \ {{}} : UpdateChoreStatus(t, u, h, cs)
           \/ \E c \in Chores, isApproved \in BOOLEAN : ReviewChore(t, u, c, isApproved)
        /\ Tracked(t) /\ UNCHANGED objects
  BY DEF ChoreStep
<1>2. CASE \E h \in Houses, a \in Users, c \in Chores : CreateChore(t, u, h, a, c)
  BY <1>1, <1>2, CreateChoreReview
<1>3. CASE \E h \in Houses, cs \in SUBSET Chores \ {{}} : UpdateChoreStatus(t, u, h, cs)
  BY <1>1, <1>3, UpdateChoreStatusReview
<1>4. CASE \E c \in Chores, isApproved \in BOOLEAN : ReviewChore(t, u, c, isApproved)
  BY <1>1, <1>4, ReviewChoreReview
<1> QED
  BY <1>1, <1>2, <1>3, <1>4

\* Chores, votes, photos and what handlers still work with agree after any commits
\* of any handlers.
THEOREM ReviewInvHolds == Spec => [](ReviewInv /\ PhotoInv)
<1>1. Init => ReviewInv /\ PhotoInv
  BY InitReview
<1>2. ReviewInv /\ PhotoInv /\ HouseholdInv' /\ [Next]_vars => (ReviewInv /\ PhotoInv)'
  <2> SUFFICES ASSUME ReviewInv, PhotoInv, HouseholdInv', [Next]_vars
               PROVE  ReviewInv' /\ PhotoInv'
    OBVIOUS
  <2>1. CASE HouseStep
    BY <2>1, HouseStepReview, PhotosKept DEF HouseStep
  <2>2. CASE DeleteUserStep
    BY <2>2, DeleteUserReview, PhotosKept DEF DeleteUserStep
  <2>3. CASE ChoreStep
    BY <2>3, ChoreStepReview, PhotosKept DEF ChoreStep
  <2>4. CASE ReassignStep
    BY <2>4, ReassignReview, PhotosKept DEF ReassignStep
  <2>5. CASE PhotoStep
    BY <2>5, PhotoStepPhotos
  <2>6. CASE UNCHANGED vars
    BY <2>6 DEF vars, ReviewInv, PhotoInv, StoredKeys, Exists
  <2> QED
    BY <2>1, <2>2, <2>3, <2>4, <2>5, <2>6 DEF Next
<1> QED
  BY <1>1, <1>2, HouseholdInvHolds, PTL DEF Spec

\* One rejection ends a round, so each round of a chore has at most one, and a review
\* that is open in an unchanged household is waiting for somebody in it who can
\* still vote (updateChoreStatus.go, reviewChore.go, workflow.go).
THEOREM ReviewsAlwaysProceed == Spec => []ReviewsProceed
<1>1. ReviewInv => TypeOK
  BY DEF ReviewInv, HouseholdInv, Sound, UsersSound, HouseSound, DocumentsOK, TypeOK
<1>2. ReviewInv => OneRejectionEndsARound
  <2> SUFFICES ASSUME ReviewInv, NEW c \in Chores, Exists(db, ChoreDoc(c)), NEW r \in Rounds
               PROVE  LET chore == db[ChoreDoc(c)]
                          rejections == Cardinality(Votes(db, c, r, FALSE))
                      IN /\ r < chore.reviewRound => rejections = 1
                         /\ r > chore.reviewRound => rejections = 0
                         /\ r = chore.reviewRound =>
                              rejections = IF \/ chore.status = "Progress"
                                              \/ chore.completedBy = "system" THEN 1 ELSE 0
    BY DEF OneRejectionEndsARound
  <2>1. Rejected(db, c, r) => Cardinality(Votes(db, c, r, FALSE)) = 1
    BY FS_Singleton DEF Rejected
  <2>2. NotRejected(db, c, r) => Cardinality(Votes(db, c, r, FALSE)) = 0
    BY FS_EmptySet DEF NotRejected
  <2>3. Blank(db, c, r) => NotRejected(db, c, r)
    BY BlankVotes DEF NotRejected
  <2>4. RoundsOK(db, c)
    BY DEF ReviewInv
  <2> QED
    BY <2>1, <2>2, <2>3, <2>4 DEF RoundsOK
<1>3. ReviewInv => ReviewCanBeDecided
  <2> SUFFICES ASSUME ReviewInv, NEW c \in Chores \ disturbed, Exists(db, ChoreDoc(c)),
                      db[ChoreDoc(c)].status = "InTest"
               PROVE  \E u \in Reviewers(db, c) :
                        ~Exists(db, VoteDoc(c, db[ChoreDoc(c)].reviewRound, u))
    BY DEF ReviewCanBeDecided
  <2> DEFINE q == db[ChoreDoc(c)].reviewRound
  <2>1. UnderReview(db, c)
    BY DEF UnderReview
  <2>2. Votes(db, c, q, TRUE) \subseteq Reviewers(db, c) /\ Votes(db, c, q, TRUE) # Reviewers(db, c)
    BY <2>1 DEF ReviewInv, ReviewOK
  <2>3. q \in Rounds /\ NotRejected(db, c, q)
    <3>1. RoundsOK(db, c)
      BY DEF ReviewInv
    <3>2. q \in Rounds /\ db[ChoreDoc(c)].completedBy = ""
      BY <3>1 DEF RoundsOK
    <3> QED
      BY <3>1, <3>2 DEF RoundsOK
  <2>4. PICK u \in Reviewers(db, c) : u \notin Votes(db, c, q, TRUE)
    BY <2>2
  <2>5. u \in Users
    <3> DEFINE h == db[ChoreDoc(c)].houseId
    <3>1. u \in Members(db, h) /\ Exists(db, HouseDoc(h))
      BY <2>4 DEF Reviewers, HouseholdOf
    <3>2. h \in Houses
      BY ChoreFields DEF ReviewInv, DocumentsOK, Exists
    <3>3. MemberIds(db, h) \in Seq(Users)
      BY <3>1, <3>2 DEF ReviewInv, HouseholdInv, Sound, HouseSound, HouseValues, MemberIds, Exists
    <3> QED
      BY <3>1, <3>3 DEF Members
  <2>6. db[VoteDoc(c, q, u)] \in [isApproved : BOOLEAN] \cup {Absent}
    BY <2>3, <2>5 DEF ReviewInv, DocumentsOK
  <2>7. /\ db[VoteDoc(c, q, u)] # [isApproved |-> TRUE]
        /\ db[VoteDoc(c, q, u)] # [isApproved |-> FALSE]
    BY <2>3, <2>4, <2>5 DEF Votes, NotRejected
  <2>8. \A v \in [isApproved : BOOLEAN] : v = [isApproved |-> TRUE] \/ v = [isApproved |-> FALSE]
    OBVIOUS
  <2> QED
    BY <2>4, <2>6, <2>7, <2>8 DEF Exists
<1> QED
  BY <1>1, <1>2, <1>3, ReviewInvHolds, PTL DEF ReviewsProceed

\* An assignee's chore that is completed was approved by everybody else in the
\* house, unless the household or the assignee changed meanwhile (reviewChore.go).
THEOREM CompletedIsApproved == Spec => []ApprovedByTheOthers
<1>1. ReviewInv => ApprovedByTheOthers
  <2> SUFFICES ASSUME ReviewInv, NEW c \in Chores \ disturbed, Exists(db, ChoreDoc(c)),
                      db[ChoreDoc(c)].status = "Completed", db[ChoreDoc(c)].completedBy # "system"
               PROVE  /\ db[ChoreDoc(c)].completedBy = db[ChoreDoc(c)].assignedTo
                      /\ Votes(db, c, db[ChoreDoc(c)].reviewRound, TRUE) = Reviewers(db, c)
    BY DEF ApprovedByTheOthers
  <2>1. UnderReview(db, c) /\ ReviewOK(db, c)
    BY DEF UnderReview, ReviewInv
  <2> QED
    BY <2>1 DEF ReviewOK
<1> QED
  BY <1>1, ReviewInvHolds, PTL

\* Of the photos chores name only those are gone that a request deleted whose own
\* commit had gone unanswered (updateChoreStatus.go).
THEOREM PhotosStay == Spec => []PhotoLostOnlyUnanswered
<1>1. PhotoInv => PhotoLostOnlyUnanswered
  BY DEF PhotoInv, PhotoLostOnlyUnanswered
<1> QED
  BY <1>1, ReviewInvHolds, PTL
=============================================================================
