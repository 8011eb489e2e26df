------------------------- MODULE GameCatalogProofs -------------------------
(***************************************************************************)
(* That no instance goes back to an older configuration, and that an       *)
(* update that reports no failure is served by the instance that made it,  *)
(* for any instances, releases and games, and any number of faults.        *)
(***************************************************************************)
EXTENDS GameCatalog, TLAPS

(* The collection only goes forward, and a catalog holds something it read *)
(* there.                                                                  *)
Behind ==
  \A g \in Games :
    /\ document[g].write <= writes
    /\ \A i \in Instances : configs[i][g].write <= document[g].write

(* One reload at a time: what it has read is no older than what is served, *)
(* and no newer than what is stored.                                       *)
OneReload ==
  \A i \in Instances : \A caller \in Callers :
    reading[i][caller] # None =>
      /\ \A other \in Callers : reading[i][other] # None => other = caller
      /\ \A g \in Games :
           /\ configs[i][g].write <= reading[i][caller][g].write
           /\ reading[i][caller][g].write <= document[g].write

(* The handler of an update reads what it has saved, or something later.   *)
ReadsItsWrite ==
  \A i \in Instances :
    /\ update[i].stage # "none" =>
         update[i].game \in Games /\ update[i].write <= document[update[i].game].write
    /\ reading[i]["update"] # None =>
         /\ update[i].stage = "saved"
         /\ update[i].write <= reading[i]["update"][update[i].game].write

CatalogInv == TypeOK /\ UpdatedIsServed /\ Behind /\ OneReload /\ ReadsItsWrite

-----------------------------------------------------------------------------
(* What a Refresh stores                                                   *)

(* A reload moves every game forward or leaves it, and what it stores      *)
(* resolves.                                                               *)
LEMMA ResolvedAdvances ==
  ASSUME CatalogInv, NEW i \in Instances, NEW caller \in Callers, reading[i][caller] # None
  PROVE  LET new == Resolved(i, reading[i][caller])
         IN  /\ new \in [Games -> Documents]
             /\ \A g \in Games :
                  /\ Accepts(i, new[g])
                  /\ configs[i][g].write <= new[g].write
                  /\ new[g].write <= document[g].write
  <1>1. /\ reading[i][caller] \in [Games -> Documents]
        /\ configs[i] \in [Games -> Documents]
        /\ document \in [Games -> Documents]
    BY DEF CatalogInv, TypeOK
  <1>2. \A g \in Games : /\ configs[i][g].write \in Nat
                         /\ configs[i][g].write <= reading[i][caller][g].write
                         /\ reading[i][caller][g].write <= document[g].write
                         /\ configs[i][g].write <= document[g].write
                         /\ Accepts(i, configs[i][g])
    BY <1>1 DEF CatalogInv, OneReload, Behind, UpdatedIsServed, Documents
  <1> QED BY <1>1, <1>2 DEF Resolved, Documents

-----------------------------------------------------------------------------
(* The steps                                                               *)

LEMMA InitHolds == Init => CatalogInv
  <1> SUFFICES ASSUME Init PROVE CatalogInv
    OBVIOUS
  <1>1. NoDocument \in Documents /\ NoDocument.write = 0 /\ NoDocument.contents = None
    BY DEF NoDocument, Documents
  <1>2. TypeOK
    BY <1>1, GameCatalogAssumption DEF Init, TypeOK, NoUpdate, Callers
  <1>3. UpdatedIsServed
    BY <1>1 DEF Init, UpdatedIsServed, Accepts, NoUpdate
  <1>4. Behind /\ OneReload /\ ReadsItsWrite
    BY <1>1 DEF Init, Behind, OneReload, ReadsItsWrite, NoUpdate, Callers
  <1> QED BY <1>2, <1>3, <1>4 DEF CatalogInv

(* A step of one instance that changes none of what the invariant relates. *)
LEMMA QuietStep ==
  ASSUME CatalogInv, TypeOK',
         UNCHANGED <<document, configs, reading, update, writes>>
  PROVE  CatalogInv'
  BY DEF CatalogInv, UpdatedIsServed, Behind, OneReload, ReadsItsWrite, Accepts

(* What a Refresh reads is no older than what is served.                   *)
LEMMA ReadsHolds ==
  ASSUME CatalogInv, NEW i \in Instances, NEW caller \in Callers, Reads(i, caller),
         caller = "update" => update[i].stage = "saved",
         TypeOK', UNCHANGED <<document, configs, update, writes>>
  PROVE  CatalogInv'
  <1>1. /\ reading' = [reading EXCEPT ![i][caller] = document]
        /\ \A other \in Callers : reading[i][other] = None
    BY DEF Reads
  <1>2. /\ DOMAIN reading = Instances /\ \A j \in Instances : DOMAIN reading[j] = Callers
    BY DEF CatalogInv, TypeOK, Callers
  <1>3. /\ reading'[i][caller] = document
        /\ \A other \in Callers \ {caller} : reading'[i][other] = None
        /\ \A j \in Instances \ {i} : reading'[j] = reading[j]
    BY <1>1, <1>2
  <1>4. UpdatedIsServed' /\ Behind'
    BY DEF CatalogInv, UpdatedIsServed, Behind, Accepts
  <1>5. OneReload'
    <2> SUFFICES ASSUME NEW j \in Instances, NEW c \in Callers, reading'[j][c] # None
                 PROVE  /\ \A other \in Callers : reading'[j][other] # None => other = c
                        /\ \A g \in Games :
                             /\ configs[j][g].write <= reading'[j][c][g].write
                             /\ reading'[j][c][g].write <= document[g].write
      BY DEF OneReload
    <2>1. CASE j = i
      <3>1. c = caller
        BY <2>1, <1>3
      <3>2. \A g \in Games : document[g].write \in Nat
        BY DEF CatalogInv, TypeOK, Documents
      <3> QED BY <2>1, <3>1, <3>2, <1>3 DEF CatalogInv, Behind
    <2>2. CASE j # i
      BY <2>2, <1>3 DEF CatalogInv, OneReload
    <2> QED BY <2>1, <2>2
  <1>6. ReadsItsWrite'
    <2>1. \A j \in Instances : reading'[j]["update"] # None =>
            (j = i /\ caller = "update") \/ reading'[j]["update"] = reading[j]["update"]
      BY <1>3 DEF Callers
    <2> QED BY <2>1, <1>3 DEF CatalogInv, ReadsItsWrite
  <1> QED BY <1>4, <1>5, <1>6 DEF CatalogInv

(* The rest of a Refresh, and the stage it leaves its caller in.           *)
LEMMA StoresHolds ==
  ASSUME CatalogInv, NEW i \in Instances, NEW caller \in Callers, Stores(i, caller), TypeOK',
         \/ update' = update
         \/ caller = "update" /\ \E stage \in {"refreshed", "reported"} :
               /\ update' = [update EXCEPT ![i].stage = stage]
               /\ stage = "refreshed" => \A g \in Games : Accepts(i, reading[i]["update"][g])
  PROVE  CatalogInv'
  <1> DEFINE new == Resolved(i, reading[i][caller])
  <1>1. /\ reading[i][caller] # None /\ UNCHANGED <<document, writes>>
        /\ configs' = [configs EXCEPT ![i] = new]
        /\ reading' = [reading EXCEPT ![i][caller] = None]
    BY DEF Stores
  <1>2. /\ DOMAIN reading = Instances /\ \A j \in Instances : DOMAIN reading[j] = Callers
        /\ DOMAIN configs = Instances
        /\ DOMAIN update = Instances
        /\ \A j \in Instances, g \in Games : document[g].write \in Nat /\ configs[j][g].write \in Nat
        /\ \A j \in Instances : DOMAIN update[j] = {"stage", "game", "write"} /\ update[j].write \in Nat
    <2>1. \A d \in Documents : d.write \in Nat
      BY DEF Documents
    <2>2. /\ reading \in [Instances -> [Callers -> [Games -> Documents] \cup {None}]]
          /\ document \in [Games -> Documents] /\ configs \in [Instances -> [Games -> Documents]]
      BY DEF CatalogInv, TypeOK
    <2>3. /\ DOMAIN update = Instances
          /\ \A j \in Instances : DOMAIN update[j] = {"stage", "game", "write"} /\ update[j].write \in Nat
      BY GameCatalogAssumption DEF CatalogInv, TypeOK
    <2> QED BY <2>1, <2>2, <2>3
  <1>3. /\ new \in [Games -> Documents]
        /\ \A g \in Games : /\ Accepts(i, new[g])
                            /\ configs[i][g].write <= new[g].write
                            /\ new[g].write <= document[g].write
    BY <1>1, ResolvedAdvances
  <1>4. \A c \in Callers : reading'[i][c] = None
    BY <1>1, <1>2 DEF CatalogInv, OneReload
  <1>5. \A j \in Instances \ {i} : reading'[j] = reading[j] /\ configs'[j] = configs[j] /\ update'[j] = update[j]
    BY <1>1, <1>2
  <1>6. configs'[i] = new
    BY <1>1, <1>2
  <1>7. \A j \in Instances : update'[j].game = update[j].game /\ update'[j].write = update[j].write
    BY <1>2
  <1>8. \A g \in Games : new[g].write \in Nat
    BY <1>3 DEF Documents
  <1>9. UpdatedIsServed'
    <2>1. \A j \in Instances, g \in Games : Accepts(j, configs'[j][g])
      BY <1>3, <1>5, <1>6 DEF CatalogInv, UpdatedIsServed
    <2>2. ASSUME NEW j \in Instances, update'[j].stage = "refreshed"
          PROVE  configs'[j][update'[j].game].write >= update'[j].write
      <3>1. CASE j # i
        BY <3>1, <2>2, <1>5 DEF CatalogInv, UpdatedIsServed
      <3>2. CASE j = i /\ update[i].stage = "refreshed"
        <4>1. update[i].game \in Games
          BY <3>2 DEF CatalogInv, ReadsItsWrite
        <4> QED BY <3>2, <4>1, <1>2, <1>3, <1>6, <1>7, <1>8 DEF CatalogInv, UpdatedIsServed
      <3>3. CASE j = i /\ update[i].stage # "refreshed"
        <4>1. caller = "update" /\ \A g \in Games : Accepts(i, reading[i]["update"][g])
          BY <3>3, <2>2, <1>2
        <4>2. /\ update[i].stage = "saved" /\ update[i].game \in Games
              /\ update[i].write <= reading[i]["update"][update[i].game].write
          BY <4>1, <1>1 DEF CatalogInv, ReadsItsWrite
        <4>3. new[update[i].game] = reading[i]["update"][update[i].game]
          BY <4>1, <4>2 DEF Resolved
        <4> QED BY <3>3, <4>2, <4>3, <1>2, <1>6, <1>7, <1>8
      <3> QED BY <3>1, <3>2, <3>3
    <2> QED BY <2>1, <2>2 DEF UpdatedIsServed, Accepts
  <1>10. Behind'
    BY <1>1, <1>3, <1>5, <1>6 DEF CatalogInv, Behind
  <1>11. OneReload'
    BY <1>1, <1>4, <1>5 DEF CatalogInv, OneReload
  <1>12. ReadsItsWrite'
    <2>1. \A j \in Instances : update'[j].stage # "none" => update[j].stage # "none"
      <3>1. ASSUME update[i].stage = "none" PROVE update' = update
        BY <3>1, <1>1 DEF CatalogInv, ReadsItsWrite
      <3> QED BY <3>1, <1>5
    <2>2. \A j \in Instances : reading'[j]["update"] # None => j # i
      BY <1>4 DEF Callers
    <2> QED BY <2>1, <2>2, <1>1, <1>5, <1>7 DEF CatalogInv, ReadsItsWrite
  <1> QED BY <1>9, <1>10, <1>11, <1>12 DEF CatalogInv

(* A write makes a document the newest of all.                             *)
LEMMA WriteHolds ==
  ASSUME CatalogInv, NEW g \in Games, TypeOK', Write, document'[g].write = writes + 1,
         \A other \in Games \ {g} : document'[other] = document[other],
         UNCHANGED <<configs, reading>>,
         \/ UNCHANGED update
         \/ \E i \in Instances :
              /\ update[i].stage = "none"
              /\ update' = [update EXCEPT ![i] = [stage |-> "saved", game |-> g, write |-> writes + 1]]
  PROVE  CatalogInv'
  <1>1. /\ writes \in Nat /\ writes' = writes + 1
        /\ \A h \in Games : document[h].write \in Nat /\ document[h].write <= writes
    BY GameCatalogAssumption DEF CatalogInv, TypeOK, Behind, Write, Documents
  <1>2. \A h \in Games : /\ document'[h].write \in Nat /\ document[h].write <= document'[h].write
                         /\ document'[h].write <= writes'
    BY <1>1
  <1>3. \A j \in Instances, h \in Games : configs[j][h].write \in Nat
    BY DEF CatalogInv, TypeOK, Documents
  <1>4. \A j \in Instances, c \in Callers, h \in Games :
          reading[j][c] # None => reading[j][c][h].write \in Nat
    BY DEF CatalogInv, TypeOK, Documents
  <1>5. DOMAIN update = Instances /\ \A j \in Instances : update[j].write \in Nat
    BY GameCatalogAssumption DEF CatalogInv, TypeOK
  <1>6. Behind'
    <2> SUFFICES ASSUME NEW h \in Games
                 PROVE  /\ document'[h].write <= writes'
                        /\ \A j \in Instances : configs[j][h].write <= document'[h].write
      BY DEF Behind
    <2>1. \A j \in Instances : configs[j][h].write <= document[h].write
      BY DEF CatalogInv, Behind
    <2> QED BY <2>1, <1>1, <1>2, <1>3
  <1>7. OneReload'
    <2> SUFFICES ASSUME NEW j \in Instances, NEW c \in Callers, reading[j][c] # None
                 PROVE  /\ \A other \in Callers : reading[j][other] # None => other = c
                        /\ \A h \in Games :
                             /\ configs[j][h].write <= reading[j][c][h].write
                             /\ reading[j][c][h].write <= document'[h].write
      BY DEF OneReload
    <2>1. /\ \A other \in Callers : reading[j][other] # None => other = c
          /\ \A h \in Games : /\ configs[j][h].write <= reading[j][c][h].write
                               /\ reading[j][c][h].write <= document[h].write
      BY DEF CatalogInv, OneReload
    <2> QED BY <2>1, <1>1, <1>2, <1>4
  <1>8. ReadsItsWrite'
    <2>1. ASSUME NEW j \in Instances, update'[j].stage # "none"
          PROVE  update'[j].game \in Games /\ update'[j].write <= document'[update'[j].game].write
      <3>1. CASE update'[j] = update[j]
        BY <3>1, <2>1, <1>2, <1>1, <1>5 DEF CatalogInv, ReadsItsWrite
      <3>2. CASE update'[j] # update[j]
        <4>1. update'[j] = [stage |-> "saved", game |-> g, write |-> writes + 1]
          BY <3>2, <1>5
        <4> QED BY <4>1, <1>1
      <3> QED BY <3>1, <3>2
    <2>2. ASSUME NEW j \in Instances, reading[j]["update"] # None
          PROVE  update'[j] = update[j]
      BY <2>2, <1>5 DEF CatalogInv, ReadsItsWrite
    <2> QED BY <2>1, <2>2 DEF CatalogInv, ReadsItsWrite
  <1>9. UpdatedIsServed'
    <2>1. \A j \in Instances : update'[j].stage = "refreshed" => update'[j] = update[j]
      BY <1>5
    <2> QED BY <2>1 DEF CatalogInv, UpdatedIsServed, Accepts
  <1> QED BY <1>6, <1>7, <1>8, <1>9 DEF CatalogInv

(* The handler moves on or gives up, with no reload of its own on its way. *)
LEMMA HandlerHolds ==
  ASSUME CatalogInv, NEW i \in Instances, TypeOK', reading[i]["update"] = None,
         UNCHANGED <<document, configs, reading, writes>>,
         \/ update' = [update EXCEPT ![i] = NoUpdate]
         \/ update[i].stage = "saved" /\ update' = [update EXCEPT ![i].stage = "reported"]
  PROVE  CatalogInv'
  <1>1. DOMAIN update = Instances /\ DOMAIN update[i] = {"stage", "game", "write"}
    BY DEF CatalogInv, TypeOK
  <1>2. /\ \A j \in Instances \ {i} : update'[j] = update[j]
        /\ update'[i].stage \in {"none", "reported"}
        /\ update'[i].stage = "reported" =>
              /\ update[i].stage = "saved"
              /\ update'[i].game = update[i].game /\ update'[i].write = update[i].write
    BY <1>1 DEF NoUpdate
  <1>3. UpdatedIsServed' /\ Behind' /\ OneReload'
    BY <1>2 DEF CatalogInv, UpdatedIsServed, Behind, OneReload, Accepts
  <1>4. ReadsItsWrite'
    BY <1>2 DEF CatalogInv, ReadsItsWrite
  <1> QED BY <1>3, <1>4 DEF CatalogInv

(* An instance that starts again has read nothing.                         *)
LEMMA RestartHolds ==
  ASSUME CatalogInv, NEW i \in Instances, TypeOK', NewCatalog(i)
  PROVE  CatalogInv'
  <1>1. /\ DOMAIN update = Instances /\ DOMAIN reading = Instances /\ DOMAIN configs = Instances
        /\ \A g \in Games : document[g].write \in Nat
    BY DEF CatalogInv, TypeOK, Documents
  <1>2. /\ UNCHANGED <<document, writes>>
        /\ \A j \in Instances \ {i} :
             update'[j] = update[j] /\ reading'[j] = reading[j] /\ configs'[j] = configs[j]
        /\ update'[i].stage = "none"
        /\ \A c \in Callers : reading'[i][c] = None
        /\ \A g \in Games : configs'[i][g].write = 0 /\ configs'[i][g].contents = None
    BY <1>1 DEF NewCatalog, NoUpdate, NoDocument
  <1>3. UpdatedIsServed'
    BY <1>2 DEF CatalogInv, UpdatedIsServed, Accepts
  <1>4. Behind'
    BY <1>1, <1>2 DEF CatalogInv, Behind
  <1>5. OneReload' /\ ReadsItsWrite'
    BY <1>2 DEF CatalogInv, OneReload, ReadsItsWrite, Callers
  <1> QED BY <1>3, <1>4, <1>5 DEF CatalogInv

-----------------------------------------------------------------------------
(* Every variable keeps its type.                                          *)
LEMMA StaysTyped == TypeOK /\ [Next]_vars => TypeOK'
  <1> SUFFICES ASSUME TypeOK, [Next]_vars PROVE TypeOK'
    OBVIOUS
  <1> USE GameCatalogAssumption
  <1>1. ASSUME NEW i \in Instances, NEW c \in Callers, Stores(i, c)
        PROVE  configs' \in [Instances -> [Games -> Documents]]
    <2>1. /\ configs[i] \in [Games -> Documents] /\ reading[i][c] \in [Games -> Documents]
          /\ configs' = [configs EXCEPT ![i] = Resolved(i, reading[i][c])]
      BY <1>1 DEF TypeOK, Stores
    <2>2. Resolved(i, reading[i][c]) \in [Games -> Documents]
      BY <2>1 DEF Resolved
    <2> QED BY <2>1, <2>2 DEF TypeOK
  <1>2. ASSUME NEW i \in Instances, NEW g \in Games, NEW c \in Contents, UpdateGameConfig(i, g, c)
        PROVE  TypeOK'
    <2>1. /\ writes + 1 \in 0 .. MaxWrites /\ writes' = writes + 1
      BY <1>2 DEF UpdateGameConfig, Write, TypeOK
    <2>2. document' \in [Games -> Documents]
      <3>1. document[g] \in Documents
        BY DEF TypeOK
      <3>2. [version |-> document[g].version + 1, contents |-> c, write |-> writes + 1] \in Documents
        BY <3>1, <2>1 DEF Documents
      <3> QED BY <3>2, <1>2 DEF UpdateGameConfig, Save, TypeOK
    <2> QED BY <1>2, <2>1, <2>2 DEF UpdateGameConfig, TypeOK, bus
  <1>3. ASSUME NEW g \in Games, NEW c \in Contents, EditDocument(g, c)
        PROVE  TypeOK'
    <2>1. /\ writes + 1 \in 0 .. MaxWrites /\ writes' = writes + 1
      BY <1>3 DEF EditDocument, Write, TypeOK
    <2>2. document' \in [Games -> Documents]
      <3>1. document[g] \in Documents
        BY DEF TypeOK
      <3>2. [version |-> document[g].version, contents |-> c, write |-> writes + 1] \in Documents
        BY <3>1, <2>1 DEF Documents
      <3> QED BY <3>2, <1>3 DEF EditDocument, TypeOK
    <2> QED BY <1>3, <2>1, <2>2 DEF EditDocument, TypeOK, bus
  <1>4. ASSUME NEW i \in Instances, Subscribe(i) \/ TimerFires(i) \/ LoseSubscription(i) \/ RunReadFails(i)
        PROVE  TypeOK'
    <2>1. CASE Subscribe(i)
      BY <2>1 DEF Subscribe, TypeOK
    <2>2. CASE TimerFires(i)
      BY <2>2 DEF TimerFires, TypeOK, bus
    <2>3. CASE LoseSubscription(i)
      BY <2>3 DEF LoseSubscription, Fault, TypeOK
    <2>4. CASE RunReadFails(i)
      BY <2>4 DEF RunReadFails, Fault, TypeOK
    <2> QED BY <1>4, <2>1, <2>2, <2>3, <2>4
  <1>5. ASSUME NEW i \in Instances, RunReads(i) \/ ChangedReads(i)
        PROVE  TypeOK'
    <2>1. ASSUME NEW c \in Callers, Reads(i, c)
          PROVE  reading' \in [Instances -> [Callers -> [Games -> Documents] \cup {None}]]
      BY <2>1 DEF Reads, TypeOK
    <2>2. CASE RunReads(i)
      BY <2>1, <2>2 DEF RunReads, Callers, TypeOK
    <2>3. CASE ChangedReads(i)
      BY <2>1, <2>3 DEF ChangedReads, Callers, TypeOK, bus
    <2> QED BY <1>5, <2>2, <2>3
  <1>6. ASSUME NEW i \in Instances, NEW c \in Callers, Stores(i, c)
        PROVE  reading' \in [Instances -> [Callers -> [Games -> Documents] \cup {None}]]
    BY <1>6 DEF Stores, TypeOK
  <1>7. ASSUME NEW i \in Instances, RunStores(i) \/ ChangedStores(i)
        PROVE  TypeOK'
    <2>1. ASSUME NEW c \in Callers, Stores(i, c)
          PROVE  /\ configs' \in [Instances -> [Games -> Documents]]
                 /\ reading' \in [Instances -> [Callers -> [Games -> Documents] \cup {None}]]
                 /\ loaded' \in [Instances -> BOOLEAN]
                 /\ UNCHANGED <<document, subscribed, writes, faults>>
      <3>1. loaded' \in [Instances -> BOOLEAN] /\ UNCHANGED <<document, subscribed, writes, faults>>
        BY <2>1 DEF Stores, TypeOK
      <3> QED BY <2>1, <1>1, <1>6, <3>1
    <2>2. CASE RunStores(i)
      BY <2>1, <2>2 DEF RunStores, Callers, TypeOK
    <2>3. CASE ChangedStores(i)
      <3>1. PICK stage \in {"refreshed", "reported"} : update' = [update EXCEPT ![i].stage = stage]
        BY <2>3 DEF ChangedStores
      <3>2. update' \in [Instances -> [stage : {"none", "saved", "refreshed", "reported"},
                                      game : Games \cup {None}, write : 0 .. MaxWrites]]
        BY <3>1 DEF TypeOK
      <3> QED BY <2>1, <2>3, <3>2 DEF ChangedStores, Callers, TypeOK
    <2> QED BY <1>7, <2>2, <2>3
  <1>8. ASSUME NEW i \in Instances, PublishGameConfigChanged(i) \/ ChangedReadFails(i)
        PROVE  TypeOK'
    <2>1. CASE PublishGameConfigChanged(i)
      <3>1. NoUpdate \in [stage : {"none", "saved", "refreshed", "reported"},
                         game : Games \cup {None}, write : 0 .. MaxWrites]
        BY DEF NoUpdate
      <3>2. [j \in Instances |-> announced[j] \/ subscribed[j]] \in [Instances -> BOOLEAN]
        OBVIOUS
      <3>3. faults' \in 0 .. MaxFaults
        BY <2>1 DEF PublishGameConfigChanged, Fault, TypeOK
      <3>4. announced' \in [Instances -> BOOLEAN]
        BY <2>1, <3>2, Zenon DEF PublishGameConfigChanged, TypeOK
      <3>5. update' \in [Instances -> [stage : {"none", "saved", "refreshed", "reported"},
                                      game : Games \cup {None}, write : 0 .. MaxWrites]]
        BY <2>1, <3>1 DEF PublishGameConfigChanged, TypeOK
      <3> QED BY <2>1, <3>3, <3>4, <3>5 DEF PublishGameConfigChanged, TypeOK
    <2>2. CASE ChangedReadFails(i)
      <3>1. update' \in [Instances -> [stage : {"none", "saved", "refreshed", "reported"},
                                      game : Games \cup {None}, write : 0 .. MaxWrites]]
        BY <2>2 DEF ChangedReadFails, TypeOK
      <3>2. faults' \in 0 .. MaxFaults
        BY <2>2 DEF ChangedReadFails, Fault, TypeOK
      <3>3. UNCHANGED <<document, configs, loaded, reading, bus, timer, writes>>
        BY <2>2 DEF ChangedReadFails
      <3> QED BY <3>1, <3>2, <3>3 DEF TypeOK, bus
    <2> QED BY <1>8, <2>1, <2>2
  <1>9. ASSUME NEW i \in Instances, NewCatalog(i)
        PROVE  TypeOK'
    <2>1. NoDocument \in Documents
      BY DEF NoDocument, Documents
    <2> QED BY <1>9, <2>1 DEF NewCatalog, Fault, NoUpdate, TypeOK, bus
  <1>10. CASE UNCHANGED vars
    BY <1>10 DEF vars, bus, TypeOK
  <1> QED BY <1>2, <1>3, <1>4, <1>5, <1>7, <1>8, <1>9, <1>10 DEF Next, Run, Changed

LEMMA StepHolds == CatalogInv /\ [Next]_vars => CatalogInv'
  <1> SUFFICES ASSUME CatalogInv, [Next]_vars PROVE CatalogInv'
    OBVIOUS
  <1>1. TypeOK'
    BY StaysTyped DEF CatalogInv
  <1>0. document \in [Games -> Documents]
    BY DEF CatalogInv, TypeOK
  <1>2. ASSUME NEW i \in Instances, NEW g \in Games, NEW c \in Contents, UpdateGameConfig(i, g, c)
        PROVE  CatalogInv'
    <2>1. /\ Write /\ document'[g].write = writes + 1
          /\ \A other \in Games \ {g} : document'[other] = document[other]
          /\ UNCHANGED <<configs, reading>>
      BY <1>0, <1>2 DEF UpdateGameConfig, Save, Documents
    <2>2. /\ update[i].stage = "none"
          /\ update' = [update EXCEPT ![i] = [stage |-> "saved", game |-> g, write |-> writes + 1]]
      BY <1>2 DEF UpdateGameConfig
    <2> QED BY <1>1, <2>1, <2>2, WriteHolds
  <1>11. ASSUME NEW g \in Games, NEW c \in Contents, EditDocument(g, c)
         PROVE  CatalogInv'
    <2>1. /\ Write /\ document'[g].write = writes + 1
          /\ \A other \in Games \ {g} : document'[other] = document[other]
          /\ UNCHANGED <<configs, reading, update>>
      BY <1>0, <1>11 DEF EditDocument, Documents
    <2> QED BY <1>1, <2>1, WriteHolds
  <1>3. ASSUME NEW i \in Instances, Subscribe(i) \/ TimerFires(i) \/ LoseSubscription(i) \/ RunReadFails(i)
        PROVE  CatalogInv'
    BY <1>1, <1>3, QuietStep DEF Subscribe, TimerFires, LoseSubscription, RunReadFails
  <1>4. ASSUME NEW i \in Instances, RunReads(i)
        PROVE  CatalogInv'
    BY <1>1, <1>4, ReadsHolds DEF RunReads, Callers
  <1>5. ASSUME NEW i \in Instances, ChangedReads(i)
        PROVE  CatalogInv'
    BY <1>1, <1>5, ReadsHolds DEF ChangedReads, Callers
  <1>6. ASSUME NEW i \in Instances, RunStores(i)
        PROVE  CatalogInv'
    BY <1>1, <1>6, StoresHolds DEF RunStores, Callers
  <1>7. ASSUME NEW i \in Instances, ChangedStores(i)
        PROVE  CatalogInv'
    BY <1>1, <1>7, StoresHolds DEF ChangedStores, Callers
  <1>8. ASSUME NEW i \in Instances, PublishGameConfigChanged(i) \/ ChangedReadFails(i)
        PROVE  CatalogInv'
    <2>1. reading[i]["update"] = None
      BY <1>8 DEF PublishGameConfigChanged, ChangedReadFails, CatalogInv, ReadsItsWrite
    <2> QED BY <1>1, <1>8, <2>1, HandlerHolds DEF PublishGameConfigChanged, ChangedReadFails
  <1>9. ASSUME NEW i \in Instances, NewCatalog(i)
        PROVE  CatalogInv'
    BY <1>1, <1>9, RestartHolds
  <1>10. CASE UNCHANGED vars
    BY <1>1, <1>10, QuietStep DEF vars
  <1> QED BY <1>2, <1>3, <1>4, <1>5, <1>6, <1>7, <1>8, <1>9, <1>10, <1>11
     DEF Next, Run, Changed

-----------------------------------------------------------------------------
(* The inductive invariant: catalogs lie behind the collection, one reload *)
(* of an instance runs at a time, and an update reads what it has saved.   *)
THEOREM CatalogInvHolds == Spec => []CatalogInv
  BY InitHolds, StepHolds, PTL DEF Spec

(* For any instances, releases and games an update that reports no failure *)
(* is served by its instance, and what is served resolves                  *)
(* (UpdateGameConfigHandler.Handle, Catalog.Refresh).                      *)
THEOREM UpdatesAreServed == Spec => []CatalogOK
  <1>1. CatalogInv => CatalogOK
    BY DEF CatalogInv, CatalogOK
  <1> QED BY <1>1, CatalogInvHolds, PTL

(* For any instances, releases and games, and however reloads overlap and  *)
(* fail, no running instance returns to an earlier config (the mutex of    *)
(* Catalog.Refresh).                                                       *)
THEOREM CatalogNeverGoesBack == Spec => NeverGoesBack
  <1> DEFINE Forward == \A i \in Instances, g \in Games :
               loaded[i] /\ loaded'[i] => configs'[i][g].write >= configs[i][g].write
  <1>1. CatalogInv /\ [Next]_vars => Forward
    <2> SUFFICES ASSUME CatalogInv, [Next]_vars, NEW i \in Instances, NEW g \in Games,
                        loaded[i], loaded'[i]
                 PROVE  configs'[i][g].write >= configs[i][g].write
      OBVIOUS
    <2>1. /\ DOMAIN configs = Instances /\ DOMAIN loaded = Instances
          /\ \A j \in Instances : configs[j][g].write \in Nat
      BY DEF CatalogInv, TypeOK, Documents
    <2>2. CASE configs'[i] = configs[i]
      BY <2>1, <2>2
    <2>3. ASSUME NEW j \in Instances, NEW c \in Callers, Stores(j, c)
          PROVE  configs'[i][g].write >= configs[i][g].write
      <3>1. CASE i = j
        <4>1. /\ reading[j][c] # None
              /\ configs'[j] = Resolved(j, reading[j][c])
          BY <2>1, <2>3 DEF Stores
        <4>2. /\ configs[j][g].write <= Resolved(j, reading[j][c])[g].write
              /\ Resolved(j, reading[j][c])[g].write \in Nat
          BY <4>1, ResolvedAdvances DEF Documents
        <4> QED BY <3>1, <4>1, <4>2, <2>1
      <3>2. CASE i # j
        BY <3>2, <2>1, <2>3 DEF Stores
      <3> QED BY <3>1, <3>2
    <2>4. ASSUME NEW j \in Instances, NewCatalog(j)
          PROVE  configs'[i] = configs[i]
      BY <2>1, <2>4 DEF NewCatalog
    <2>5. ASSUME NEW j \in Instances,
                 RunReads(j) \/ ChangedReads(j) \/ Subscribe(j) \/ TimerFires(j) \/ LoseSubscription(j)
                   \/ RunReadFails(j) \/ PublishGameConfigChanged(j) \/ ChangedReadFails(j)
          PROVE  configs' = configs
      BY <2>5 DEF RunReads, ChangedReads, Subscribe, TimerFires, LoseSubscription, RunReadFails,
                  PublishGameConfigChanged, ChangedReadFails
    <2>6. ASSUME NEW j \in Instances, NEW h \in Games, NEW x \in Contents,
                 UpdateGameConfig(j, h, x) \/ EditDocument(h, x)
          PROVE  configs' = configs
      BY <2>6 DEF UpdateGameConfig, EditDocument
    <2>7. CASE UNCHANGED vars
      BY <2>2, <2>7 DEF vars
    <2> QED BY <2>2, <2>3, <2>4, <2>5, <2>6, <2>7
            DEF Next, Run, Changed, RunStores, ChangedStores, Callers
  <1>2. Spec => [][Next]_vars
    BY PTL DEF Spec
  <1> QED BY <1>1, <1>2, CatalogInvHolds, PTL DEF NeverGoesBack
=============================================================================
