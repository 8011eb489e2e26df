---------------------------- MODULE GameCatalog ----------------------------
(***************************************************************************)
(* The catalogs of the instances (application/game/gameCatalog.go) and the *)
(* Game collection they are read from: an operator replaces a document, or *)
(* edits it by hand; the instance that wrote it reads the collection again *)
(* and announces the change on a Redis channel; an instance that hears     *)
(* nothing reads again when its timer fires.                               *)
(*                                                                         *)
(* A document's contents are one value, which the modules of an instance's *)
(* release resolve or refuse: releases differ while one is rolled out. A   *)
(* config is written down as the document it was resolved from.            *)
(***************************************************************************)
EXTENDS Naturals, FiniteSets

CONSTANTS
  Instances, Games, Contents,
  Resolves,     \* Resolves[i]: the contents the release of instance i accepts
  None,
  MaxWrites,    \* bound: writes to the collection
  MaxFaults     \* bound: failed reads, lost subscriptions and announcements,
                \* instances that start again

ASSUME GameCatalogAssumption ==
  /\ Resolves \in [Instances -> SUBSET Contents]
  /\ None \notin Contents
  /\ MaxWrites \in Nat /\ MaxFaults \in Nat

(* write numbers the writes of all games, versions those through the API.  *)
Documents == [version : Nat, contents : Contents \cup {None}, write : Nat]
NoDocument == [version |-> 0, contents |-> None, write |-> 0]

(* Who reloads a catalog: Run, or the handler of an update.                *)
Callers == {"run", "update"}
NoUpdate == [stage |-> "none", game |-> None, write |-> 0]

VARIABLES
  document,    \* MongoDB: the Game collection, NoDocument where none exists
  configs,     \* configs[i]: the catalog of instance i
  loaded,      \* loaded[i]: it was read once
  reading,     \* reading[i][caller]: what a Refresh has read, None without one
  update,      \* update[i]: an UpdateGameConfig of instance i on its way
  subscribed,  \* subscribed[i]: Run holds a subscription
  announced,   \* announced[i]: with an announcement in it
  timer,       \* timer[i]: TRUE when it has fired
  writes, faults

bus == <<subscribed, announced>>
vars == <<document, configs, loaded, reading, update, bus, timer, writes, faults>>

-----------------------------------------------------------------------------
(* Without a document a game has its defaults, and is off.                 *)
Accepts(i, d) == d.contents \in Resolves[i] \cup {None}

\* Mutant of Resolved: one document that does not resolve fails the reload.
ResolvedTogether(i, documents) ==
  IF \A g \in Games : Accepts(i, documents[g]) THEN documents ELSE configs[i]

(* A document that does not resolve leaves its game as it was.             *)
Resolved(i, documents) ==
  [g \in Games |-> IF Accepts(i, documents[g]) THEN documents[g] ELSE configs[i][g]]

Write == writes < MaxWrites /\ writes' = writes + 1
Fault == faults < MaxFaults /\ faults' = faults + 1

-----------------------------------------------------------------------------
(* Refresh: reads the collection and stores what it resolves to, one       *)
(* caller at a time.                                                       *)

\* Mutant of Reads: the collection is read outside the mutex.
ReadsUnlocked(i, caller) ==
  /\ reading[i][caller] = None
  /\ reading' = [reading EXCEPT ![i][caller] = document]

Reads(i, caller) ==
  /\ \A other \in Callers : reading[i][other] = None
  /\ reading' = [reading EXCEPT ![i][caller] = document]

Stores(i, caller) ==
  /\ reading[i][caller] # None
  /\ configs' = [configs EXCEPT ![i] = Resolved(i, reading[i][caller])]
  /\ loaded' = [loaded EXCEPT ![i] = TRUE]
  /\ reading' = [reading EXCEPT ![i][caller] = None]
  /\ UNCHANGED <<document, subscribed, writes, faults>>

-----------------------------------------------------------------------------
(* UpdateGameConfig *)

(* The document is saved if nobody has replaced it since the operator read *)
(* its version; otherwise the operator is told of a conflict.              *)
Save(g, contents) ==
  document' = [document EXCEPT
    ![g] = [version |-> @.version + 1, contents |-> contents, write |-> writes + 1]]

UpdateGameConfig(i, g, contents) ==
  /\ update[i].stage = "none"
  /\ contents \in Resolves[i]
  /\ Write /\ Save(g, contents)
  /\ update' = [update EXCEPT ![i] = [stage |-> "saved", game |-> g, write |-> writes + 1]]
  /\ UNCHANGED <<configs, loaded, reading, bus, timer, faults>>

\* Mutant of ChangedReads: joins a reload that is on its way already.
ChangedJoins(i) ==
  /\ update[i].stage = "saved"
  /\ IF reading[i]["run"] # None
       THEN reading' = [reading EXCEPT ![i]["update"] = reading[i]["run"]]
       ELSE Reads(i, "update")
  /\ UNCHANGED <<document, configs, loaded, update, bus, timer, writes, faults>>

ChangedReads(i) ==
  /\ update[i].stage = "saved"
  /\ Reads(i, "update")
  /\ UNCHANGED <<document, configs, loaded, update, bus, timer, writes, faults>>

(* A document that does not resolve is reported; the rest is reloaded.     *)
ChangedStores(i) ==
  /\ Stores(i, "update")
  /\ update' = [update EXCEPT ![i].stage =
       IF \A g \in Games : Accepts(i, reading[i]["update"][g]) THEN "refreshed" ELSE "reported"]
  /\ UNCHANGED <<announced, timer>>

ChangedReadFails(i) ==
  /\ update[i].stage = "saved" /\ reading[i]["update"] = None
  /\ Fault
  /\ update' = [update EXCEPT ![i].stage = "reported"]
  /\ UNCHANGED <<document, configs, loaded, reading, bus, timer, writes>>

(* The others are told, whether or not this instance could reload.         *)
PublishGameConfigChanged(i) ==
  /\ update[i].stage \in {"refreshed", "reported"}
  /\ update' = [update EXCEPT ![i] = NoUpdate]
  /\ \/ announced' = [j \in Instances |-> announced[j] \/ subscribed[j]] /\ UNCHANGED faults
     \/ Fault /\ UNCHANGED announced
  /\ UNCHANGED <<document, configs, loaded, reading, subscribed, timer, writes>>

(* A document edited in MongoDB keeps its version.                         *)
EditDocument(g, contents) ==
  /\ document[g] # NoDocument /\ Write
  /\ document' = [document EXCEPT
       ![g] = [version |-> @.version, contents |-> contents, write |-> writes + 1]]
  /\ UNCHANGED <<configs, loaded, reading, update, bus, timer, faults>>

-----------------------------------------------------------------------------
(* Run: the loop of an instance *)

(* A fresh subscription may follow on lost announcements: reload at once.  *)
Subscribe(i) ==
  /\ ~subscribed[i] /\ reading[i]["run"] = None
  /\ subscribed' = [subscribed EXCEPT ![i] = TRUE]
  /\ timer' = [timer EXCEPT ![i] = TRUE]
  /\ UNCHANGED <<document, configs, loaded, reading, update, announced, writes, faults>>

(* What was announced since is lost with the connection.                   *)
LoseSubscription(i) ==
  /\ subscribed[i] /\ Fault
  /\ subscribed' = [subscribed EXCEPT ![i] = FALSE]
  /\ announced' = [announced EXCEPT ![i] = FALSE]
  /\ UNCHANGED <<document, configs, loaded, reading, update, timer, writes>>

TimerFires(i) ==
  /\ ~timer[i] /\ reading[i]["run"] = None
  /\ timer' = [timer EXCEPT ![i] = TRUE]
  /\ UNCHANGED <<document, configs, loaded, reading, update, bus, writes, faults>>

RunReads(i) ==
  /\ announced[i] \/ timer[i]
  /\ Reads(i, "run")
  /\ announced' = [announced EXCEPT ![i] = FALSE]
  /\ UNCHANGED <<document, configs, loaded, update, subscribed, timer, writes, faults>>

(* resetTimer, whatever became of the reload.                              *)
RunStores(i) ==
  /\ Stores(i, "run")
  /\ timer' = [timer EXCEPT ![i] = FALSE]
  /\ UNCHANGED <<update, announced>>

RunReadFails(i) ==
  /\ announced[i] \/ timer[i]
  /\ \A caller \in Callers : reading[i][caller] = None
  /\ Fault
  /\ announced' = [announced EXCEPT ![i] = FALSE]
  /\ timer' = [timer EXCEPT ![i] = FALSE]
  /\ UNCHANGED <<document, configs, loaded, reading, update, subscribed, writes>>

(* The process starts again: every game is off until the catalog is read.  *)
NewCatalog(i) ==
  /\ Fault
  /\ configs' = [configs EXCEPT ![i] = [g \in Games |-> NoDocument]]
  /\ loaded' = [loaded EXCEPT ![i] = FALSE]
  /\ reading' = [reading EXCEPT ![i] = [caller \in Callers |-> None]]
  /\ update' = [update EXCEPT ![i] = NoUpdate]
  /\ subscribed' = [subscribed EXCEPT ![i] = FALSE]
  /\ announced' = [announced EXCEPT ![i] = FALSE]
  /\ timer' = [timer EXCEPT ![i] = TRUE]
  /\ UNCHANGED <<document, writes>>

-----------------------------------------------------------------------------
Init ==
  /\ document = [g \in Games |-> NoDocument]
  /\ configs = [i \in Instances |-> [g \in Games |-> NoDocument]]
  /\ loaded = [i \in Instances |-> FALSE]
  /\ reading = [i \in Instances |-> [caller \in Callers |-> None]]
  /\ update = [i \in Instances |-> NoUpdate]
  /\ subscribed = [i \in Instances |-> FALSE]
  /\ announced = [i \in Instances |-> FALSE]
  /\ timer = [i \in Instances |-> TRUE]
  /\ writes = 0 /\ faults = 0

Run(i) == Subscribe(i) \/ TimerFires(i) \/ RunReads(i) \/ RunStores(i)
Changed(i) == ChangedReads(i) \/ ChangedStores(i) \/ PublishGameConfigChanged(i)

Next ==
  \/ \E i \in Instances, g \in Games, c \in Contents : UpdateGameConfig(i, g, c)
  \/ \E g \in Games, c \in Contents : EditDocument(g, c)
  \/ \E i \in Instances :
       \/ Run(i) \/ Changed(i)
       \/ ChangedReadFails(i) \/ LoseSubscription(i) \/ RunReadFails(i) \/ NewCatalog(i)

(* The timer runs, the loop and the handlers go on, and MongoDB answers    *)
(* once the faults are used up.                                            *)
Spec ==
  /\ Init /\ [][Next]_vars
  /\ \A i \in Instances :
       /\ WF_vars(TimerFires(i)) /\ WF_vars(RunReads(i)) /\ WF_vars(RunStores(i))
       /\ WF_vars(ChangedReads(i)) /\ WF_vars(ChangedStores(i))

-----------------------------------------------------------------------------
(* Properties *)

TypeOK ==
  /\ document \in [Games -> Documents]
  /\ configs \in [Instances -> [Games -> Documents]]
  /\ loaded \in [Instances -> BOOLEAN]
  /\ reading \in [Instances -> [Callers -> [Games -> Documents] \cup {None}]]
  /\ update \in [Instances ->
       [stage : {"none", "saved", "refreshed", "reported"},
        game : Games \cup {None}, write : 0 .. MaxWrites]]
  /\ {subscribed, announced, timer} \subseteq [Instances -> BOOLEAN]
  /\ writes \in 0 .. MaxWrites /\ faults \in 0 .. MaxFaults

(* Before the others are told and the operator is answered, the instance   *)
(* serves the new config, or one written later, unless a failure has been  *)
(* reported; and what an instance serves resolves in its release, whatever *)
(* was written by another.                                                 *)
UpdatedIsServed ==
  \A i \in Instances :
    /\ update[i].stage = "refreshed" => configs[i][update[i].game].write >= update[i].write
    /\ \A g \in Games : Accepts(i, configs[i][g])

CatalogOK == TypeOK /\ UpdatedIsServed

(* While an instance runs, a config it serves is never replaced by one     *)
(* written earlier, whichever of its reloads are under way.                *)
NeverGoesBack ==
  [][\A i \in Instances, g \in Games :
       loaded[i] /\ loaded'[i] => configs'[i][g].write >= configs[i][g].write]_vars

(* Once nobody writes any more, every instance comes to serve what is      *)
(* stored, of every game whose document its release resolves, though       *)
(* announcements, reads and subscriptions are lost.                        *)
Converges ==
  <>[](\A i \in Instances, g \in Games :
         Accepts(i, document[g]) => configs[i][g] = document[g])
=============================================================================
