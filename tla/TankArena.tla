----------------------------- MODULE TankArena -----------------------------
(***************************************************************************)
(* The arena of one House Tanks match (houseTanks/world.go and jokers.go), *)
(* tick by tick and round after round: presses, shots, hits and armour,    *)
(* aim locks, and the jokers that are dealt from a bag the rounds share.   *)
(*                                                                         *)
(* Positions are left out: what a shot touches in a tick, and which live   *)
(* tank stands on a joker, is any of the bodies it could be.  Where the    *)
(* code applies the hits of a tick one after the other, what becomes of a  *)
(* tank does not depend on their order, so they are a set here.            *)
(* When the next round starts is the votes' affair (module TankMatch); in  *)
(* this module it may start at any tick.                                   *)
(***************************************************************************)
EXTENDS Integers, FiniteSets

CONSTANTS
  Players,                \* the frozen roster, one tank each
  None,
  ArmorPerRound,
  FireCooldownTicks, RapidFireCooldownTicks,
  HitProtectionTicks,     \* a regular shot this soon after a hit is ignored
  ShellLifetimeTicks, RocketLifetimeTicks,
  SpreadShots,            \* shots of one spread-shot volley
  PowerUpDurationTicks, PowerUpTokenLifetimeTicks,
  PowerUpMinimumTicks, PowerUpMaximumTicks, PowerUpRetryTicks,
  RoundCountdownTicks,
  PowerUpKinds,           \* the jokers of a full bag
  MaxTick,                \* bound: the match is followed up to this tick
  MaxChanges              \* bound: presses, control changes and crashes of a match

\* What is left of the bag, and the kind dealt last.  Which of the rest comes
\* next is decided when it is dealt.
Bags == [left : SUBSET PowerUpKinds, last : PowerUpKinds \cup {None}]
\* The dealer a world has while its round plays.
Schedules == [bag : Bags, nextTokenTick : Nat]

ASSUME ArenaAssumption ==
  /\ IsFiniteSet(Players) /\ Cardinality(Players) > 1
  /\ {ArmorPerRound, FireCooldownTicks, RapidFireCooldownTicks, HitProtectionTicks,
      ShellLifetimeTicks, RocketLifetimeTicks, SpreadShots, PowerUpDurationTicks,
      PowerUpTokenLifetimeTicks, PowerUpMinimumTicks, PowerUpMaximumTicks,
      PowerUpRetryTicks, RoundCountdownTicks} \subseteq Nat \ {0}
  /\ PowerUpMinimumTicks <= PowerUpMaximumTicks
  /\ PowerUpKinds \subseteq {"rocket", "rapidFire", "spreadShot", "shield", "aim"}
  /\ \E k, l \in PowerUpKinds : k # l
  /\ None \notin Players \cup Nat \cup {"cover"} \cup PowerUpKinds
  /\ "cover" \notin Players /\ None \notin Schedules
  /\ MaxTick \in Nat /\ MaxChanges \in Nat

VARIABLES
  tick, phase, countdownEndsAt, controlled,
  bag,          \* the match's joker bag; the world has it while a round plays
  world,
  lastDealt,    \* the last joker the match dealt
  changes       \* how many presses, control changes and crashes there were

vars == <<tick, phase, countdownEndsAt, controlled, bag, world, lastDealt, changes>>

Phases == {"roundCountdown", "roundPlaying", "roundReady", "matchEnded"}
PowerUps == [kind : PowerUpKinds, expiresAt : Nat]
Shots == [owner : Players, spawnTick : Nat, angle : 1 .. SpreadShots,
          rocket : BOOLEAN, holdsAim : BOOLEAN, age : Nat]
Hits == [target : Players, shot : Shots]
Bodies == Players \cup {"cover"}     \* "cover": a wall, furniture or a crate

Tanks ==
  [active : BOOLEAN, controllable : BOOLEAN, driving : BOOLEAN,
   lastFireTick : Nat \cup {None}, aimLocks : Nat, armor : Nat,
   protectedUntil : Nat, powerUp : PowerUps \cup {None}]

\* Whether a restored bag could have been dealt by Next.
ValidBag(b) ==
  /\ b.last = None => b.left = {}
  /\ b.left # PowerUpKinds
  /\ b.last \notin b.left

Worlds ==
  [tick : Nat, tanks : [Players -> Tanks], projectiles : SUBSET Shots,
   token : PowerUps \cup {None},
   jokers : Schedules \cup {None},
   pendingHits : SUBSET Hits]

-----------------------------------------------------------------------------
(* One tank                                                                *)

\* A tank on its spawn point, at full armour.
FreshTank ==
  [active |-> TRUE, controllable |-> TRUE, driving |-> FALSE, lastFireTick |-> None,
   aimLocks |-> 0, armor |-> ArmorPerRound, protectedUntil |-> 0, powerUp |-> None]

\* Turning a tank into a stationary target releases its press and its aim.
SetControllable(t, controllable) ==
  IF t.controllable = controllable THEN t
  ELSE IF controllable THEN [t EXCEPT !.controllable = TRUE]
  ELSE [t EXCEPT !.controllable = FALSE, !.driving = FALSE, !.aimLocks = 0]

\* The tank is destroyed and stays as a wreck.
Eliminate(t) ==
  [t EXCEPT !.active = FALSE, !.driving = FALSE, !.aimLocks = 0, !.powerUp = None]

\* The joker in effect at a tick.
PowerUp(t, now) ==
  IF t.powerUp # None /\ t.powerUp.expiresAt > now THEN t.powerUp.kind ELSE None

\* The barrel has cooled down.
MayFire(t, now) ==
  t.lastFireTick = None
  \/ now - t.lastFireTick >= IF PowerUp(t, now) = "rapidFire" THEN RapidFireCooldownTicks
                             ELSE FireCooldownTicks

\* applyHits for one tank: of the regular shots that reach it in a tick, those after
\* the first and those right after an earlier hit are ignored; a rocket destroys
\* whatever armour is left.
Lethal(hits) == \E h \in hits : h.shot.rocket
Ignored(t, now, hits) == ~t.active \/ hits = {} \/ (~Lethal(hits) /\ now < t.protectedUntil)
\* Mutant of Damaged: the protection is looked up once for all the shots of a tick.
DamagedByEach(t, now, hits) ==
  [t EXCEPT !.armor = IF Lethal(hits) \/ Cardinality(hits) >= @ THEN 0 ELSE @ - Cardinality(hits),
            !.protectedUntil = now + HitProtectionTicks]
Damaged(t, now, hits) ==
  [t EXCEPT !.armor = IF Lethal(hits) THEN 0 ELSE @ - 1,
            !.protectedUntil = now + HitProtectionTicks]
Struck(t, now, hits) ==
  IF Ignored(t, now, hits) THEN t
  ELSE IF Damaged(t, now, hits).armor = 0 THEN Eliminate(Damaged(t, now, hits))
  ELSE Damaged(t, now, hits)

-----------------------------------------------------------------------------
(* The world                                                               *)

NewWorld(now, control) ==
  [tick |-> now, tanks |-> [p \in Players |-> SetControllable(FreshTank, control[p])],
   projectiles |-> {}, token |-> None, jokers |-> None, pendingHits |-> {}]

\* Freeze: the arena at a round's end is shown and not stepped again.
Freeze(w) ==
  [w EXCEPT !.projectiles = {}, !.pendingHits = {}, !.token = None, !.jokers = None,
            !.tanks = [p \in Players |-> [@[p] EXCEPT !.driving = FALSE, !.aimLocks = 0,
                                                      !.powerUp = None]]]

Power(w, p) == PowerUp(w.tanks[p], w.tick)

\* A shot that reaches an unshielded live tank hits it; a shield absorbs it, and
\* walls, furniture and wrecks only stop it.
Impact(w, shot, body) ==
  IF body \in Players /\ w.tanks[body].active /\ Power(w, body) # "shield"
  THEN {[target |-> body, shot |-> shot]} ELSE {}

\* What every shot of a set touches, if anything; never its owner.
Touches(shots) ==
  {touch \in [shots -> Bodies \cup {None}] : \A s \in shots : touch[s] # s.owner}

ImpactsOf(w, touch) == UNION {Impact(w, s, touch[s]) : s \in DOMAIN touch}
Landed(touch) == {s \in DOMAIN touch : touch[s] # None}
AimedBy(p, shots) == {s \in shots : s.owner = p /\ s.holdsAim}

\* What leaves the barrel at once: one shot, or one per angle of a spread shot.  A
\* barrel fires once in a tick, so owner, tick and angle tell the shots apart.
Volley(w, p) ==
  {[owner |-> p, spawnTick |-> w.tick, angle |-> i,
    rocket |-> Power(w, p) = "rocket", holdsAim |-> Power(w, p) = "aim", age |-> 0] :
     i \in 1 .. (IF Power(w, p) = "spreadShot" THEN SpreadShots ELSE 1)}

\* A tank has fired: its aimed shots hold it.
Recoil(t, now, aimed) == [t EXCEPT !.lastFireTick = now, !.aimLocks = @ + aimed]

\* The tanks of a set fire one volley each.  A muzzle already touching cover or a
\* tank hits it at once, and its shot never flies.
Fire(w, shooters, touch) ==
  [w EXCEPT
     !.projectiles = @ \cup (DOMAIN touch \ Landed(touch)),
     !.tanks = [p \in Players |->
        IF p \in shooters
        THEN Recoil(@[p], w.tick, Cardinality(AimedBy(p, DOMAIN touch \ Landed(touch))))
        ELSE @[p]]]

\* Press: lock the heading, fire once and drive; a barrel still cooling down is
\* skipped but the tank drives anyway.
Press(w, p, touch) ==
  [Fire(w, {q \in {p} : MayFire(w.tanks[q], w.tick)}, touch) EXCEPT
     !.tanks[p].driving = TRUE,
     !.pendingHits = @ \cup ImpactsOf(w, touch)]

\* expirePowerUps, at the new tick.
ExpirePowerUps(w) ==
  LET now == w.tick + 1
  IN  [w EXCEPT !.tick = now,
         !.token = IF @ # None /\ now >= @.expiresAt THEN None ELSE @,
         !.tanks = [p \in Players |->
            IF @[p].powerUp # None /\ now >= @[p].powerUp.expiresAt
            THEN [@[p] EXCEPT !.powerUp = None] ELSE @[p]]]

\* JokerBag.Next: every kind once per bag, and a new bag never starts with the
\* kind the previous one ended on.
NextKinds(b) == IF b.left = {} THEN PowerUpKinds \ {b.last} ELSE b.left
Draw(b, kind) ==
  [left |-> (IF b.left = {} THEN PowerUpKinds ELSE b.left) \ {kind}, last |-> kind]

SpawnIntervals == PowerUpMinimumTicks .. PowerUpMaximumTicks

JokerDue(w) == w.jokers # None /\ w.tick >= w.jokers.nextTokenTick

\* dealJoker: the joker that is due replaces the one on the floor, or is tried
\* again later when no spot is fair.
Deal(w, kind, interval) ==
  [w EXCEPT !.token = [kind |-> kind, expiresAt |-> w.tick + PowerUpTokenLifetimeTicks],
            !.jokers = [bag |-> Draw(@.bag, kind), nextTokenTick |-> w.tick + interval]]
Postpone(w) == [w EXCEPT !.jokers.nextTokenTick = w.tick + PowerUpRetryTicks]
DealJoker(w) ==
  IF ~JokerDue(w) THEN {w}
  ELSE {Deal(w, kind, interval) : kind \in NextKinds(w.jokers.bag), interval \in SpawnIntervals}
       \cup {Postpone(w)}

\* The driving tanks whose rapid fire shoots again in this tick.
RapidShooters(w) ==
  {p \in Players : /\ w.tanks[p].active /\ w.tanks[p].driving
                   /\ Power(w, p) = "rapidFire" /\ MayFire(w.tanks[p], w.tick)}

\* collectToken: the joker on the floor goes to a live tank over it, if any.
Collect(w, p) ==
  [w EXCEPT !.token = None,
            !.tanks[p].powerUp = [kind |-> w.token.kind, expiresAt |-> w.tick + PowerUpDurationTicks]]
CollectToken(w) ==
  {w} \cup {Collect(w, p) : p \in {q \in Players : w.token # None /\ w.tanks[q].active}}

Lifetime(s) == IF s.rocket THEN RocketLifetimeTicks ELSE ShellLifetimeTicks

FlyOn(s) == [s EXCEPT !.age = @ + 1]
\* releaseAim, for all the aimed shots of a tank that are gone.
ReleaseAim(t, gone) == [t EXCEPT !.aimLocks = IF @ > gone THEN @ - gone ELSE 0]
\* advanceProjectiles: every shot flies on, lands or is too old.  An aimed shot
\* that is gone lets its owner turn again.
Spent(touch) == Landed(touch) \cup {s \in DOMAIN touch : s.age + 1 >= Lifetime(s)}
\* Mutant of AdvanceProjectiles: a shot that is too old does not let go of the aim.
AdvanceProjectilesOnly(w, touch) ==
  [w EXCEPT
     !.pendingHits = {},
     !.projectiles = {FlyOn(s) : s \in @ \ Spent(touch)},
     !.tanks = [p \in Players |-> ReleaseAim(@[p], Cardinality(AimedBy(p, Landed(touch))))]]

AdvanceProjectiles(w, touch) ==
  [w EXCEPT
     !.pendingHits = {},
     !.projectiles = {FlyOn(s) : s \in @ \ Spent(touch)},
     !.tanks = [p \in Players |-> ReleaseAim(@[p], Cardinality(AimedBy(p, Spent(touch))))]]

ApplyHits(w, hits) ==
  [w EXCEPT !.tanks = [p \in Players |->
                         Struck(@[p], w.tick, {h \in hits : h.target = p})]]

-----------------------------------------------------------------------------
(* The rounds of the match                                                 *)

Ended == phase = "matchEnded"
Standing(w) == {p \in Players : w.tanks[p].active}

\* NewMatch: round 1 counts down at tick 0, and nobody controls a tank yet.
Init ==
  /\ tick = 0 /\ phase = "roundCountdown" /\ countdownEndsAt = RoundCountdownTicks
  /\ controlled = [p \in Players |-> FALSE]
  /\ bag = [left |-> {}, last |-> None]
  /\ world = NewWorld(0, controlled)
  /\ lastDealt = None /\ changes = 0

\* Mutant of StopRound: the next round starts from the bag this one started from.
StopRoundOnly(w) == world' = Freeze(w) /\ UNCHANGED bag

\* stopRound: the arena freezes and the match takes the joker bag back from it.
StopRound(w) ==
  /\ world' = Freeze(w)
  /\ bag' = IF w.jokers = None THEN bag ELSE w.jokers.bag

\* A tick of the countdown; the last one opens the round, which borrows the bag.
CountDown ==
  /\ phase = "roundCountdown" /\ tick < MaxTick
  /\ tick' = tick + 1
  /\ IF tick' < countdownEndsAt
     THEN world' = [world EXCEPT !.tick = tick'] /\ UNCHANGED phase
     ELSE /\ phase' = "roundPlaying"
          /\ \E interval \in SpawnIntervals :
               world' = [world EXCEPT !.tick = tick',
                           !.jokers = [bag |-> bag, nextTokenTick |-> tick' + interval]]
  /\ UNCHANGED <<countdownEndsAt, controlled, bag, lastDealt, changes>>

\* resolveRound, in the world a tick has led to: the round ends once one tank is
\* left or the last ones fell together.  The champion's last round ends the match.
ResolveRound(w) ==
  /\ IF Cardinality(Standing(w)) > 1
     THEN world' = w /\ UNCHANGED <<phase, bag>>
     ELSE /\ StopRound(w)
          /\ \/ phase' = "roundReady"
             \/ phase' = "matchEnded" /\ Standing(w) # {}
  /\ lastDealt' = IF w.jokers.bag # world.jokers.bag THEN w.jokers.bag.last ELSE lastDealt

\* Step: one tick of the arena - jokers, motion and rapid fire, the pickup, the
\* shots, and at its end the hits, so that tanks destroyed in it fall together.
PlayTick ==
  /\ phase = "roundPlaying" /\ tick < MaxTick
  /\ tick' = tick + 1
  /\ \E dealt \in DealJoker(ExpirePowerUps(world)) :
       \E muzzle \in Touches(UNION {Volley(dealt, p) : p \in RapidShooters(dealt)}) :
         \E taken \in CollectToken(Fire(dealt, RapidShooters(dealt), muzzle)) :
           \E touch \in Touches(taken.projectiles) :
             ResolveRound(ApplyHits(AdvanceProjectiles(taken, touch),
                                    world.pendingHits \cup ImpactsOf(dealt, muzzle)
                                                      \cup ImpactsOf(taken, touch)))
  /\ UNCHANGED <<countdownEndsAt, controlled, changes>>

\* A tick between the rounds: the votes may start the next one, in a fresh arena.
ReadyTick ==
  /\ phase = "roundReady" /\ tick < MaxTick
  /\ tick' = tick + 1
  /\ \/ UNCHANGED <<phase, countdownEndsAt, world>>
     \/ /\ phase' = "roundCountdown"
        /\ countdownEndsAt' = tick' + RoundCountdownTicks
        /\ world' = NewWorld(tick', controlled)
  /\ UNCHANGED <<controlled, bag, lastDealt, changes>>

\* The match ends at any time: too few players, its time limit or a cancellation.
End ==
  /\ ~Ended
  /\ phase' = "matchEnded"
  /\ IF phase \in {"roundPlaying", "roundCountdown"} THEN StopRound(world)
     ELSE UNCHANGED <<world, bag>>
  /\ UNCHANGED <<tick, countdownEndsAt, controlled, lastDealt, changes>>

Change == changes < MaxChanges /\ changes' = changes + 1

\* applyPress: only a round that plays takes a press, and only for a live tank
\* its player controls and does not already drive.
PressTank(p) ==
  /\ phase = "roundPlaying" /\ Change
  /\ LET t == world.tanks[p]
         shots == IF MayFire(t, world.tick) THEN Volley(world, p) ELSE {}
     IN  /\ t.active /\ t.controllable /\ ~t.driving
         /\ \E touch \in Touches(shots) : world' = Press(world, p, touch)
  /\ UNCHANGED <<tick, phase, countdownEndsAt, controlled, bag, lastDealt>>

Release(p) ==
  /\ phase = "roundPlaying"
  /\ world.tanks[p].driving
  /\ world' = [world EXCEPT !.tanks[p].driving = FALSE]
  /\ UNCHANGED <<tick, phase, countdownEndsAt, controlled, bag, lastDealt, changes>>

\* A player's control binding appears or goes away.
SetControl(p, control) ==
  /\ ~Ended /\ Change
  /\ controlled[p] # control
  /\ controlled' = [controlled EXCEPT ![p] = control]
  /\ world' = [world EXCEPT !.tanks[p] = SetControllable(@, control)]
  /\ UNCHANGED <<tick, phase, countdownEndsAt, bag, lastDealt>>

\* DecodeMatch: a checkpoint whose joker bag no dealer could have left is refused.
Restorable == ValidBag(bag) /\ (world.jokers = None \/ ValidBag(world.jokers.bag))

\* A crash: the next owner restores the match, and every tank is a stationary
\* target until its player binds again; a match it cannot restore is cancelled.
Recover ==
  /\ ~Ended /\ Change
  /\ IF Restorable
     THEN /\ controlled' = [p \in Players |-> FALSE]
          /\ world' = [world EXCEPT !.tanks =
                         [p \in Players |-> SetControllable(@[p], FALSE)]]
          /\ UNCHANGED phase
     ELSE phase' = "matchEnded" /\ UNCHANGED <<controlled, world>>
  /\ UNCHANGED <<tick, countdownEndsAt, bag, lastDealt>>

Next ==
  \/ CountDown \/ PlayTick \/ ReadyTick \/ End \/ Recover
  \/ \E p \in Players :
       \/ PressTank(p)
       \/ Release(p)
       \/ \E control \in BOOLEAN : SetControl(p, control)

Spec == Init /\ [][Next]_vars

-----------------------------------------------------------------------------
(* Properties                                                              *)

\* Every field keeps its type; in particular armour never drops below zero, and
\* every bag a checkpoint may hold is one its restoration accepts.
TypeOK ==
  /\ tick \in Nat /\ phase \in Phases /\ countdownEndsAt \in Nat
  /\ controlled \in [Players -> BOOLEAN]
  /\ bag \in Bags /\ lastDealt \in PowerUpKinds \cup {None} /\ changes \in Nat
  /\ world \in Worlds
  /\ Restorable

\* However many shots meet in a tank - a volley, two shooters, a press and a tick -
\* regular shots wear it down one point of armour per protection time, and only a
\* rocket is quicker: a tank still alive that has lost n points was protected for n
\* such times since its round began (applyHits).
ArmorTakesTime ==
  \A p \in Players :
    LET t == world.tanks[p]
        lost == ArmorPerRound - t.armor
    IN  t.active /\ lost > 0 => t.protectedUntil >= countdownEndsAt + lost * HitProtectionTicks

\* A tank is held by its aim only as long as a shot of its own is in flight that will
\* let it go: no order of landings, losses of control, wrecks and rounds leaves one
\* that can never turn again (releaseAim, SetControllable, eliminate, Freeze).
AimIsHeldByAShot ==
  TypeOK /\ \A p \in Players :
    world.tanks[p].aimLocks <= Cardinality(AimedBy(p, world.projectiles))

\* No joker is dealt twice in a row in a match, even across rounds and after a
\* recovery: the bag the last round ended with is the one the next begins with.
NeverTwiceInARow ==
  [][ LET dealt == world'.jokers # None /\ world.jokers # None
                   /\ world'.jokers.bag # world.jokers.bag
      IN  dealt => world'.jokers.bag.last # lastDealt ]_vars
=============================================================================
