-------------------------- MODULE TankArenaProofs --------------------------
(***************************************************************************)
(* How fast a tank is worn down, that its jokers vary and restore, and     *)
(* that its aim lets it go, for any number of tanks and any timing of the  *)
(* rules.                                                                  *)
(***************************************************************************)
EXTENDS TankArena, TLAPS, FiniteSetTheorems

\* The fields of a tank the armour rule is about.
Body(t) ==
  /\ DOMAIN t = DOMAIN FreshTank
  /\ t.active \in BOOLEAN /\ t.armor \in 0 .. ArmorPerRound
  /\ t.active => t.armor > 0
  /\ t.protectedUntil \in Nat

\* Two states of a tank between which nothing hit it.
SameBody(t, u) ==
  /\ DOMAIN u = DOMAIN t
  /\ u.active = t.active /\ u.armor = t.armor /\ u.protectedUntil = t.protectedUntil

Lost(t) == ArmorPerRound - t.armor
Worn(t, since) ==
  t.active /\ Lost(t) > 0 => t.protectedUntil >= since + Lost(t) * HitProtectionTicks

\* A world with its tanks, and with all its fields.
Arena(w) ==
  /\ DOMAIN w = {"tick", "tanks", "projectiles", "token", "jokers", "pendingHits"}
  /\ w.tick \in Nat /\ DOMAIN w.tanks = Players
  /\ \A p \in Players : Body(w.tanks[p])

\* An arena worn down as ArmorTakesTime says.
Fit(w, since) == Arena(w) /\ \A p \in Players : Worn(w.tanks[p], since)

\* v may come of w without a hit.
NoHit(w, v) ==
  /\ DOMAIN v = DOMAIN w /\ DOMAIN v.tanks = Players
  /\ \A p \in Players : SameBody(w.tanks[p], v.tanks[p])

\* The inductive invariant: a round that plays has left its countdown behind, and
\* so was every tank worn down.
ArmorInv ==
  /\ tick \in Nat /\ countdownEndsAt \in Nat /\ controlled \in [Players -> BOOLEAN]
  /\ Fit(world, countdownEndsAt)
  /\ phase = "roundPlaying" => world.tick >= countdownEndsAt
  /\ phase = "roundCountdown" => \A p \in Players : world.tanks[p].armor = ArmorPerRound

-----------------------------------------------------------------------------
(* One tank                                                                *)

LEMMA FreshBody ==
  /\ Body(FreshTank) /\ FreshTank.armor = ArmorPerRound
  BY ArenaAssumption DEF Body, FreshTank

LEMMA ControlKeepsBody ==
  ASSUME NEW t, Body(t), NEW b \in BOOLEAN
  PROVE  SameBody(t, SetControllable(t, b))
  BY DEF Body, SameBody, SetControllable, FreshTank

\* A hit costs one point of armour at most, and only after the protection of the
\* hit before; a tank that has none left is a wreck.
LEMMA StruckWorn ==
  ASSUME NEW t, Body(t), NEW now \in Nat, NEW since \in Nat, now >= since,
         Worn(t, since), NEW hits
  PROVE  Body(Struck(t, now, hits)) /\ Worn(Struck(t, now, hits), since)
  <1> DEFINE hit == Damaged(t, now, hits)
  <1>1. CASE Ignored(t, now, hits)
    <2>1. Struck(t, now, hits) = t
      BY <1>1 DEF Struck
    <2> QED BY <2>1
  <1>2. CASE ~Ignored(t, now, hits)
    <2>1. /\ t.active /\ t.armor > 0
          /\ hit.armor = 0 \/ (now >= t.protectedUntil /\ hit.armor = t.armor - 1)
      BY <1>2 DEF Ignored, Damaged, Body, FreshTank
    <2>2. /\ DOMAIN hit = DOMAIN FreshTank /\ hit.active = t.active
          /\ hit.armor \in 0 .. ArmorPerRound
          /\ hit.protectedUntil = now + HitProtectionTicks
      <3>1. /\ DOMAIN hit = DOMAIN FreshTank /\ hit.active = t.active
            /\ hit.protectedUntil = now + HitProtectionTicks
        BY DEF Damaged, Body, FreshTank
      <3>2. hit.armor \in 0 .. ArmorPerRound
        <4> HIDE DEF hit
        <4> QED BY <2>1, ArenaAssumption DEF Body
      <3> QED BY <3>1, <3>2
    <2>3. CASE hit.armor = 0
      <3>1. Body(Eliminate(hit)) /\ ~Eliminate(hit).active
        BY <2>2, <2>3, ArenaAssumption DEF Body, Eliminate, FreshTank
      <3> QED BY <1>2, <2>3, <3>1 DEF Struck, Worn
    <2>4. CASE hit.armor # 0
      <3>1. Struck(t, now, hits) = hit
        BY <1>2, <2>4 DEF Struck
      <3>2. Body(hit)
        BY <2>1, <2>2, <2>4, ArenaAssumption DEF Body
      <3>3. /\ Lost(hit) = Lost(t) + 1 /\ Lost(t) \in Nat
            /\ now >= since + Lost(t) * HitProtectionTicks
        <4>1. Lost(hit) = Lost(t) + 1 /\ Lost(t) \in Nat
          BY <2>1, <2>4, ArenaAssumption DEF Lost, Body
        <4>2. CASE Lost(t) = 0
          BY <4>1, <4>2, ArenaAssumption
        <4>3. CASE Lost(t) > 0
          BY <2>1, <2>4, <4>1, <4>3, ArenaAssumption DEF Worn, Body
        <4> QED BY <4>1, <4>2, <4>3
      <3>4. Lost(hit) * HitProtectionTicks = Lost(t) * HitProtectionTicks + HitProtectionTicks
        BY <3>3, ArenaAssumption
      <3>5. hit.protectedUntil >= since + Lost(hit) * HitProtectionTicks
        BY <2>2, <3>3, <3>4, ArenaAssumption
      <3> QED BY <3>1, <3>2, <3>5 DEF Worn
    <2> QED BY <2>3, <2>4
  <1> QED BY <1>1, <1>2

-----------------------------------------------------------------------------
(* The world                                                               *)

LEMMA FireHitsNobody ==
  ASSUME NEW w, Arena(w), NEW shooters, NEW touch
  PROVE  NoHit(w, Fire(w, shooters, touch)) /\ Fire(w, shooters, touch).tick = w.tick
  BY DEF Arena, NoHit, Fire, Recoil, Body, SameBody, FreshTank, NewWorld

LEMMA ExpiryHitsNobody ==
  ASSUME NEW w, Arena(w)
  PROVE  NoHit(w, ExpirePowerUps(w)) /\ ExpirePowerUps(w).tick = w.tick + 1
  BY DEF Arena, NoHit, ExpirePowerUps, Body, SameBody, FreshTank, NewWorld

LEMMA JokerHitsNobody ==
  ASSUME NEW w, Arena(w), NEW v \in DealJoker(w)
  PROVE  NoHit(w, v) /\ v.tick = w.tick
  <1>1. CASE v = w
    BY <1>1 DEF Arena, NoHit, SameBody
  <1>2. CASE v # w
    <2>1. v = Postpone(w) \/ \E kind, interval : v = Deal(w, kind, interval)
      BY <1>2 DEF DealJoker
    <2>2. DOMAIN v = DOMAIN w /\ v.tanks = w.tanks /\ v.tick = w.tick
      BY <2>1 DEF Arena, Postpone, Deal
    <2> QED BY <2>2 DEF Arena, NoHit, SameBody
  <1> QED BY <1>1, <1>2

LEMMA PickupHitsNobody ==
  ASSUME NEW w, Arena(w), NEW v \in CollectToken(w)
  PROVE  NoHit(w, v) /\ v.tick = w.tick
  <1>1. CASE v = w
    BY <1>1 DEF Arena, NoHit, SameBody
  <1>2. CASE v # w
    <2>1. PICK p \in Players : v = Collect(w, p)
      BY <1>2 DEF CollectToken
    <2>2. /\ DOMAIN v = DOMAIN w /\ v.tick = w.tick
          /\ v.tanks = [w.tanks EXCEPT ![p].powerUp = v.tanks[p].powerUp]
      BY <2>1 DEF Arena, Collect, Body, FreshTank
    <2> QED BY <2>2 DEF Arena, NoHit, SameBody, Body, FreshTank
  <1> QED BY <1>1, <1>2

LEMMA FlightHitsNobody ==
  ASSUME NEW w, Arena(w), NEW touch
  PROVE  NoHit(w, AdvanceProjectiles(w, touch)) /\ AdvanceProjectiles(w, touch).tick = w.tick
  BY DEF Arena, NoHit, AdvanceProjectiles, ReleaseAim, Body, SameBody, FreshTank, NewWorld

LEMMA FreezeHitsNobody ==
  ASSUME NEW w, Arena(w)
  PROVE  NoHit(w, Freeze(w)) /\ Freeze(w).tick = w.tick
  BY DEF Arena, NoHit, Freeze, Body, SameBody, FreshTank, NewWorld

\* What nobody was hit in is still an arena, worn as before.
LEMMA NoHitFit ==
  ASSUME NEW w, NEW since, Fit(w, since), NEW v, NoHit(w, v), v.tick \in Nat
  PROVE  Fit(v, since)
  BY DEF Fit, Arena, NoHit, Body, SameBody, Worn, Lost

\* One tick of the arena wears every tank down as ArmorTakesTime says.
LEMMA StepFit ==
  ASSUME NEW w, NEW since \in Nat, Fit(w, since), w.tick >= since,
         NEW dealt \in DealJoker(ExpirePowerUps(w)), NEW muzzle,
         NEW taken \in CollectToken(Fire(dealt, RapidShooters(dealt), muzzle)),
         NEW touch, NEW hits, NEW v, v = ApplyHits(AdvanceProjectiles(taken, touch), hits)
  PROVE  Fit(v, since) /\ v.tick = w.tick + 1
  <1> DEFINE now == w.tick + 1
             expired == ExpirePowerUps(w)
             fired == Fire(dealt, RapidShooters(dealt), muzzle)
             flown == AdvanceProjectiles(taken, touch)
  <1>2. now \in Nat /\ now >= since
    BY DEF Fit, Arena
  <1>3. Fit(expired, since) /\ expired.tick = now
    <2>1. NoHit(w, expired) /\ expired.tick = now
      BY ExpiryHitsNobody DEF Fit
    <2> QED BY <1>2, <2>1, NoHitFit
  <1>4. Fit(dealt, since) /\ dealt.tick = now
    <2>1. NoHit(expired, dealt) /\ dealt.tick = now
      BY <1>3, JokerHitsNobody DEF Fit
    <2> QED BY <1>2, <1>3, <2>1, NoHitFit
  <1>5. Fit(fired, since) /\ fired.tick = now
    <2>1. NoHit(dealt, fired) /\ fired.tick = now
      BY <1>4, FireHitsNobody DEF Fit
    <2> QED BY <1>2, <1>4, <2>1, NoHitFit
  <1>6. Fit(taken, since) /\ taken.tick = now
    <2>1. NoHit(fired, taken) /\ taken.tick = now
      BY <1>5, PickupHitsNobody DEF Fit
    <2> QED BY <1>2, <1>5, <2>1, NoHitFit
  <1>7. Fit(flown, since) /\ flown.tick = now
    <2>1. NoHit(taken, flown) /\ flown.tick = now
      BY <1>6, FlightHitsNobody DEF Fit
    <2> QED BY <1>2, <1>6, <2>1, NoHitFit
  <1> HIDE DEF flown, now
  <1>8. /\ DOMAIN v = DOMAIN flown /\ v.tick = now /\ DOMAIN v.tanks = Players
        /\ \A p \in Players :
             v.tanks[p] = Struck(flown.tanks[p], now, {h \in hits : h.target = p})
    <2>1. v = [flown EXCEPT !.tanks =
                 [p \in Players |-> Struck(flown.tanks[p], flown.tick, {h \in hits : h.target = p})]]
      BY DEF ApplyHits, flown
    <2> QED BY <1>7, <2>1 DEF Fit, Arena
  <1>9. ASSUME NEW p \in Players
        PROVE  Body(v.tanks[p]) /\ Worn(v.tanks[p], since)
    <2>1. Body(flown.tanks[p]) /\ Worn(flown.tanks[p], since)
      BY <1>7 DEF Fit, Arena
    <2> DEFINE mine == {h \in hits : h.target = p}
    <2>2. /\ Body(Struck(flown.tanks[p], now, mine))
          /\ Worn(Struck(flown.tanks[p], now, mine), since)
      <3> HIDE DEF mine
      <3> QED BY <1>2, <2>1, StruckWorn
    <2> QED BY <1>8, <2>2
  <1>10. Arena(v) /\ v.tick = now
    BY <1>2, <1>7, <1>8, <1>9 DEF Arena, Fit
  <1> QED BY <1>9, <1>10 DEF Fit, now

-----------------------------------------------------------------------------
(* The match                                                               *)

LEMMA NewArena ==
  ASSUME NEW now \in Nat, NEW control \in [Players -> BOOLEAN]
  PROVE  /\ Arena(NewWorld(now, control)) /\ NewWorld(now, control).tick = now
         /\ \A p \in Players : NewWorld(now, control).tanks[p].armor = ArmorPerRound
  <1>1. \A p \in Players : SameBody(FreshTank, SetControllable(FreshTank, control[p]))
    BY FreshBody, ControlKeepsBody
  <1> QED BY <1>1, FreshBody DEF Arena, NewWorld, Body, SameBody

LEMMA ArmorInit == Init => ArmorInv
  <1> SUFFICES ASSUME Init PROVE ArmorInv
    OBVIOUS
  <1>1. controlled \in [Players -> BOOLEAN]
    BY DEF Init
  <1>2. /\ Arena(world)
        /\ \A p \in Players : world.tanks[p].armor = ArmorPerRound
    <2>1. /\ Arena(NewWorld(0, controlled))
          /\ \A p \in Players : NewWorld(0, controlled).tanks[p].armor = ArmorPerRound
      BY <1>1, NewArena
    <2> QED BY <2>1 DEF Init
  <1>3. Fit(world, countdownEndsAt)
    BY <1>2, ArenaAssumption DEF Fit, Worn, Lost
  <1>4. /\ tick \in Nat /\ countdownEndsAt \in Nat /\ phase = "roundCountdown"
    BY ArenaAssumption DEF Init
  <1> QED BY <1>1, <1>2, <1>3, <1>4 DEF ArmorInv

\* What leaves the rounds alone and hits nobody keeps the invariant.
LEMMA NoHitKeeps ==
  ASSUME ArmorInv, UNCHANGED <<tick, phase, countdownEndsAt>>,
         controlled' \in [Players -> BOOLEAN], NoHit(world, world'), world'.tick = world.tick
  PROVE  ArmorInv'
  <1>1. Fit(world', countdownEndsAt)
    BY NoHitFit DEF ArmorInv, Fit, Arena
  <1>2. \A p \in Players : world'.tanks[p].armor = world.tanks[p].armor
    BY DEF NoHit, SameBody
  <1> QED BY <1>1, <1>2 DEF ArmorInv

\* A round or a match that ends freezes its arena.
LEMMA FrozenKeeps ==
  ASSUME ArmorInv, phase' \in {"roundReady", "matchEnded"}, tick' \in Nat,
         UNCHANGED <<countdownEndsAt, controlled>>,
         NEW w, Fit(w, countdownEndsAt), world' = Freeze(w)
  PROVE  ArmorInv'
  <1>1. Fit(world', countdownEndsAt)
    BY FreezeHitsNobody, NoHitFit DEF Fit, Arena
  <1> QED BY <1>1 DEF ArmorInv

LEMMA ArmorCountDown == ArmorInv /\ CountDown => ArmorInv'
  <1> SUFFICES ASSUME ArmorInv, CountDown PROVE ArmorInv'
    OBVIOUS
  <1>1. /\ NoHit(world, world') /\ world'.tick = tick + 1
        /\ tick' = tick + 1
        /\ phase' = "roundPlaying" => world'.tick >= countdownEndsAt
        /\ UNCHANGED <<countdownEndsAt, controlled>>
    <2>1. CASE tick' < countdownEndsAt
      BY <2>1 DEF CountDown, ArmorInv, Fit, Arena, NoHit, SameBody
    <2>2. CASE ~(tick' < countdownEndsAt)
      <3>1. PICK interval \in SpawnIntervals :
              world' = [world EXCEPT !.tick = tick',
                          !.jokers = [bag |-> bag, nextTokenTick |-> tick' + interval]]
        BY <2>2 DEF CountDown
      <3>2. /\ tick' = tick + 1 /\ tick \in Nat /\ countdownEndsAt \in Nat
            /\ UNCHANGED <<countdownEndsAt, controlled>>
        BY DEF CountDown, ArmorInv
      <3>3. world'.tick = tick' /\ world'.tanks = world.tanks /\ DOMAIN world' = DOMAIN world
        BY <3>1 DEF ArmorInv, Fit, Arena
      <3> QED BY <2>2, <3>2, <3>3 DEF ArmorInv, Fit, Arena, NoHit, SameBody
    <2> QED BY <2>1, <2>2
  <1>2. Fit(world', countdownEndsAt)
    BY <1>1, NoHitFit DEF ArmorInv
  <1>3. \A p \in Players : world'.tanks[p].armor = ArmorPerRound
    BY <1>1 DEF NoHit, SameBody, ArmorInv, CountDown
  <1> QED BY <1>1, <1>2, <1>3 DEF ArmorInv

LEMMA ArmorPlayTick == ArmorInv /\ PlayTick => ArmorInv'
  <1> SUFFICES ASSUME ArmorInv, PlayTick PROVE ArmorInv'
    OBVIOUS
  <1>1. PICK dealt \in DealJoker(ExpirePowerUps(world)) :
          \E muzzle \in Touches(UNION {Volley(dealt, p) : p \in RapidShooters(dealt)}) :
            \E taken \in CollectToken(Fire(dealt, RapidShooters(dealt), muzzle)) :
              \E touch \in Touches(taken.projectiles) :
                ResolveRound(ApplyHits(AdvanceProjectiles(taken, touch),
                                       world.pendingHits \cup ImpactsOf(dealt, muzzle)
                                                         \cup ImpactsOf(taken, touch)))
    BY DEF PlayTick
  <1>2. PICK muzzle, taken, touch, hits :
          /\ taken \in CollectToken(Fire(dealt, RapidShooters(dealt), muzzle))
          /\ ResolveRound(ApplyHits(AdvanceProjectiles(taken, touch), hits))
    BY <1>1
  <1> DEFINE w == ApplyHits(AdvanceProjectiles(taken, touch), hits)
  <1>3. phase = "roundPlaying" /\ tick' = tick + 1 /\ UNCHANGED <<countdownEndsAt, controlled>>
    BY DEF PlayTick
  <1>4. Fit(w, countdownEndsAt) /\ w.tick = world.tick + 1
    BY <1>2, <1>3, StepFit DEF ArmorInv
  <1> HIDE DEF w
  <1>5. CASE world' = w /\ UNCHANGED phase
    BY <1>3, <1>4, <1>5 DEF ArmorInv, Fit, Arena
  <1>6. CASE world' = Freeze(w) /\ phase' \in {"roundReady", "matchEnded"}
    BY <1>3, <1>4, <1>6, FrozenKeeps DEF ArmorInv
  <1>7. \/ world' = w /\ UNCHANGED phase
        \/ world' = Freeze(w) /\ phase' \in {"roundReady", "matchEnded"}
    BY <1>2 DEF ResolveRound, StopRound, w
  <1> QED BY <1>5, <1>6, <1>7

LEMMA ArmorReadyTick == ArmorInv /\ ReadyTick => ArmorInv'
  <1> SUFFICES ASSUME ArmorInv, ReadyTick PROVE ArmorInv'
    OBVIOUS
  <1>1. CASE UNCHANGED <<phase, countdownEndsAt, world>>
    BY <1>1 DEF ReadyTick, ArmorInv
  <1>2. CASE /\ phase' = "roundCountdown" /\ countdownEndsAt' = tick' + RoundCountdownTicks
             /\ world' = NewWorld(tick', controlled)
    <2>1. tick' \in Nat /\ countdownEndsAt' \in Nat /\ controlled' = controlled
      BY <1>2, ArenaAssumption DEF ReadyTick, ArmorInv
    <2>2. /\ Arena(world')
          /\ \A p \in Players : world'.tanks[p].armor = ArmorPerRound
      BY <1>2, <2>1, NewArena DEF ArmorInv
    <2>3. Fit(world', countdownEndsAt')
      BY <2>2, ArenaAssumption DEF Fit, Worn, Lost
    <2> QED BY <1>2, <2>1, <2>2, <2>3 DEF ArmorInv
  <1> QED BY <1>1, <1>2 DEF ReadyTick

LEMMA ArmorEnd == ArmorInv /\ End => ArmorInv'
  <1> SUFFICES ASSUME ArmorInv, End PROVE ArmorInv'
    OBVIOUS
  <1>1. CASE phase \in {"roundPlaying", "roundCountdown"}
    BY <1>1, FrozenKeeps DEF End, StopRound, ArmorInv
  <1>2. CASE phase \notin {"roundPlaying", "roundCountdown"}
    BY <1>2 DEF End, ArmorInv
  <1> QED BY <1>1, <1>2

LEMMA ArmorPress ==
  ASSUME ArmorInv, NEW p \in Players, PressTank(p)
  PROVE  ArmorInv'
  <1>1. PICK touch : world' = Press(world, p, touch)
    BY DEF PressTank
  <1> DEFINE fired == Fire(world, {q \in {p} : MayFire(world.tanks[q], world.tick)}, touch)
  <1>2. NoHit(world, fired) /\ fired.tick = world.tick
    BY FireHitsNobody DEF ArmorInv, Fit
  <1> HIDE DEF fired
  <1>3. world' = [fired EXCEPT !.tanks[p].driving = TRUE,
                               !.pendingHits = @ \cup ImpactsOf(world, touch)]
    BY <1>1 DEF Press, fired
  <1>4. NoHit(world, world') /\ world'.tick = world.tick
    BY <1>2, <1>3 DEF NoHit, SameBody, ArmorInv, Fit, Arena, Body, FreshTank
  <1> QED BY <1>4, NoHitKeeps DEF PressTank, ArmorInv

LEMMA ArmorRelease ==
  ASSUME ArmorInv, NEW p \in Players, Release(p)
  PROVE  ArmorInv'
  <1>1. NoHit(world, world') /\ world'.tick = world.tick
    BY DEF Release, NoHit, SameBody, ArmorInv, Fit, Arena, Body, FreshTank
  <1> QED BY <1>1, NoHitKeeps DEF Release, ArmorInv

LEMMA ArmorSetControl ==
  ASSUME ArmorInv, NEW p \in Players, NEW control \in BOOLEAN, SetControl(p, control)
  PROVE  ArmorInv'
  <1>1. SameBody(world.tanks[p], SetControllable(world.tanks[p], control))
    BY ControlKeepsBody DEF ArmorInv, Fit, Arena
  <1>2. world' = [world EXCEPT !.tanks[p] = SetControllable(world.tanks[p], control)]
    BY DEF SetControl
  <1>3. NoHit(world, world') /\ world'.tick = world.tick
    BY <1>1, <1>2 DEF NoHit, SameBody, ArmorInv, Fit, Arena
  <1>4. controlled' \in [Players -> BOOLEAN]
    BY DEF SetControl, ArmorInv
  <1> QED BY <1>3, <1>4, NoHitKeeps DEF SetControl, ArmorInv

LEMMA ArmorRecover == ArmorInv /\ Recover => ArmorInv'
  <1> SUFFICES ASSUME ArmorInv, Recover PROVE ArmorInv'
    OBVIOUS
  <1>1. CASE Restorable
    <2>1. \A p \in Players : SameBody(world.tanks[p], SetControllable(world.tanks[p], FALSE))
      BY ControlKeepsBody DEF ArmorInv, Fit, Arena
    <2>2. /\ world' = [world EXCEPT !.tanks =
                         [p \in Players |-> SetControllable(world.tanks[p], FALSE)]]
          /\ controlled' = [p \in Players |-> FALSE]
          /\ UNCHANGED <<tick, phase, countdownEndsAt>>
      BY <1>1 DEF Recover
    <2>3. NoHit(world, world') /\ world'.tick = world.tick
      BY <2>1, <2>2 DEF NoHit, ArmorInv, Fit, Arena
    <2> QED BY <2>2, <2>3, NoHitKeeps
  <1>2. CASE ~Restorable
    BY <1>2 DEF Recover, ArmorInv
  <1> QED BY <1>1, <1>2

LEMMA ArmorNext == ArmorInv /\ [Next]_vars => ArmorInv'
  <1> SUFFICES ASSUME ArmorInv, [Next]_vars PROVE ArmorInv'
    OBVIOUS
  <1>1. CASE CountDown \/ PlayTick \/ ReadyTick \/ End \/ Recover
    BY <1>1, ArmorCountDown, ArmorPlayTick, ArmorReadyTick, ArmorEnd, ArmorRecover
  <1>2. ASSUME NEW p \in Players, PressTank(p) \/ Release(p)
        PROVE  ArmorInv'
    BY <1>2, ArmorPress, ArmorRelease
  <1>3. ASSUME NEW p \in Players, NEW control \in BOOLEAN, SetControl(p, control)
        PROVE  ArmorInv'
    BY <1>3, ArmorSetControl
  <1>4. CASE UNCHANGED vars
    BY <1>4 DEF vars, ArmorInv
  <1> QED BY <1>1, <1>2, <1>3, <1>4 DEF Next

\* Regular shots wear a tank down one point of armour per protection time, whoever
\* fires them and however the ticks, presses, rounds and crashes interleave
\* (applyHits, beginRound, restoreRuntime).
THEOREM ArmorHolds == Spec => []ArmorTakesTime
  <1>1. ArmorInv => ArmorTakesTime
    BY DEF ArmorInv, Fit, Worn, Lost, ArmorTakesTime
  <1> QED BY <1>1, ArmorInit, ArmorNext, PTL DEF Spec

-----------------------------------------------------------------------------
(* The jokers                                                              *)

\* The dealer of a round that plays, and the bag the match keeps between rounds;
\* what was dealt last is on top of either.
DealerInv ==
  /\ phase \in Phases
  /\ phase = "roundPlaying" => /\ world.jokers \in Schedules /\ ValidBag(world.jokers.bag)
                               /\ lastDealt = world.jokers.bag.last
  /\ phase # "roundPlaying" => world.jokers = None /\ lastDealt = bag.last
  /\ bag \in Bags /\ ValidBag(bag)

LEMMA DealerRestorable == DealerInv => Restorable
  BY DEF DealerInv, Restorable

\* A bag deals a kind that is not the last one, and stays one that restores.
LEMMA DrawVaries ==
  ASSUME NEW b \in Bags, ValidBag(b), NEW kind \in NextKinds(b)
  PROVE  /\ Draw(b, kind) \in Bags /\ ValidBag(Draw(b, kind))
         /\ Draw(b, kind).last = kind /\ kind # b.last
  <1>1. kind \in PowerUpKinds /\ kind # b.last
    BY DEF NextKinds, Bags, ValidBag
  <1>2. Draw(b, kind) \in Bags /\ Draw(b, kind).last = kind /\ kind \notin Draw(b, kind).left
    BY <1>1 DEF Draw, Bags
  <1>3. kind # None /\ Draw(b, kind).left # PowerUpKinds
    BY <1>1, <1>2, ArenaAssumption
  <1> QED BY <1>1, <1>2, <1>3 DEF ValidBag

\* dealJoker deals one kind or none.
LEMMA DealVaries ==
  ASSUME NEW w, Arena(w), w.jokers \in Schedules, ValidBag(w.jokers.bag), NEW v \in DealJoker(w)
  PROVE  /\ v.jokers \in Schedules /\ ValidBag(v.jokers.bag)
         /\ v.jokers.bag = w.jokers.bag \/ v.jokers.bag.last # w.jokers.bag.last
  <1>1. CASE v = w
    BY <1>1
  <1>2. CASE v = Postpone(w)
    <2>1. v.jokers = [w.jokers EXCEPT !.nextTokenTick = w.tick + PowerUpRetryTicks]
      BY <1>2 DEF Postpone, Arena
    <2>2. w.tick + PowerUpRetryTicks \in Nat
      BY ArenaAssumption DEF Arena
    <2> QED BY <2>1, <2>2 DEF Schedules
  <1>3. ASSUME NEW kind \in NextKinds(w.jokers.bag), NEW interval \in SpawnIntervals,
               v = Deal(w, kind, interval)
        PROVE  /\ v.jokers \in Schedules /\ ValidBag(v.jokers.bag)
               /\ v.jokers.bag.last # w.jokers.bag.last
    <2>1. v.jokers = [bag |-> Draw(w.jokers.bag, kind), nextTokenTick |-> w.tick + interval]
      BY <1>3 DEF Deal, Arena
    <2>2. w.tick + interval \in Nat
      BY ArenaAssumption DEF Arena, SpawnIntervals
    <2>3. w.jokers.bag \in Bags
      BY DEF Schedules
    <2> QED BY <2>1, <2>2, <2>3, DrawVaries DEF Schedules
  <1> QED BY <1>1, <1>2, <1>3 DEF DealJoker

\* Nothing else in a tick touches the dealer.
LEMMA TickKeepsDealer ==
  ASSUME NEW w, NEW dealt, NEW muzzle, NEW taken, NEW touch, NEW hits, Arena(w),
         dealt \in DealJoker(ExpirePowerUps(w)),
         taken \in CollectToken(Fire(dealt, RapidShooters(dealt), muzzle))
  PROVE  /\ Arena(ExpirePowerUps(w)) /\ ExpirePowerUps(w).jokers = w.jokers
         /\ ApplyHits(AdvanceProjectiles(taken, touch), hits).jokers = dealt.jokers
  <1> DEFINE expired == ExpirePowerUps(w)
             fired == Fire(dealt, RapidShooters(dealt), muzzle)
             flown == AdvanceProjectiles(taken, touch)
  <1>1. expired.tick \in Nat /\ NoHit(w, expired) /\ expired.jokers = w.jokers
    <2>1. expired.tick \in Nat /\ NoHit(w, expired)
      BY ExpiryHitsNobody DEF Arena
    <2>2. expired.jokers = w.jokers
      BY DEF Arena, ExpirePowerUps
    <2> QED BY <2>1, <2>2
  <1>2. Arena(expired)
    BY <1>1 DEF Arena, NoHit, Body, SameBody
  <1>3. NoHit(expired, dealt)
    BY <1>2, JokerHitsNobody
  <1>4. DOMAIN dealt = DOMAIN w
    BY <1>1, <1>3 DEF NoHit
  <1>5. DOMAIN fired = DOMAIN w /\ fired.jokers = dealt.jokers
    BY <1>4 DEF Fire, Arena
  <1>6. DOMAIN taken = DOMAIN w /\ taken.jokers = dealt.jokers
    <2>1. taken = fired \/ \E p : taken = Collect(fired, p)
      BY DEF CollectToken
    <2> HIDE DEF fired
    <2> QED BY <1>5, <2>1 DEF Collect, Arena
  <1>7. DOMAIN flown = DOMAIN w /\ flown.jokers = dealt.jokers
    BY <1>6 DEF AdvanceProjectiles, Arena
  <1>8. ApplyHits(flown, hits).jokers = dealt.jokers
    <2> HIDE DEF flown
    <2> QED BY <1>7 DEF ApplyHits, Arena
  <1> QED BY <1>1, <1>2, <1>8

\* A tick of the round deals a kind other than the last one, or none.
LEMMA PlayTickDeals ==
  ASSUME ArmorInv, DealerInv, PlayTick
  PROVE  /\ DealerInv'
         /\ world'.jokers # None /\ world'.jokers.bag # world.jokers.bag
              => world'.jokers.bag.last # lastDealt
  <1>1. PICK dealt \in DealJoker(ExpirePowerUps(world)) :
          \E muzzle \in Touches(UNION {Volley(dealt, p) : p \in RapidShooters(dealt)}) :
            \E taken \in CollectToken(Fire(dealt, RapidShooters(dealt), muzzle)) :
              \E touch \in Touches(taken.projectiles) :
                ResolveRound(ApplyHits(AdvanceProjectiles(taken, touch),
                                       world.pendingHits \cup ImpactsOf(dealt, muzzle)
                                                         \cup ImpactsOf(taken, touch)))
    BY DEF PlayTick
  <1>2. PICK muzzle, taken, touch, hits :
          /\ taken \in CollectToken(Fire(dealt, RapidShooters(dealt), muzzle))
          /\ ResolveRound(ApplyHits(AdvanceProjectiles(taken, touch), hits))
    BY <1>1
  <1> DEFINE w == ApplyHits(AdvanceProjectiles(taken, touch), hits)
             old == world.jokers
  <1>3. /\ phase = "roundPlaying" /\ old \in Schedules /\ ValidBag(old.bag)
        /\ lastDealt = old.bag.last /\ bag \in Bags /\ ValidBag(bag)
    BY DEF PlayTick, DealerInv
  <1>4. Arena(world)
    BY DEF ArmorInv, Fit
  <1>5. /\ Arena(ExpirePowerUps(world)) /\ ExpirePowerUps(world).jokers = old
        /\ w.jokers = dealt.jokers
    BY <1>2, <1>4, TickKeepsDealer
  <1>6. /\ w.jokers \in Schedules /\ ValidBag(w.jokers.bag)
        /\ w.jokers.bag = old.bag \/ w.jokers.bag.last # old.bag.last
    BY <1>3, <1>5, DealVaries
  <1>7. w.jokers # None
    BY <1>6, ArenaAssumption
  <1>8. ResolveRound(w)
    BY <1>2
  <1> HIDE DEF w
  <1>9. lastDealt' = w.jokers.bag.last
    BY <1>3, <1>6, <1>8 DEF ResolveRound
  <1>10. CASE world' = w /\ UNCHANGED <<phase, bag>>
    BY <1>3, <1>6, <1>9, <1>10 DEF DealerInv
  <1>11. CASE StopRound(w) /\ phase' \in {"roundReady", "matchEnded"}
    <2>1. Fit(w, countdownEndsAt)
      <3>1. world.tick >= countdownEndsAt /\ Fit(world, countdownEndsAt) /\ countdownEndsAt \in Nat
        BY <1>3 DEF ArmorInv
      <3> QED BY <1>2, <3>1, StepFit DEF w
    <2>2. world'.jokers = None /\ bag' = w.jokers.bag
      BY <1>7, <1>11, <2>1 DEF StopRound, Freeze, Fit, Arena
    <2> QED BY <1>6, <1>9, <1>11, <2>2 DEF DealerInv, Phases, Schedules
  <1>12. \/ world' = w /\ UNCHANGED <<phase, bag>>
         \/ StopRound(w) /\ phase' \in {"roundReady", "matchEnded"}
    BY <1>8 DEF ResolveRound
  <1>13. CASE world' = w /\ UNCHANGED <<phase, bag>>
    BY <1>3, <1>6, <1>10, <1>13
  <1>14. CASE StopRound(w) /\ phase' \in {"roundReady", "matchEnded"}
    <2>1. DealerInv'
      BY <1>11, <1>14
    <2>2. world'.jokers = None
      BY <1>14, <2>1 DEF DealerInv
    <2> QED BY <2>1, <2>2
  <1> QED BY <1>12, <1>13, <1>14

LEMMA DealerNext ==
  ASSUME ArmorInv, DealerInv, [Next]_vars
  PROVE  /\ DealerInv'
         /\ world'.jokers # None /\ world.jokers # None /\ world'.jokers.bag # world.jokers.bag
              => world'.jokers.bag.last # lastDealt
  <1>1. CASE PlayTick
    BY <1>1, PlayTickDeals
  <1>2. CASE CountDown
    <2>1. DOMAIN world = {"tick", "tanks", "projectiles", "token", "jokers", "pendingHits"}
      BY DEF ArmorInv, Fit, Arena
    <2>2. /\ phase = "roundCountdown" /\ UNCHANGED <<bag, lastDealt>> /\ tick' = tick + 1
          /\ tick \in Nat
      BY <1>2 DEF CountDown, ArmorInv
    <2>3. CASE tick' < countdownEndsAt
      <3>1. UNCHANGED phase /\ world'.jokers = world.jokers
        BY <1>2, <2>1, <2>3 DEF CountDown
      <3> QED BY <2>2, <3>1 DEF DealerInv
    <2>4. CASE ~(tick' < countdownEndsAt)
      <3>1. PICK interval \in SpawnIntervals :
              world' = [world EXCEPT !.tick = tick',
                          !.jokers = [bag |-> bag, nextTokenTick |-> tick' + interval]]
        BY <1>2, <2>4 DEF CountDown
      <3>2. phase' = "roundPlaying"
        BY <1>2, <2>4 DEF CountDown
      <3>3. world'.jokers = [bag |-> bag, nextTokenTick |-> tick' + interval]
        BY <2>1, <3>1
      <3>4. tick' + interval \in Nat
        BY <2>2, ArenaAssumption DEF SpawnIntervals
      <3> QED BY <2>2, <3>2, <3>3, <3>4 DEF DealerInv, Schedules, Phases
    <2> QED BY <2>3, <2>4
  <1>3. CASE ReadyTick
    <2>1. world'.jokers = None /\ phase' \in {"roundReady", "roundCountdown"}
      BY <1>3 DEF ReadyTick, DealerInv, NewWorld
    <2> QED BY <1>3, <2>1 DEF ReadyTick, DealerInv, Phases
  <1>4. CASE End
    <2>1. CASE phase \in {"roundPlaying", "roundCountdown"}
      <3>1. world'.jokers = None
        BY <1>4, <2>1 DEF End, StopRound, Freeze, ArmorInv, Fit, Arena
      <3>2. phase' = "matchEnded" /\ lastDealt' = lastDealt
            /\ bag' = IF world.jokers = None THEN bag ELSE world.jokers.bag
        BY <1>4, <2>1 DEF End, StopRound
      <3>3. CASE phase = "roundPlaying"
        <4>1. world.jokers # None
          BY <3>3, ArenaAssumption DEF DealerInv
        <4> QED BY <3>1, <3>2, <3>3, <4>1 DEF DealerInv, Schedules, Phases
      <3>4. CASE phase # "roundPlaying"
        BY <3>1, <3>2, <3>4 DEF DealerInv, Phases
      <3> QED BY <3>3, <3>4
    <2>2. CASE phase \notin {"roundPlaying", "roundCountdown"}
      BY <1>4, <2>2 DEF End, DealerInv, Phases
    <2> QED BY <2>1, <2>2
  <1>5. CASE Recover
    <2>1. UNCHANGED <<phase, bag, lastDealt>> /\ world'.jokers = world.jokers
      <3>1. DOMAIN world = {"tick", "tanks", "projectiles", "token", "jokers", "pendingHits"}
        BY DEF ArmorInv, Fit, Arena
      <3> QED BY <1>5, <3>1, DealerRestorable DEF Recover
    <2> QED BY <2>1 DEF DealerInv
  <1>6. ASSUME NEW p \in Players,
               PressTank(p) \/ Release(p) \/ \E control \in BOOLEAN : SetControl(p, control)
        PROVE  UNCHANGED <<phase, bag, lastDealt>> /\ world'.jokers = world.jokers
    <2>1. DOMAIN world = {"tick", "tanks", "projectiles", "token", "jokers", "pendingHits"}
      BY DEF ArmorInv, Fit, Arena
    <2>2. CASE PressTank(p)
      <3>1. PICK touch : world' = Press(world, p, touch)
        BY <2>2 DEF PressTank
      <3>2. world'.jokers = world.jokers
        BY <2>1, <3>1 DEF Press, Fire
      <3> QED BY <2>2, <3>2 DEF PressTank
    <2>3. CASE Release(p)
      BY <2>1, <2>3 DEF Release
    <2>4. CASE \E control \in BOOLEAN : SetControl(p, control)
      BY <2>1, <2>4 DEF SetControl
    <2> QED BY <1>6, <2>2, <2>3, <2>4
  <1>7. CASE \E p \in Players :
               PressTank(p) \/ Release(p) \/ \E control \in BOOLEAN : SetControl(p, control)
    BY <1>6, <1>7 DEF DealerInv
  <1>8. CASE UNCHANGED vars
    BY <1>8 DEF vars, DealerInv
  <1> QED BY <1>1, <1>2, <1>3, <1>4, <1>5, <1>7, <1>8 DEF Next

LEMMA DealerInit == Init => DealerInv
  BY ArenaAssumption DEF Init, DealerInv, Phases, Bags, ValidBag, NewWorld

\* No joker follows itself, however many kinds there are and however rounds, bags
\* and crashes fall (JokerBag.Next, StartJokers, stopRound).
THEOREM JokersVary == Spec => NeverTwiceInARow
  <1>1. ArmorInv /\ DealerInv /\ [Next]_vars
          => [LET dealt == world'.jokers # None /\ world.jokers # None
                           /\ world'.jokers.bag # world.jokers.bag
              IN  dealt => world'.jokers.bag.last # lastDealt]_vars
    BY DealerNext
  <1>2. ArmorInv /\ DealerInv /\ [Next]_vars => ArmorInv' /\ DealerInv'
    BY ArmorNext, DealerNext
  <1> QED BY <1>1, <1>2, ArmorInit, DealerInit, PTL DEF Spec, NeverTwiceInARow

\* No checkpoint of a match is refused for its joker bag: every bag the dealer can
\* leave passes JokerBag.Valid (DecodeMatch).
THEOREM BagsRestore == Spec => []Restorable
  <1>1. ArmorInv /\ DealerInv /\ [Next]_vars => ArmorInv' /\ DealerInv'
    BY ArmorNext, DealerNext
  <1> QED BY <1>1, ArmorInit, DealerInit, DealerRestorable, PTL DEF Spec

-----------------------------------------------------------------------------
(* The aim                                                                 *)

\* A shot still flying left its owner's barrel no later than the barrel last fired.
Fired(w) ==
  \A s \in w.projectiles : /\ w.tanks[s.owner].lastFireTick # None
                           /\ s.spawnTick <= w.tanks[s.owner].lastFireTick

\* No tank is held by more than its own shots in flight.
Held(w, p) == w.tanks[p].aimLocks <= Cardinality(AimedBy(p, w.projectiles))

Aims(w) ==
  /\ w \in Worlds /\ IsFiniteSet(w.projectiles) /\ Fired(w)
  /\ \A p \in Players : Held(w, p)

\* The inductive invariant of the aim, on top of the other two.
AimInv == ArmorInv /\ DealerInv /\ changes \in Nat /\ Aims(world)

\* The fields of a world and of a shot, so that no step expands the records.
LEMMA WorldFields ==
  ASSUME NEW w \in Worlds
  PROVE  /\ w.tick \in Nat /\ w.tanks \in [Players -> Tanks]
         /\ w.projectiles \subseteq Shots /\ w.pendingHits \subseteq Hits
         /\ w.token \in PowerUps \cup {None} /\ w.jokers \in Schedules \cup {None}
         /\ DOMAIN w = {"tick", "tanks", "projectiles", "token", "jokers", "pendingHits"}
  BY DEF Worlds

LEMMA TankFields ==
  ASSUME NEW t \in Tanks
  PROVE  /\ t.lastFireTick \in Nat \cup {None} /\ t.aimLocks \in Nat /\ t.armor \in Nat
         /\ t.powerUp \in PowerUps \cup {None} /\ t.protectedUntil \in Nat
         /\ t.active \in BOOLEAN /\ t.controllable \in BOOLEAN /\ t.driving \in BOOLEAN
  BY DEF Tanks

LEMMA AimedFinite ==
  ASSUME NEW S, IsFiniteSet(S), NEW p
  PROVE  /\ IsFiniteSet(AimedBy(p, S)) /\ Cardinality(AimedBy(p, S)) \in Nat
         /\ AimedBy(p, S) \subseteq S
  <1>1. AimedBy(p, S) \in SUBSET S
    BY DEF AimedBy
  <1> QED BY <1>1, FS_Subset, FS_CardinalityType

-----------------------------------------------------------------------------
\* A shot of a volley, by its angle.
Shot(w, p, i) ==
  [owner |-> p, spawnTick |-> w.tick, angle |-> i,
   rocket |-> Power(w, p) = "rocket", holdsAim |-> Power(w, p) = "aim", age |-> 0]

LEMMA VolleyShots ==
  ASSUME NEW w \in Worlds, NEW p \in Players, NEW s \in Volley(w, p)
  PROVE  /\ s \in Shots /\ s.owner = p /\ s.spawnTick = w.tick
         /\ s.angle \in 1 .. SpreadShots /\ s = Shot(w, p, s.angle)
  <1>1. PICK i \in 1 .. (IF Power(w, p) = "spreadShot" THEN SpreadShots ELSE 1) :
          s = Shot(w, p, i)
    BY DEF Volley, Shot
  <1>2. SpreadShots \in Nat \ {0}
    BY ArenaAssumption
  <1>3. i \in 1 .. SpreadShots
    BY <1>1, <1>2
  <1>4. w.tick \in Nat
    BY WorldFields
  <1> QED BY <1>1, <1>3, <1>4 DEF Shot, Shots

\* The volleys of a tick are finitely many shots: owner and angle tell them apart.
LEMMA VolleysFinite ==
  ASSUME NEW w \in Worlds, NEW S, \A s \in S : \E p \in Players : s \in Volley(w, p)
  PROVE  IsFiniteSet(S) /\ S \subseteq Shots
  <1> DEFINE T == Players \X (1 .. SpreadShots)
             f == [s \in S |-> <<s.owner, s.angle>>]
  <1>1. IsFiniteSet(T)
    <2>1. SpreadShots \in Int /\ 1 \in Int
      BY ArenaAssumption
    <2>2. IsFiniteSet(1 .. SpreadShots)
      BY <2>1, FS_Interval
    <2> QED BY <2>2, ArenaAssumption, FS_Product
  <1>2. \A s \in S : s.owner \in Players /\ s.angle \in 1 .. SpreadShots
                     /\ s = Shot(w, s.owner, s.angle) /\ s \in Shots
    BY VolleyShots
  <1>3. f \in [S -> T]
    BY <1>2
  <1>4. \A a, b \in S : f[a] = f[b] => a = b
    BY <1>2
  <1>5. f \in Injection(S, T)
    BY <1>3, <1>4 DEF Injection, IsInjective
  <1> QED BY <1>1, <1>2, <1>5, FS_Injection

-----------------------------------------------------------------------------
\* u may come of the tank t without a shot of its own: it is not held by more.
Looser(t, u) == u \in Tanks /\ u.aimLocks <= t.aimLocks /\ u.lastFireTick = t.lastFireTick

LEMMA LooserAims ==
  ASSUME NEW w, Aims(w), NEW v \in Worlds, v.projectiles = w.projectiles,
         \A p \in Players : Looser(w.tanks[p], v.tanks[p])
  PROVE  Aims(v)
  <1>1. ASSUME NEW p \in Players PROVE Held(v, p)
    <2>1. /\ w.tanks[p].aimLocks \in Nat /\ v.tanks[p].aimLocks \in Nat
          /\ v.tanks[p].aimLocks <= w.tanks[p].aimLocks
      BY WorldFields, TankFields DEF Aims, Looser
    <2>2. /\ w.tanks[p].aimLocks <= Cardinality(AimedBy(p, w.projectiles))
          /\ Cardinality(AimedBy(p, w.projectiles)) \in Nat
      BY AimedFinite DEF Aims, Held
    <2> QED BY <2>1, <2>2 DEF Held
  <1>2. \A s \in w.projectiles : s.owner \in Players
    BY WorldFields DEF Aims, Shots
  <1>3. Fired(v) /\ IsFiniteSet(v.projectiles)
    BY <1>2 DEF Fired, Aims, Looser
  <1> QED BY <1>1, <1>3 DEF Aims

LEMMA EmptyAims ==
  ASSUME NEW v \in Worlds, v.projectiles = {}, \A p \in Players : v.tanks[p].aimLocks = 0
  PROVE  Aims(v)
  <1>1. \A p \in Players : AimedBy(p, {}) = {}
    BY DEF AimedBy
  <1> QED BY <1>1, FS_EmptySet DEF Aims, Fired, Held

LEMMA ControlLooser ==
  ASSUME NEW t \in Tanks, NEW b \in BOOLEAN
  PROVE  Looser(t, SetControllable(t, b))
  <1>1. CASE t.controllable = b
    BY <1>1, TankFields DEF Looser, SetControllable
  <1>2. CASE t.controllable # b /\ b
    <2>1. SetControllable(t, b) = [t EXCEPT !.controllable = TRUE]
      BY <1>2 DEF SetControllable
    <2>2. [t EXCEPT !.controllable = TRUE] \in Tanks
      BY DEF Tanks
    <2>3. /\ [t EXCEPT !.controllable = TRUE].aimLocks = t.aimLocks
          /\ [t EXCEPT !.controllable = TRUE].lastFireTick = t.lastFireTick
      BY DEF Tanks
    <2> QED BY <2>1, <2>2, <2>3, TankFields DEF Looser
  <1>3. CASE t.controllable # b /\ ~b
    <2>1. SetControllable(t, b) =
            [t EXCEPT !.controllable = FALSE, !.driving = FALSE, !.aimLocks = 0]
      BY <1>3 DEF SetControllable
    <2>2. [t EXCEPT !.controllable = FALSE, !.driving = FALSE, !.aimLocks = 0] \in Tanks
      BY DEF Tanks
    <2>3. /\ [t EXCEPT !.controllable = FALSE, !.driving = FALSE, !.aimLocks = 0].aimLocks = 0
          /\ [t EXCEPT !.controllable = FALSE, !.driving = FALSE, !.aimLocks = 0].lastFireTick
               = t.lastFireTick
      BY DEF Tanks
    <2> QED BY <2>1, <2>2, <2>3, TankFields DEF Looser
  <1> QED BY <1>1, <1>2, <1>3

LEMMA EliminateLooser ==
  ASSUME NEW t \in Tanks
  PROVE  Looser(t, Eliminate(t))
  <1>1. Eliminate(t) \in Tanks
    BY DEF Eliminate, Tanks
  <1>2. Eliminate(t).aimLocks = 0 /\ Eliminate(t).lastFireTick = t.lastFireTick
    BY DEF Eliminate, Tanks
  <1> QED BY <1>1, <1>2, TankFields DEF Looser

LEMMA DamagedLooser ==
  ASSUME NEW t \in Tanks, NEW now \in Nat, NEW hits, t.armor > 0
  PROVE  Looser(t, Damaged(t, now, hits))
  <1>1. now + HitProtectionTicks \in Nat
    BY ArenaAssumption
  <1> DEFINE left == IF Lethal(hits) THEN 0 ELSE t.armor - 1
             until == now + HitProtectionTicks
  <1>2. left \in Nat
    BY TankFields
  <1>3. Damaged(t, now, hits) = [t EXCEPT !.armor = left, !.protectedUntil = until]
    BY DEF Damaged
  <1> HIDE DEF left, until
  <1>4. until \in Nat
    BY <1>1 DEF until
  <1>5. Damaged(t, now, hits) \in Tanks
    BY <1>2, <1>3, <1>4 DEF Tanks
  <1>6. /\ Damaged(t, now, hits).aimLocks = t.aimLocks
        /\ Damaged(t, now, hits).lastFireTick = t.lastFireTick
    BY <1>3 DEF Tanks
  <1> QED BY <1>5, <1>6, TankFields DEF Looser

LEMMA StruckLooser ==
  ASSUME NEW t \in Tanks, NEW now \in Nat, NEW hits, t.active => t.armor > 0
  PROVE  Looser(t, Struck(t, now, hits))
  <1>1. CASE Ignored(t, now, hits)
    BY <1>1, TankFields DEF Struck, Looser
  <1>2. CASE ~Ignored(t, now, hits)
    <2> DEFINE hit == Damaged(t, now, hits)
    <2>1. Looser(t, hit)
      BY <1>2, DamagedLooser DEF Ignored
    <2>2. Looser(hit, Eliminate(hit))
      BY <2>1, EliminateLooser DEF Looser
    <2>3. Struck(t, now, hits) = hit \/ Struck(t, now, hits) = Eliminate(hit)
      BY <1>2 DEF Struck
    <2> HIDE DEF hit
    <2>4. /\ t.aimLocks \in Nat /\ hit.aimLocks \in Nat /\ Eliminate(hit).aimLocks \in Nat
      BY <2>1, <2>2, TankFields DEF Looser
    <2> QED BY <2>1, <2>2, <2>3, <2>4 DEF Looser
  <1> QED BY <1>1, <1>2

-----------------------------------------------------------------------------
(* What changes no shot                                                    *)

LEMMA ExpiryAims ==
  ASSUME NEW w, Aims(w)
  PROVE  Aims(ExpirePowerUps(w)) /\ ExpirePowerUps(w).tick = w.tick + 1
  <1> DEFINE now == w.tick + 1
             tanks == [p \in Players |->
                IF w.tanks[p].powerUp # None /\ now >= w.tanks[p].powerUp.expiresAt
                THEN [w.tanks[p] EXCEPT !.powerUp = None] ELSE w.tanks[p]]
             token == IF w.token # None /\ now >= w.token.expiresAt THEN None ELSE w.token
             v == ExpirePowerUps(w)
  <1>1. w \in Worlds
    BY DEF Aims
  <1>2. ASSUME NEW p \in Players PROVE tanks[p] \in Tanks /\ Looser(w.tanks[p], tanks[p])
    <2>1. w.tanks[p] \in Tanks
      BY <1>1, WorldFields
    <2>2. [w.tanks[p] EXCEPT !.powerUp = None] \in Tanks
          /\ Looser(w.tanks[p], [w.tanks[p] EXCEPT !.powerUp = None])
      BY <2>1 DEF Tanks, Looser
    <2>3. Looser(w.tanks[p], w.tanks[p])
      BY <2>1, TankFields DEF Looser
    <2> QED BY <2>1, <2>2, <2>3
  <1>3. tanks \in [Players -> Tanks]
    BY <1>2
  <1>4. token \in PowerUps \cup {None}
    BY <1>1, WorldFields
  <1>5. v = [w EXCEPT !.tick = now, !.token = token, !.tanks = tanks]
    BY DEF ExpirePowerUps
  <1>6. now \in Nat
    BY <1>1, WorldFields
  <1> HIDE DEF now, token, tanks, v
  <1>7. v \in Worlds /\ v.tanks = tanks /\ v.projectiles = w.projectiles /\ v.tick = now
    BY <1>1, <1>3, <1>4, <1>5, <1>6 DEF Worlds
  <1>8. Aims(v)
    BY <1>2, <1>7, LooserAims
  <1> QED BY <1>7, <1>8 DEF v, now

LEMMA JokerAims ==
  ASSUME NEW w, Aims(w), w.jokers # None => ValidBag(w.jokers.bag), NEW v \in DealJoker(w)
  PROVE  Aims(v)
  <1>1. w \in Worlds
    BY DEF Aims
  <1>2. CASE v = w
    BY <1>2
  <1>3. CASE v # w
    <2>1. w.jokers \in Schedules /\ w.tick \in Nat /\ ValidBag(w.jokers.bag)
      BY <1>1, <1>3, WorldFields DEF DealJoker, JokerDue
    <2>2. v \in Worlds /\ v.tanks = w.tanks /\ v.projectiles = w.projectiles
      <3>1. CASE v = Postpone(w)
        <4> DEFINE later == [w.jokers EXCEPT !.nextTokenTick = w.tick + PowerUpRetryTicks]
        <4>1. later \in Schedules
          BY <2>1, ArenaAssumption DEF Schedules
        <4>2. v = [w EXCEPT !.jokers = later]
          BY <1>1, <3>1 DEF Postpone, Worlds
        <4> HIDE DEF later
        <4> QED BY <1>1, <4>1, <4>2 DEF Worlds
      <3>2. ASSUME NEW kind \in NextKinds(w.jokers.bag), NEW interval \in SpawnIntervals,
                   v = Deal(w, kind, interval)
            PROVE  v \in Worlds /\ v.tanks = w.tanks /\ v.projectiles = w.projectiles
        <4> DEFINE next == [bag |-> Draw(w.jokers.bag, kind), nextTokenTick |-> w.tick + interval]
                   token == [kind |-> kind, expiresAt |-> w.tick + PowerUpTokenLifetimeTicks]
        <4>1. kind \in PowerUpKinds /\ Draw(w.jokers.bag, kind) \in Bags
          BY <2>1, DrawVaries DEF NextKinds, Bags, Schedules
        <4>2. interval \in Nat
          BY ArenaAssumption DEF SpawnIntervals
        <4>3. next \in Schedules
          BY <2>1, <4>1, <4>2 DEF Schedules
        <4>4. token \in PowerUps
          BY <2>1, <4>1, ArenaAssumption DEF PowerUps
        <4>5. v = [w EXCEPT !.token = token, !.jokers = next]
          BY <1>1, <3>2 DEF Deal, Worlds
        <4> HIDE DEF next, token
        <4> QED BY <1>1, <4>3, <4>4, <4>5 DEF Worlds
      <3> QED BY <1>3, <3>1, <3>2 DEF DealJoker
    <2>3. \A p \in Players : Looser(w.tanks[p], v.tanks[p])
      BY <1>1, <2>2, WorldFields, TankFields DEF Looser
    <2> QED BY <2>2, <2>3, LooserAims
  <1> QED BY <1>2, <1>3

LEMMA PickupAims ==
  ASSUME NEW w, Aims(w), NEW v \in CollectToken(w)
  PROVE  Aims(v)
  <1>1. w \in Worlds
    BY DEF Aims
  <1>2. CASE v = w
    BY <1>2
  <1>3. CASE v # w
    <2>1. PICK p \in Players : v = Collect(w, p) /\ w.token # None
      BY <1>3 DEF CollectToken
    <2> DEFINE joker == [kind |-> w.token.kind, expiresAt |-> w.tick + PowerUpDurationTicks]
               better == [w.tanks[p] EXCEPT !.powerUp = joker]
               tanks == [w.tanks EXCEPT ![p] = better]
    <2>2. joker \in PowerUps
      BY <1>1, <2>1, WorldFields, ArenaAssumption DEF PowerUps
    <2>3. w.tanks[p] \in Tanks
      BY <1>1, WorldFields
    <2>4. better \in Tanks /\ better.aimLocks = w.tanks[p].aimLocks
          /\ better.lastFireTick = w.tanks[p].lastFireTick
      <3> HIDE DEF joker
      <3> QED BY <2>2, <2>3 DEF Tanks
    <2>5. v = [w EXCEPT !.token = None, !.tanks = tanks]
      BY <1>1, <2>1, WorldFields DEF Collect, Worlds
    <2> HIDE DEF joker, better
    <2>6. tanks \in [Players -> Tanks]
      BY <1>1, <2>4, WorldFields
    <2>7. \A q \in Players : Looser(w.tanks[q], tanks[q])
      BY <1>1, <2>4, WorldFields, TankFields DEF Looser
    <2> HIDE DEF tanks
    <2>8. v \in Worlds /\ v.tanks = tanks /\ v.projectiles = w.projectiles
      BY <1>1, <2>5, <2>6 DEF Worlds
    <2> QED BY <2>7, <2>8, LooserAims
  <1> QED BY <1>2, <1>3

LEMMA HitsAims ==
  ASSUME NEW w, Aims(w), Arena(w), NEW hits
  PROVE  Aims(ApplyHits(w, hits))
  <1> DEFINE tanks == [p \in Players |-> Struck(w.tanks[p], w.tick, {h \in hits : h.target = p})]
             v == ApplyHits(w, hits)
  <1>1. w \in Worlds
    BY DEF Aims
  <1>2. ASSUME NEW p \in Players PROVE Looser(w.tanks[p], tanks[p])
    <2> DEFINE mine == {h \in hits : h.target = p}
    <2>1. /\ w.tanks[p] \in Tanks /\ w.tick \in Nat
          /\ w.tanks[p].active => w.tanks[p].armor > 0
      BY <1>1, WorldFields DEF Arena, Body
    <2>2. tanks[p] = Struck(w.tanks[p], w.tick, mine)
      OBVIOUS
    <2> HIDE DEF mine, tanks
    <2> QED BY <2>1, <2>2, StruckLooser
  <1>3. tanks \in [Players -> Tanks]
    BY <1>2 DEF Looser
  <1>4. v = [w EXCEPT !.tanks = tanks]
    BY DEF ApplyHits
  <1> HIDE DEF tanks, v
  <1>5. v \in Worlds /\ v.tanks = tanks /\ v.projectiles = w.projectiles
    BY <1>1, <1>3, <1>4 DEF Worlds
  <1>6. Aims(v)
    BY <1>2, <1>5, LooserAims
  <1> QED BY <1>6 DEF v

-----------------------------------------------------------------------------
(* Shots that leave, and shots that are gone                               *)

\* The shots a tank aimed are counted apart.
LEMMA AimedTogether ==
  ASSUME NEW S, NEW T, IsFiniteSet(S), IsFiniteSet(T), NEW p, S \cap T = {}
  PROVE  Cardinality(AimedBy(p, S \cup T)) = Cardinality(AimedBy(p, S)) + Cardinality(AimedBy(p, T))
  <1>1. AimedBy(p, S \cup T) = AimedBy(p, S) \cup AimedBy(p, T)
    BY DEF AimedBy
  <1>2. AimedBy(p, S) \cap AimedBy(p, T) = {}
    BY DEF AimedBy
  <1>3. IsFiniteSet(AimedBy(p, S)) /\ IsFiniteSet(AimedBy(p, T))
    BY AimedFinite
  <1>4. Cardinality(AimedBy(p, S)) \in Nat /\ Cardinality(AimedBy(p, T)) \in Nat
    BY AimedFinite
  <1>5. Cardinality(AimedBy(p, S) \cap AimedBy(p, T)) = 0
    BY <1>2, FS_EmptySet
  <1>6. Cardinality(AimedBy(p, S) \cup AimedBy(p, T)) =
          Cardinality(AimedBy(p, S)) + Cardinality(AimedBy(p, T))
            - Cardinality(AimedBy(p, S) \cap AimedBy(p, T))
    BY <1>3, FS_Union
  <1>7. Cardinality(AimedBy(p, S \cup T)) = Cardinality(AimedBy(p, S) \cup AimedBy(p, T))
    BY <1>1, Zenon
  <1>8. Cardinality(AimedBy(p, S) \cup AimedBy(p, T)) =
          Cardinality(AimedBy(p, S)) + Cardinality(AimedBy(p, T))
    BY <1>4, <1>5, <1>6
  <1> QED BY <1>7, <1>8

\* A barrel that may fire has fired nothing that is as young as its next shot.
LEMMA FireAims ==
  ASSUME NEW w, Aims(w), NEW shooters \in SUBSET Players, NEW touch,
         \A p \in shooters : MayFire(w.tanks[p], w.tick),
         \A s \in DOMAIN touch : \E p \in shooters : s \in Volley(w, p)
  PROVE  Aims(Fire(w, shooters, touch))
  <1> DEFINE new == DOMAIN touch \ Landed(touch)
             tanks == [p \in Players |->
               IF p \in shooters
               THEN Recoil(w.tanks[p], w.tick, Cardinality(AimedBy(p, new)))
               ELSE w.tanks[p]]
             v == Fire(w, shooters, touch)
             flying == w.projectiles \cup new
  <1>1. w \in Worlds /\ w.tick \in Nat /\ w.projectiles \subseteq Shots
        /\ IsFiniteSet(w.projectiles)
    BY WorldFields DEF Aims
  <1>2. IsFiniteSet(new) /\ new \subseteq Shots
    <2>1. \A s \in new : \E p \in Players : s \in Volley(w, p)
      OBVIOUS
    <2> HIDE DEF new
    <2> QED BY <1>1, <2>1, VolleysFinite
  <1>3. ASSUME NEW s \in new
        PROVE  /\ s.owner \in shooters /\ s.spawnTick = w.tick /\ s \notin w.projectiles
    <2>1. PICK p \in shooters : s \in Volley(w, p)
      OBVIOUS
    <2>2. s.owner = p /\ s.spawnTick = w.tick
      BY <1>1, <2>1, VolleyShots
    <2>3. MayFire(w.tanks[p], w.tick)
      BY <2>1
    <2>4. w.tanks[p].lastFireTick # None =>
             w.tanks[p].lastFireTick \in Nat /\ w.tanks[p].lastFireTick < w.tick
      <3>1. {FireCooldownTicks, RapidFireCooldownTicks} \subseteq Nat \ {0}
        BY ArenaAssumption
      <3>2. w.tanks[p].lastFireTick \in Nat \cup {None}
        BY <1>1, WorldFields, TankFields
      <3> QED BY <1>1, <2>3, <3>1, <3>2 DEF MayFire
    <2> QED BY <1>1, <2>1, <2>2, <2>4 DEF Aims, Fired
  <1>4. w.projectiles \cap new = {}
    BY <1>3
  <1>5. \A p \in Players : Cardinality(AimedBy(p, new)) \in Nat
    <2> HIDE DEF new
    <2> QED BY <1>2, AimedFinite
  <1>6. ASSUME NEW p \in Players
        PROVE  /\ tanks[p] \in Tanks
               /\ tanks[p].aimLocks <= w.tanks[p].aimLocks + Cardinality(AimedBy(p, new))
               /\ tanks[p].lastFireTick = IF p \in shooters THEN w.tick
                                                            ELSE w.tanks[p].lastFireTick
    <2> DEFINE more == w.tanks[p].aimLocks + Cardinality(AimedBy(p, new))
    <2>1. w.tanks[p] \in Tanks /\ w.tanks[p].aimLocks \in Nat
      BY <1>1, WorldFields, TankFields
    <2>2. more \in Nat /\ w.tanks[p].aimLocks <= more
      <3>1. Cardinality(AimedBy(p, new)) \in Nat
        BY <1>5
      <3> HIDE DEF new
      <3> QED BY <2>1, <3>1
    <2>3. tanks[p] = IF p \in shooters
                     THEN [w.tanks[p] EXCEPT !.lastFireTick = w.tick, !.aimLocks = more]
                     ELSE w.tanks[p]
      BY DEF Recoil
    <2> HIDE DEF more, tanks
    <2>4. CASE p \in shooters
      <3>1. tanks[p] = [w.tanks[p] EXCEPT !.lastFireTick = w.tick, !.aimLocks = more]
        BY <2>3, <2>4
      <3>2. tanks[p] \in Tanks /\ tanks[p].aimLocks = more /\ tanks[p].lastFireTick = w.tick
        BY <1>1, <2>1, <2>2, <3>1 DEF Tanks
      <3> QED BY <2>2, <2>4, <3>2 DEF more
    <2>5. CASE p \notin shooters
      BY <2>1, <2>2, <2>3, <2>5 DEF more
    <2> QED BY <2>4, <2>5
  <1>7. v = [w EXCEPT !.projectiles = flying, !.tanks = tanks]
    BY DEF Fire
  <1> HIDE DEF new, tanks, v
  <1>8. tanks \in [Players -> Tanks]
    <2>1. DOMAIN tanks = Players /\ tanks = [p \in Players |-> tanks[p]]
      BY DEF tanks
    <2> QED BY <1>6, <2>1
  <1>9. v \in Worlds /\ v.tanks = tanks /\ v.projectiles = flying
    BY <1>1, <1>2, <1>7, <1>8 DEF Worlds
  <1>10. IsFiniteSet(flying)
    BY <1>1, <1>2, FS_Union
  <1>11. Fired(v)
    <2> SUFFICES ASSUME NEW s \in flying
                 PROVE  /\ tanks[s.owner].lastFireTick # None
                        /\ s.spawnTick <= tanks[s.owner].lastFireTick
      BY <1>9 DEF Fired
    <2>1. s \in Shots /\ s.owner \in Players /\ s.spawnTick \in Nat
      BY <1>1, <1>2 DEF Shots
    <2>2. w.tick # None
      BY <1>1, ArenaAssumption
    <2>3. CASE s \in new
      BY <1>1, <1>3, <1>6, <2>1, <2>2, <2>3
    <2>4. CASE s \in w.projectiles
      <3>1. /\ w.tanks[s.owner].lastFireTick # None
            /\ s.spawnTick <= w.tanks[s.owner].lastFireTick
        BY <2>4 DEF Aims, Fired
      <3>2. CASE s.owner \notin shooters
        BY <1>6, <2>1, <3>1, <3>2
      <3>3. CASE s.owner \in shooters
        <4>1. /\ MayFire(w.tanks[s.owner], w.tick) /\ w.tanks[s.owner].lastFireTick \in Nat
          BY <1>1, <2>1, <3>1, <3>3, WorldFields, TankFields
        <4>2. {FireCooldownTicks, RapidFireCooldownTicks} \subseteq Nat \ {0}
          BY ArenaAssumption
        <4>3. w.tanks[s.owner].lastFireTick <= w.tick
          BY <1>1, <3>1, <4>1, <4>2 DEF MayFire
        <4> QED BY <1>1, <1>6, <2>1, <2>2, <3>1, <3>3, <4>1, <4>3
      <3> QED BY <3>2, <3>3
    <2> QED BY <2>3, <2>4
  <1>12. ASSUME NEW p \in Players PROVE Held(v, p)
    <2>1. Cardinality(AimedBy(p, flying)) =
            Cardinality(AimedBy(p, w.projectiles)) + Cardinality(AimedBy(p, new))
      BY <1>1, <1>2, <1>4, AimedTogether
    <2>2. w.tanks[p].aimLocks <= Cardinality(AimedBy(p, w.projectiles))
      BY DEF Aims, Held
    <2>3. /\ w.tanks[p].aimLocks \in Nat /\ Cardinality(AimedBy(p, w.projectiles)) \in Nat
          /\ tanks[p].aimLocks \in Nat
      BY <1>1, <1>6, WorldFields, TankFields, AimedFinite
    <2> QED BY <1>5, <1>6, <1>9, <2>1, <2>2, <2>3 DEF Held
  <1>13. Aims(v)
    BY <1>9, <1>10, <1>11, <1>12 DEF Aims
  <1> QED BY <1>13 DEF v

\* Shots that fly on are as many as before, and hold their tanks as before.
LEMMA FlyOnShots ==
  ASSUME NEW S \in SUBSET Shots, IsFiniteSet(S), NEW p
  PROVE  LET T == {FlyOn(s) : s \in S}
         IN  /\ T \subseteq Shots /\ IsFiniteSet(T)
             /\ Cardinality(AimedBy(p, T)) = Cardinality(AimedBy(p, S))
  <1> DEFINE T == {FlyOn(s) : s \in S}
  <1>1. ASSUME NEW s \in Shots
        PROVE  /\ FlyOn(s) \in Shots /\ FlyOn(s).owner = s.owner
               /\ FlyOn(s).holdsAim = s.holdsAim
    BY DEF FlyOn, Shots
  <1>2. ASSUME NEW s \in Shots, NEW r \in Shots, FlyOn(s) = FlyOn(r)
        PROVE  s = r
    <2>1. /\ s.owner = r.owner /\ s.spawnTick = r.spawnTick /\ s.angle = r.angle
          /\ s.rocket = r.rocket /\ s.holdsAim = r.holdsAim /\ s.age + 1 = r.age + 1
      <3>1. ASSUME NEW q \in Shots
            PROVE  /\ FlyOn(q).owner = q.owner /\ FlyOn(q).spawnTick = q.spawnTick
                   /\ FlyOn(q).angle = q.angle /\ FlyOn(q).rocket = q.rocket
                   /\ FlyOn(q).holdsAim = q.holdsAim /\ FlyOn(q).age = q.age + 1
        BY DEF FlyOn, Shots
      <3> QED BY <1>2, <3>1
    <2>2. s.age \in Nat /\ r.age \in Nat
      BY DEF Shots
    <2>3. s.age = r.age
      BY <2>1, <2>2
    <2> QED BY <2>1, <2>3 DEF Shots
  <1>3. T \subseteq Shots /\ IsFiniteSet(T)
    <2> DEFINE f == [s \in S |-> FlyOn(s)]
    <2>1. f \in Surjection(S, T)
      BY DEF Surjection
    <2>2. IsFiniteSet(T)
      <3> HIDE DEF f, T
      <3> QED BY <2>1, FS_Surjection
    <2> QED BY <1>1, <2>2
  <1>4. Cardinality(AimedBy(p, T)) = Cardinality(AimedBy(p, S))
    <2> DEFINE A == AimedBy(p, S)
               B == AimedBy(p, T)
               f == [s \in A |-> FlyOn(s)]
    <2>1. IsFiniteSet(A) /\ A \subseteq Shots
      BY AimedFinite
    <2>2. B = {FlyOn(s) : s \in A}
      BY <1>1 DEF AimedBy
    <2> HIDE DEF A, B
    <2>3. f \in [A -> B] /\ \A b \in B : \E a \in A : f[a] = b
      BY <2>2
    <2>4. \A a, b \in A : f[a] = f[b] => a = b
      BY <1>2, <2>1
    <2>5. f \in Bijection(A, B)
      BY <2>3, <2>4 DEF Bijection, Injection, Surjection, IsInjective
    <2> HIDE DEF f
    <2>6. ExistsBijection(A, B)
      BY <2>5 DEF ExistsBijection
    <2>7. Cardinality(B) = Cardinality(A)
      BY <2>1, <2>6, FS_Bijection
    <2> QED BY <2>7 DEF A, B
  <1> QED BY <1>3, <1>4

LEMMA FlightAims ==
  ASSUME NEW w, Aims(w), NEW touch \in Touches(w.projectiles)
  PROVE  Aims(AdvanceProjectiles(w, touch))
  <1> DEFINE flying == w.projectiles
             gone == Spent(touch)
             left == flying \ gone
             after == {FlyOn(s) : s \in left}
             tanks == [p \in Players |->
                        ReleaseAim(w.tanks[p], Cardinality(AimedBy(p, gone)))]
             v == AdvanceProjectiles(w, touch)
  <1>1. w \in Worlds /\ flying \subseteq Shots /\ IsFiniteSet(flying)
    BY WorldFields DEF Aims
  <1>2. gone \subseteq flying
    BY DEF Spent, Landed, Touches
  <1>3. v = [w EXCEPT !.pendingHits = {}, !.projectiles = after, !.tanks = tanks]
    BY DEF AdvanceProjectiles
  <1> HIDE DEF gone
  <1>4. /\ left \in SUBSET Shots /\ IsFiniteSet(left) /\ IsFiniteSet(gone)
        /\ left \cap gone = {} /\ flying = left \cup gone
    <2>1. left \in SUBSET flying /\ gone \in SUBSET flying
      BY <1>2
    <2>2. IsFiniteSet(left) /\ IsFiniteSet(gone)
      <3> HIDE DEF left, flying
      <3> QED BY <1>1, <2>1, FS_Subset
    <2> QED BY <1>1, <1>2, <2>2
  <1> HIDE DEF left
  <1>5. ASSUME NEW p \in Players
        PROVE  /\ tanks[p] \in Tanks
               /\ tanks[p].aimLocks <= Cardinality(AimedBy(p, left))
               /\ tanks[p].lastFireTick = w.tanks[p].lastFireTick
    <2> DEFINE n == Cardinality(AimedBy(p, gone))
               t == w.tanks[p]
               less == IF t.aimLocks > n THEN t.aimLocks - n ELSE 0
    <2>1. t \in Tanks /\ t.aimLocks \in Nat
      BY <1>1, WorldFields, TankFields
    <2>2. /\ n \in Nat /\ Cardinality(AimedBy(p, left)) \in Nat
      BY <1>4, AimedFinite
    <2>3. Cardinality(AimedBy(p, left \cup gone)) = Cardinality(AimedBy(p, left)) + n
      BY <1>4, AimedTogether
    <2>4. t.aimLocks <= Cardinality(AimedBy(p, left \cup gone))
      BY <1>4 DEF Aims, Held
    <2>5. tanks[p] = [t EXCEPT !.aimLocks = less]
      BY DEF ReleaseAim
    <2> HIDE DEF n, t, tanks
    <2>6. less \in Nat /\ less <= Cardinality(AimedBy(p, left))
      BY <2>1, <2>2, <2>3, <2>4
    <2> HIDE DEF less
    <2>7. tanks[p] \in Tanks /\ tanks[p].aimLocks = less /\ tanks[p].lastFireTick = t.lastFireTick
      BY <2>1, <2>5, <2>6 DEF Tanks
    <2> QED BY <2>6, <2>7 DEF t
  <1>6. tanks \in [Players -> Tanks]
    BY <1>5
  <1>7. after \subseteq Shots /\ IsFiniteSet(after)
    BY <1>4, FlyOnShots
  <1>8. \A p \in Players : Cardinality(AimedBy(p, after)) = Cardinality(AimedBy(p, left))
    BY <1>4, FlyOnShots
  <1>9. ASSUME NEW s \in after
        PROVE  /\ w.tanks[s.owner].lastFireTick # None
               /\ s.spawnTick <= w.tanks[s.owner].lastFireTick
               /\ s.owner \in Players
    <2>1. PICK r \in left : s = FlyOn(r)
      OBVIOUS
    <2>2. r \in Shots /\ r \in w.projectiles
      BY <1>4
    <2>3. s.owner = r.owner /\ s.spawnTick = r.spawnTick /\ s.owner \in Players
      BY <2>1, <2>2 DEF FlyOn, Shots
    <2> QED BY <2>2, <2>3 DEF Aims, Fired
  <1> HIDE DEF tanks, after, v
  <1>10. v \in Worlds /\ v.tanks = tanks /\ v.projectiles = after
    BY <1>1, <1>3, <1>6, <1>7 DEF Worlds
  <1>11. Fired(v)
    BY <1>5, <1>9, <1>10 DEF Fired
  <1>12. \A p \in Players : Held(v, p)
    BY <1>5, <1>8, <1>10 DEF Held
  <1>13. Aims(v)
    BY <1>7, <1>10, <1>11, <1>12 DEF Aims
  <1> QED BY <1>13 DEF v

-----------------------------------------------------------------------------
(* The match                                                               *)

LEMMA ArenaStays ==
  ASSUME NEW w, Arena(w), NEW v, NoHit(w, v), v.tick \in Nat
  PROVE  Arena(v)
  BY DEF Arena, NoHit, Body, SameBody

\* One tick of the arena, shots, hits and jokers together, leaves nobody held for good.
LEMMA TickAims ==
  ASSUME NEW w, Arena(w), Aims(w), w.jokers # None => ValidBag(w.jokers.bag),
         NEW dealt \in DealJoker(ExpirePowerUps(w)),
         NEW muzzle \in Touches(UNION {Volley(dealt, p) : p \in RapidShooters(dealt)}),
         NEW taken \in CollectToken(Fire(dealt, RapidShooters(dealt), muzzle)),
         NEW touch \in Touches(taken.projectiles), NEW hits
  PROVE  Aims(ApplyHits(AdvanceProjectiles(taken, touch), hits))
  <1> DEFINE expired == ExpirePowerUps(w)
             fired == Fire(dealt, RapidShooters(dealt), muzzle)
             flown == AdvanceProjectiles(taken, touch)
  <1>1. /\ Aims(expired) /\ Arena(expired)
        /\ expired.jokers # None => ValidBag(expired.jokers.bag)
    <2>1. NoHit(w, expired) /\ expired.tick = w.tick + 1
      BY ExpiryHitsNobody
    <2>2. Arena(expired)
      BY <2>1, ArenaStays DEF Arena
    <2>3. expired.jokers = w.jokers
      BY DEF ExpirePowerUps, Arena
    <2> QED BY <2>2, <2>3, ExpiryAims
  <1>2. Aims(dealt) /\ Arena(dealt)
    <2>1. NoHit(expired, dealt) /\ dealt.tick = expired.tick
      BY <1>1, JokerHitsNobody
    <2> QED BY <1>1, <2>1, ArenaStays, JokerAims DEF Arena
  <1>3. Aims(fired) /\ Arena(fired)
    <2>1. NoHit(dealt, fired) /\ fired.tick = dealt.tick
      BY <1>2, FireHitsNobody
    <2>2. Arena(fired)
      BY <1>2, <2>1, ArenaStays DEF Arena
    <2>3. /\ RapidShooters(dealt) \in SUBSET Players
          /\ \A p \in RapidShooters(dealt) : MayFire(dealt.tanks[p], dealt.tick)
      BY DEF RapidShooters
    <2>4. \A s \in DOMAIN muzzle : \E p \in RapidShooters(dealt) : s \in Volley(dealt, p)
      BY DEF Touches
    <2> QED BY <1>2, <2>2, <2>3, <2>4, FireAims
  <1>4. Aims(taken) /\ Arena(taken)
    <2>1. NoHit(fired, taken) /\ taken.tick = fired.tick
      BY <1>3, PickupHitsNobody
    <2> HIDE DEF fired
    <2>2. taken \in CollectToken(fired)
      BY DEF fired
    <2> QED BY <1>3, <2>1, <2>2, ArenaStays, PickupAims DEF Arena
  <1>5. Aims(flown) /\ Arena(flown)
    <2>1. NoHit(taken, flown) /\ flown.tick = taken.tick
      BY <1>4, FlightHitsNobody
    <2> QED BY <1>4, <2>1, ArenaStays, FlightAims DEF Arena
  <1> HIDE DEF flown
  <1>6. Aims(ApplyHits(flown, hits))
    BY <1>5, HitsAims
  <1> QED BY <1>6 DEF flown

LEMMA FrozenAims ==
  ASSUME NEW w, Aims(w)
  PROVE  Aims(Freeze(w))
  <1> DEFINE tanks == [p \in Players |-> [w.tanks[p] EXCEPT !.driving = FALSE, !.aimLocks = 0,
                                                            !.powerUp = None]]
             v == Freeze(w)
  <1>1. w \in Worlds
    BY DEF Aims
  <1>2. ASSUME NEW p \in Players PROVE tanks[p] \in Tanks /\ tanks[p].aimLocks = 0
    <2>1. w.tanks[p] \in Tanks
      BY <1>1, WorldFields
    <2> QED BY <2>1 DEF Tanks
  <1>3. tanks \in [Players -> Tanks]
    BY <1>2
  <1>4. v = [w EXCEPT !.projectiles = {}, !.pendingHits = {}, !.token = None, !.jokers = None,
                      !.tanks = tanks]
    BY DEF Freeze
  <1> HIDE DEF tanks, v
  <1>5. v \in Worlds /\ v.tanks = tanks /\ v.projectiles = {}
    BY <1>1, <1>3, <1>4 DEF Worlds
  <1>6. Aims(v)
    BY <1>2, <1>5, EmptyAims
  <1> QED BY <1>6 DEF v

LEMMA NewAims ==
  ASSUME NEW now \in Nat, NEW control \in [Players -> BOOLEAN]
  PROVE  Aims(NewWorld(now, control))
  <1>1. FreshTank \in Tanks /\ FreshTank.aimLocks = 0
    BY ArenaAssumption DEF FreshTank, Tanks
  <1>2. ASSUME NEW p \in Players
        PROVE  /\ SetControllable(FreshTank, control[p]) \in Tanks
               /\ SetControllable(FreshTank, control[p]).aimLocks = 0
    <2>1. Looser(FreshTank, SetControllable(FreshTank, control[p]))
      BY <1>1, ControlLooser
    <2> QED BY <1>1, <2>1, TankFields DEF Looser
  <1>3. NewWorld(now, control) \in Worlds
    BY <1>2 DEF NewWorld, Worlds
  <1> QED BY <1>2, <1>3, EmptyAims DEF NewWorld

\* The tanks change hands, or nothing but the clock and the dealer does.
LEMMA AimsCountDown == AimInv /\ CountDown => Aims(world')
  <1> SUFFICES ASSUME AimInv, CountDown PROVE Aims(world')
    OBVIOUS
  <1>1. world \in Worlds /\ tick \in Nat /\ tick' = tick + 1 /\ tick' \in Nat /\ bag \in Bags
    <2>1. world \in Worlds /\ tick \in Nat /\ bag \in Bags
      BY DEF AimInv, ArmorInv, DealerInv, Aims
    <2>2. tick' = tick + 1
      BY DEF CountDown
    <2> QED BY <2>1, <2>2
  <1>2. world' \in Worlds /\ world'.tanks = world.tanks /\ world'.projectiles = world.projectiles
    <2>1. CASE tick' < countdownEndsAt
      <3>1. world' = [world EXCEPT !.tick = tick']
        BY <2>1 DEF CountDown
      <3> QED BY <1>1, <3>1 DEF Worlds
    <2>2. CASE ~(tick' < countdownEndsAt)
      <3>1. PICK interval \in SpawnIntervals :
              world' = [world EXCEPT !.tick = tick',
                          !.jokers = [bag |-> bag, nextTokenTick |-> tick' + interval]]
        BY <2>2 DEF CountDown
      <3> DEFINE schedule == [bag |-> bag, nextTokenTick |-> tick' + interval]
      <3>2. interval \in Nat
        BY ArenaAssumption DEF SpawnIntervals
      <3>3. schedule \in Schedules
        BY <1>1, <3>2 DEF Schedules
      <3>4. world' = [world EXCEPT !.tick = tick', !.jokers = schedule]
        BY <3>1
      <3> HIDE DEF schedule
      <3> QED BY <1>1, <3>3, <3>4 DEF Worlds
    <2> QED BY <2>1, <2>2
  <1>3. \A p \in Players : Looser(world.tanks[p], world'.tanks[p])
    BY <1>1, <1>2, WorldFields, TankFields DEF Looser
  <1> QED BY <1>2, <1>3, LooserAims DEF AimInv

LEMMA AimsPlayTick == AimInv /\ PlayTick => Aims(world')
  <1> SUFFICES ASSUME AimInv, PlayTick PROVE Aims(world')
    OBVIOUS
  <1>1. /\ Arena(world) /\ Aims(world)
        /\ world.jokers # None => ValidBag(world.jokers.bag)
    BY DEF AimInv, ArmorInv, Fit, DealerInv, PlayTick
  <1>2. PICK dealt \in DealJoker(ExpirePowerUps(world)) :
          \E muzzle \in Touches(UNION {Volley(dealt, p) : p \in RapidShooters(dealt)}) :
            \E taken \in CollectToken(Fire(dealt, RapidShooters(dealt), muzzle)) :
              \E touch \in Touches(taken.projectiles) :
                ResolveRound(ApplyHits(AdvanceProjectiles(taken, touch),
                                       world.pendingHits \cup ImpactsOf(dealt, muzzle)
                                                         \cup ImpactsOf(taken, touch)))
    BY DEF PlayTick
  <1>3. PICK muzzle \in Touches(UNION {Volley(dealt, p) : p \in RapidShooters(dealt)}) :
          \E taken \in CollectToken(Fire(dealt, RapidShooters(dealt), muzzle)) :
            \E touch \in Touches(taken.projectiles) :
              ResolveRound(ApplyHits(AdvanceProjectiles(taken, touch),
                                     world.pendingHits \cup ImpactsOf(dealt, muzzle)
                                                       \cup ImpactsOf(taken, touch)))
    BY <1>2
  <1>4. PICK taken \in CollectToken(Fire(dealt, RapidShooters(dealt), muzzle)) :
          \E touch \in Touches(taken.projectiles) :
            ResolveRound(ApplyHits(AdvanceProjectiles(taken, touch),
                                   world.pendingHits \cup ImpactsOf(dealt, muzzle)
                                                     \cup ImpactsOf(taken, touch)))
    BY <1>3
  <1>5. PICK touch \in Touches(taken.projectiles) :
          ResolveRound(ApplyHits(AdvanceProjectiles(taken, touch),
                                 world.pendingHits \cup ImpactsOf(dealt, muzzle)
                                                   \cup ImpactsOf(taken, touch)))
    BY <1>4
  <1> DEFINE hits == world.pendingHits \cup ImpactsOf(dealt, muzzle) \cup ImpactsOf(taken, touch)
             w == ApplyHits(AdvanceProjectiles(taken, touch), hits)
  <1> HIDE DEF hits
  <1>6. Aims(w)
    BY <1>1, TickAims
  <1>7. ResolveRound(w)
    BY <1>5 DEF hits
  <1> HIDE DEF w
  <1>8. world' = w \/ world' = Freeze(w)
    BY <1>7 DEF ResolveRound, StopRound
  <1> QED BY <1>6, <1>8, FrozenAims

LEMMA AimsReadyTick == AimInv /\ ReadyTick => Aims(world')
  <1> SUFFICES ASSUME AimInv, ReadyTick PROVE Aims(world')
    OBVIOUS
  <1>1. world' = world \/ world' = NewWorld(tick', controlled)
    BY DEF ReadyTick
  <1>2. tick' \in Nat /\ controlled \in [Players -> BOOLEAN]
    BY DEF ReadyTick, AimInv, ArmorInv
  <1> QED BY <1>1, <1>2, NewAims DEF AimInv

LEMMA AimsEnd == AimInv /\ End => Aims(world')
  <1> SUFFICES ASSUME AimInv, End PROVE Aims(world')
    OBVIOUS
  <1>1. world' = world \/ world' = Freeze(world)
    BY DEF End, StopRound
  <1> QED BY <1>1, FrozenAims DEF AimInv

LEMMA AimsPress ==
  ASSUME AimInv, NEW p \in Players, PressTank(p)
  PROVE  Aims(world')
  <1> DEFINE shooters == {q \in {p} : MayFire(world.tanks[q], world.tick)}
             shots == IF MayFire(world.tanks[p], world.tick) THEN Volley(world, p) ELSE {}
  <1>1. Aims(world) /\ world \in Worlds
    BY DEF AimInv, Aims
  <1>2. PICK touch \in Touches(shots) : world' = Press(world, p, touch)
    BY DEF PressTank
  <1> DEFINE fired == Fire(world, shooters, touch)
             tanks == [fired.tanks EXCEPT ![p] = [fired.tanks[p] EXCEPT !.driving = TRUE]]
  <1>3. \A s \in DOMAIN touch : \E q \in shooters : s \in Volley(world, q)
    BY DEF Touches
  <1>4. shooters \in SUBSET Players /\ \A q \in shooters : MayFire(world.tanks[q], world.tick)
    OBVIOUS
  <1>5. Aims(fired)
    <2> HIDE DEF shooters
    <2> QED BY <1>1, <1>3, <1>4, FireAims
  <1>6. ImpactsOf(world, touch) \subseteq Hits
    <2> SUFFICES ASSUME NEW s \in DOMAIN touch PROVE Impact(world, s, touch[s]) \subseteq Hits
      BY DEF ImpactsOf
    <2>1. s \in Shots
      <3>1. s \in Volley(world, p)
        BY DEF Touches
      <3> QED BY <1>1, <3>1, VolleyShots
    <2> QED BY <2>1 DEF Impact, Hits
  <1>7. fired \in Worlds
    BY <1>5 DEF Aims
  <1>8. world' = [fired EXCEPT !.tanks[p].driving = TRUE,
                               !.pendingHits = @ \cup ImpactsOf(world, touch)]
    BY <1>2 DEF Press
  <1> HIDE DEF fired, shooters, shots
  <1>9. fired.tanks \in [Players -> Tanks] /\ fired.tanks[p] \in Tanks
    BY <1>7, WorldFields
  <1>10. /\ [fired.tanks[p] EXCEPT !.driving = TRUE] \in Tanks
         /\ Looser(fired.tanks[p], [fired.tanks[p] EXCEPT !.driving = TRUE])
    <2>1. [fired.tanks[p] EXCEPT !.driving = TRUE] \in Tanks
      BY <1>9 DEF Tanks
    <2>2. /\ [fired.tanks[p] EXCEPT !.driving = TRUE].aimLocks = fired.tanks[p].aimLocks
          /\ [fired.tanks[p] EXCEPT !.driving = TRUE].lastFireTick = fired.tanks[p].lastFireTick
      BY <1>9 DEF Tanks
    <2> QED BY <1>9, <2>1, <2>2, TankFields DEF Looser
  <1>11. tanks \in [Players -> Tanks]
    BY <1>9, <1>10
  <1>12. \A q \in Players : Looser(fired.tanks[q], tanks[q])
    BY <1>9, <1>10, TankFields DEF Looser
  <1>13. world' = [fired EXCEPT !.tanks = tanks,
                                !.pendingHits = fired.pendingHits \cup ImpactsOf(world, touch)]
    BY <1>7, <1>8 DEF Worlds
  <1>14. fired.pendingHits \cup ImpactsOf(world, touch) \subseteq Hits
    BY <1>6, <1>7, WorldFields
  <1> HIDE DEF tanks
  <1>15. world' \in Worlds /\ world'.tanks = tanks /\ world'.projectiles = fired.projectiles
    BY <1>7, <1>11, <1>13, <1>14 DEF Worlds
  <1> QED BY <1>5, <1>12, <1>15, LooserAims

\* Steps that change tanks only, each for a looser one.
LEMMA LooserTanks ==
  ASSUME AimInv, NEW tanks, world' = [world EXCEPT !.tanks = tanks],
         tanks \in [Players -> Tanks], \A p \in Players : Looser(world.tanks[p], tanks[p])
  PROVE  Aims(world')
  <1>1. world \in Worlds /\ Aims(world)
    BY DEF AimInv, Aims
  <1>2. world' \in Worlds /\ world'.tanks = tanks /\ world'.projectiles = world.projectiles
    BY <1>1 DEF Worlds
  <1> QED BY <1>1, <1>2, LooserAims

LEMMA AimsRelease ==
  ASSUME AimInv, NEW p \in Players, Release(p)
  PROVE  Aims(world')
  <1> DEFINE stopped == [world.tanks[p] EXCEPT !.driving = FALSE]
             tanks == [world.tanks EXCEPT ![p] = stopped]
  <1>1. world \in Worlds /\ world.tanks \in [Players -> Tanks] /\ world.tanks[p] \in Tanks
    BY WorldFields DEF AimInv, Aims
  <1>2. world' = [world EXCEPT !.tanks = tanks]
    BY <1>1 DEF Release, Worlds
  <1>3. stopped \in Tanks
    BY <1>1 DEF Tanks
  <1>4. stopped.aimLocks = world.tanks[p].aimLocks
        /\ stopped.lastFireTick = world.tanks[p].lastFireTick
    BY <1>1 DEF Tanks
  <1> HIDE DEF stopped
  <1>5. tanks \in [Players -> Tanks] /\ \A q \in Players : Looser(world.tanks[q], tanks[q])
    BY <1>1, <1>3, <1>4, TankFields DEF Looser
  <1> HIDE DEF tanks
  <1> QED BY <1>2, <1>5, LooserTanks

LEMMA AimsSetControl ==
  ASSUME AimInv, NEW p \in Players, NEW control \in BOOLEAN, SetControl(p, control)
  PROVE  Aims(world')
  <1> DEFINE tanks == [world.tanks EXCEPT ![p] = SetControllable(world.tanks[p], control)]
  <1>1. world \in Worlds /\ world.tanks \in [Players -> Tanks] /\ world.tanks[p] \in Tanks
    BY WorldFields DEF AimInv, Aims
  <1>2. world' = [world EXCEPT !.tanks = tanks]
    BY <1>1 DEF SetControl, Worlds
  <1>3. Looser(world.tanks[p], SetControllable(world.tanks[p], control))
    BY <1>1, ControlLooser
  <1>4. tanks \in [Players -> Tanks] /\ \A q \in Players : Looser(world.tanks[q], tanks[q])
    BY <1>1, <1>3, TankFields DEF Looser
  <1> HIDE DEF tanks
  <1> QED BY <1>2, <1>4, LooserTanks

LEMMA AimsRecover == AimInv /\ Recover => Aims(world')
  <1> SUFFICES ASSUME AimInv, Recover PROVE Aims(world')
    OBVIOUS
  <1> DEFINE tanks == [p \in Players |-> SetControllable(world.tanks[p], FALSE)]
  <1>1. world' = world \/ world' = [world EXCEPT !.tanks = tanks]
    BY DEF Recover
  <1>2. world \in Worlds /\ world.tanks \in [Players -> Tanks]
    BY WorldFields DEF AimInv, Aims
  <1>3. \A p \in Players : Looser(world.tanks[p], tanks[p])
    BY <1>2, ControlLooser
  <1>4. tanks \in [Players -> Tanks]
    BY <1>3 DEF Looser
  <1> HIDE DEF tanks
  <1>5. CASE world' = world
    BY <1>5 DEF AimInv
  <1>6. CASE world' = [world EXCEPT !.tanks = tanks]
    BY <1>3, <1>4, <1>6, LooserTanks
  <1> QED BY <1>1, <1>5, <1>6

LEMMA AimInit == Init => AimInv
  <1> SUFFICES ASSUME Init PROVE AimInv
    OBVIOUS
  <1>1. Aims(NewWorld(0, controlled))
    <2>1. controlled \in [Players -> BOOLEAN]
      BY DEF Init
    <2> QED BY <2>1, NewAims
  <1> QED BY <1>1, ArmorInit, DealerInit DEF Init, AimInv

LEMMA AimNext == AimInv /\ [Next]_vars => AimInv'
  <1> SUFFICES ASSUME AimInv, [Next]_vars PROVE AimInv'
    OBVIOUS
  <1>1. ArmorInv' /\ DealerInv'
    BY ArmorNext, DealerNext DEF AimInv
  <1>2. changes' \in Nat
    <2>1. changes' = changes \/ changes' = changes + 1
      <3>1. CASE CountDown \/ PlayTick \/ ReadyTick \/ End
        BY <3>1 DEF CountDown, PlayTick, ReadyTick, End
      <3>2. CASE Recover
        BY <3>2 DEF Recover, Change
      <3>3. CASE \E p \in Players : PressTank(p) \/ Release(p) \/
                                  \E control \in BOOLEAN : SetControl(p, control)
        BY <3>3 DEF PressTank, Release, SetControl, Change
      <3>4. CASE UNCHANGED vars
        BY <3>4 DEF vars
      <3> QED BY <3>1, <3>2, <3>3, <3>4 DEF Next
    <2>2. changes \in Nat
      BY DEF AimInv
    <2> QED BY <2>1, <2>2
  <1>3. Aims(world')
    <2>1. CASE CountDown \/ PlayTick \/ ReadyTick \/ End \/ Recover
      BY <2>1, AimsCountDown, AimsPlayTick, AimsReadyTick, AimsEnd, AimsRecover
    <2>2. ASSUME NEW p \in Players, PressTank(p) \/ Release(p)
          PROVE  Aims(world')
      BY <2>2, AimsPress, AimsRelease
    <2>3. ASSUME NEW p \in Players, NEW control \in BOOLEAN, SetControl(p, control)
          PROVE  Aims(world')
      BY <2>3, AimsSetControl
    <2>4. CASE UNCHANGED vars
      BY <2>4 DEF vars, AimInv
    <2> QED BY <2>1, <2>2, <2>3, <2>4 DEF Next
  <1> QED BY <1>1, <1>2, <1>3 DEF AimInv

\* For any players and timing of the rules a tank is held by its aim no longer than a
\* shot of its own is in flight, in every order of shots, landings, losses of control,
\* wrecks, rounds and crashes; and every field keeps its type.
THEOREM AimIsLetGo == Spec => []AimIsHeldByAShot
  <1>1. AimInv => AimIsHeldByAShot
    <2> SUFFICES ASSUME AimInv PROVE AimIsHeldByAShot
      OBVIOUS
    <2>1. lastDealt \in PowerUpKinds \cup {None}
      <3>1. bag.last \in PowerUpKinds \cup {None}
        BY DEF AimInv, DealerInv, Bags
      <3>2. phase = "roundPlaying" => lastDealt \in PowerUpKinds \cup {None}
        BY DEF AimInv, DealerInv, Bags, Schedules
      <3> QED BY <3>1, <3>2 DEF AimInv, DealerInv
    <2>2. TypeOK
      BY <2>1, DealerRestorable DEF AimInv, ArmorInv, DealerInv, Aims, TypeOK
    <2> QED BY <2>2 DEF AimInv, Aims, Held, AimIsHeldByAShot
  <1> QED BY <1>1, AimInit, AimNext, PTL DEF Spec

=============================================================================
