SPECIFICATION Spec
CONSTANTS
  Players = {p1, p2}
  None = None
  ArmorPerRound = 3
  FireCooldownTicks = 2
  RapidFireCooldownTicks = 1
  HitProtectionTicks = 3
  ShellLifetimeTicks = 2
  RocketLifetimeTicks = 2
  SpreadShots = 2
  PowerUpDurationTicks = 2
  PowerUpTokenLifetimeTicks = 1
  PowerUpMinimumTicks = 1
  PowerUpMaximumTicks = 1
  PowerUpRetryTicks = 1
  RoundCountdownTicks = 1
  PowerUpKinds = {"rocket", "rapidFire", "spreadShot", "aim"}
  MaxTick = 6
  MaxChanges = 3
SYMMETRY Symmetry
INVARIANTS ArmorTakesTime AimIsHeldByAShot
PROPERTIES NeverTwiceInARow
CHECK_DEADLOCK FALSE
