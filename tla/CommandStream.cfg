CONSTANTS
  p1 = p1
  p2 = p2
  x = x
  y = y
  z = z
  Players = {p1, p2}
  MinPlayers = 2
  MaxPlayers = 2
  ReadyWindow = 1
  Countdown = 1
  Cells = {x, y, z}
  Lines <- MCLines
  JoinOrder <- MCJoinOrder
  TurnTimeout = 1
  Nobody = Nobody
  Instances = {i1, i2}
  Nowhere = Nowhere
  Scenes <- MCScenes
  LastTime = 4
  QueueSize = 1
SPECIFICATION FairStreamSpec
INVARIANTS EffectsOnce ResultIsEarned
PROPERTIES TurnsAreHonoured CommandsAreDecided
CHECK_DEADLOCK FALSE
