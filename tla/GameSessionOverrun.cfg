\* A join after the window ended leaves a deadline nobody can act on.
CONSTANTS
  p1 = p1
  p2 = p2
  p3 = p3
  Players = {p1, p2, p3}
  MinPlayers = 2
  MaxPlayers = 3
  ReadyWindow = 1
  Countdown = 1
  TurnBased = FALSE
  TurnDuration = 1
  Horizon = 3
  MaxVersion = 9
SPECIFICATION FairSpec
PROPERTIES
  WindowEnds
CHECK_DEADLOCK FALSE
