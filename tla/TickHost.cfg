SPECIFICATION Spec
CONSTANTS
  p1 = p1
  p2 = p2
  p3 = p3
  Players = {p1, p2, p3}
  None = None
  MinimumPlayers = 2
  MaximumMatchTicks = 5
  CatchUp = 1
  InputLifetime = 1
  ControlTimeout = 3
  ReconnectGrace = 1
  RuntimeQueueSize = 3
  PlayerQueueSize = 2
  RoundWinsNeeded = 1
  RoundCountdownTicks = 1
  RoundReadyWindowTicks = 1
  RoundReadyIdleTicks = 2
  Scenes <- MCScenes
  Connections = {c1, c2}
  FirstConnection = c1
  RecoveryMaxAge = 2
SYMMETRY Symmetry
INVARIANTS AnnouncedIsKept EveryCheckpointRestores StationaryTarget
PROPERTIES ProposalKept
CHECK_DEADLOCK FALSE
