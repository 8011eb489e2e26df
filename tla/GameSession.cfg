\* More players than places, every interleaving up to time 4, under the fairness
\* of the room's timer.
CONSTANTS
  p1 = p1
  p2 = p2
  p3 = p3
  p4 = p4
  Players = {p1, p2, p3, p4}
  MinPlayers = 2
  MaxPlayers = 3
  ReadyWindow = 2
  Countdown = 1
  TurnBased = TRUE
  TurnDuration = 1
  Horizon = 4
  MaxVersion = 9
SPECIFICATION FairSpec
INVARIANTS
  SnapshotAcceptable
  RosterIsFrozen
PROPERTIES
  ChangesAreOrdered
  ImplementsLifecycle
  LobbyMovesOn
CHECK_DEADLOCK FALSE
