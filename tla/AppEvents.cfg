SPECIFICATION Spec
CONSTANTS
  Users = {u1, u2}
  Houses = {h1}
  Instances = {i1}
  Commands = {p1, p2}
  Connections = {c1, c2}
  MaxConnections = 2
  MaxConnectionsPerUser = 1
  QueueSize = 1
  MaxChanges = 2
  MaxFaults = 1
  MaxTroubles = 2
  Nobody = Nobody
INVARIANTS
  ServiceOK
  NobodyIsLeftStale
SYMMETRY Symmetry
CHECK_DEADLOCK FALSE
