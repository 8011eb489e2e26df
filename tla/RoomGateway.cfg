\* A lobby with two sockets on two instances, a turn game and a match with one.
SPECIFICATION Spec
CONSTANTS
  None = None
  i1 = i1  i2 = i2
  c1 = c1  c2 = c2  c3 = c3
  u1 = u1  u2 = u2
  Instances = {i1, i2}
  Connections = {c1, c2, c3}
  InstanceOf <- MCInstanceOf
  UserOf <- MCUserOf
  OutboundQueue = 4
  MaxConnections = 2
  Scenes <- MCScenes
INVARIANTS NothingMissed RevokedAreDisconnected EndedBeforeResult
PROPERTIES SessionNeverGoesBack
CHECK_DEADLOCK FALSE
