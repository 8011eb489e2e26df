\* Two handlers at a time, three client keys, two sessions one after the other.
CONSTANTS
  h1 = h1
  h2 = h2
  k1 = k1
  k2 = k2
  k3 = k3
  s1 = s1
  s2 = s2
  Handlers = {h1, h2}
  Sessions = {s1, s2}
  Keys = {k1, k2, k3}
  System = System
  None = None
  MaxEvents = 2
  MaxTries = 5
SPECIFICATION Spec
SYMMETRY Interchangeable
INVARIANTS
  VersionIdentifiesContent
  AnswersAreTrue
PROPERTIES
  ImplementsLedger
CHECK_DEADLOCK FALSE
