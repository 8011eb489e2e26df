SPECIFICATION Spec
CONSTANTS
  older = older
  newer = newer
  plain = plain
  extended = extended
  Instances = {older, newer}
  Games = {g1, g2}
  Contents = {plain, extended}
  Resolves <- MCResolves
  None = None
  MaxWrites = 2
  MaxFaults = 1
INVARIANTS
  CatalogOK
PROPERTIES
  NeverGoesBack
  Converges
