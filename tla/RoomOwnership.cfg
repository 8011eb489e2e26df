\* Two instances compete for one match that is cancelled, lost and recovered, under
\* the fairness of their loops; no symmetry, since a liveness property is checked.
SPECIFICATION FairSpec
CONSTANTS
  Instances = {i1, i2}
  LeaseIds = {l1, l2, l3}
  Outcomes = {won}
  Cancels = {c1}
  None = None
  MaxTicks = 2
  MaxDisturbances = 2
INVARIANTS OneWorld OutcomeStands
PROPERTIES OwnerNotDisplaced NoGhostCheckpoint MatchEnds
