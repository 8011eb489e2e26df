SPECIFICATION Spec
CONSTANTS
  Users = {u1, u2, u3}
  Houses = {h1}
  Chores = {c1}
  Photos = {p1}
  Limits = {2, 3}
  MaxReviewRounds = 2
  MaxAge = 1
  MaxUnanswered = 1
  MaxChanges = 5
  Absent = Absent
  Deleted = Deleted
INVARIANTS
  HousesAgree
  ReviewsProceed
  ApprovedByTheOthers
  PhotoLostOnlyUnanswered
SYMMETRY Symmetry
CHECK_DEADLOCK FALSE
