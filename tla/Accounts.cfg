SPECIFICATION Spec
CONSTANTS
  Users = {u1, u2}
  e1 = e1
  e2 = e2
  pApple = pApple
  pFacebook = pFacebook
  Emails = {e1, e2}
  ProviderAccounts = {pApple, pFacebook}
  Provider <- MCProvider
  SharedEmail <- MCSharedEmail
  Apple = 2
  Facebook = 3
  MaxFailed = 2
  MaxAge = 1
  MaxLinks = 2
  MaxChanges = 2
  Absent = Absent
  Deleted = Deleted
INVARIANTS
  NobodyLockedOut
  LimitsHold
  RevokedIsGone
SYMMETRY Symmetry
CHECK_DEADLOCK FALSE
