SPECIFICATION Spec
CONSTANTS
  None = None
  Forever = Forever
  Users = {u1}
  Requests = {r1, r2}
  AccessLife = 2
  AccessTTL = 2
  RefreshLife = 2
  RefreshTTL = 2
  MaxTime = 3
SYMMETRY Slots
CHECK_DEADLOCK FALSE
INVARIANTS
  IInv
  RevokedRejected
  SessionEnded
PROPERTIES
  RejectedForGood
