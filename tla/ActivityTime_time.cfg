SPECIFICATION Spec
CONSTANTS
  Budget = 7
  Lease = 4
  Closing = 2
  Reply = 6
  Call = 6
  MaxTime = 16
  MaxClaims = 4
INVARIANTS TypeOK ChargeIsHeldTime LeaseEndsInWindow ModelStopsInTime ActivityIsBounded
PROPERTY ClosingIsFrozen
CHECK_DEADLOCK FALSE
