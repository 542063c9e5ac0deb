SPECIFICATION Spec
CONSTANTS
  w1 = w1
  w2 = w2
  Wakers = {w1, w2}
  Reaper = Reaper
  NoHolder = NoHolder
  Holders <- MCHolders
  HolderOf <- MCHolderOf
  Extensions <- MCExtensions
  MaxRetries = 2
  MaxTime = 3
  MaxCalls = 3
  MaxDeletes = 1
SYMMETRY Symmetry
INVARIANTS
  TypeOK
  GrantHonoured
  SingleFlight
PROPERTIES
  ActiveLeaseNotStolen
  OnlyOwnerShrinks
  ImplementsWakeLease
CHECK_DEADLOCK FALSE
