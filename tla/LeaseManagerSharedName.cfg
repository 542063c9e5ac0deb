SPECIFICATION Spec
CONSTANTS
  w1 = w1
  w2 = w2
  Wakers = {w1, w2}
  Reaper = Reaper
  NoHolder = NoHolder
  Holders <- MCHolders
  HolderOf <- SharedHolderOf
  Extensions <- MCExtensions
  MaxRetries = 2
  MaxTime = 3
  MaxCalls = 3
  MaxDeletes = 1
INVARIANTS
  SingleFlight
CHECK_DEADLOCK FALSE
