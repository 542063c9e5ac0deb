SPECIFICATION FairSpec
CONSTANTS
  c1 = c1
  c2 = c2
  Clients = {c1, c2}
  Reaper = Reaper
  Nobody = Nobody
  Grace = 2
  MaxStartupWait = 3
  MaxLag = 0
  MaxFaults = 1
  Prompt = TRUE
INVARIANTS
  OnlyHolderPatches
PROPERTIES
  WakeEventually
  ScaleToZero
