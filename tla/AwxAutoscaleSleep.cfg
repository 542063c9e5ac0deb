SPECIFICATION Spec
CONSTANTS
  c1 = c1
  c2 = c2
  Clients = {c1, c2}
  Reaper = Reaper
  Nobody = Nobody
  Grace = 3
  MaxStartupWait = 3
  MaxLag = 1
  MaxFaults = 0
  Prompt = TRUE
PROPERTIES
  SleepOnlyWhenIdle
