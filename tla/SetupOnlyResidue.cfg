SPECIFICATION Spec
CONSTANTS
  p1 = p1
  p2 = p2
  r1 = r1
  r2 = r2
  NoRun = NoRun
  Runs = {p1, p2}
  Requests = {r1, r2}
INVARIANTS
  ResidueStated
CHECK_DEADLOCK FALSE
