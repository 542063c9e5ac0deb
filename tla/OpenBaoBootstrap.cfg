SPECIFICATION Spec
CONSTANT MaxRuns = 4
INVARIANTS
  TypeOK
  AccountsReachable
  RevokedMeansRecoverable
  RootsAreOfBrokenRuns
PROPERTIES
  PushedIsIssued
  ImplementsKeyEscrow
CHECK_DEADLOCK FALSE
