SPECIFICATION FairSpec
CONSTANTS
  MaxPatches = 4
  MaxOld = 2
  Timeout = 1
INVARIANTS
  TypeOK
  OpenMeansSettled
PROPERTIES
  RefusesOnlyUnsettled
  GateAnswers
CHECK_DEADLOCK FALSE
