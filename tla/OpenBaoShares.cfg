SPECIFICATION Spec
CONSTANT MaxRuns = 2
INVARIANT PluggedInRerunDistributes
CHECK_DEADLOCK FALSE
