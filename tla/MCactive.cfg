SPECIFICATION Spec
CONSTANTS
  MaxThread = 2
  Mutex = {"a", "b"}
  Cond = {"c"}
  Inputs <- MCInputs
INVARIANTS
  PausedStay
  PausedNoDeadlock
PROPERTIES
  RaceIsReal
  ExecutionEnds
