SPECIFICATION Spec
CONSTANTS
  MaxThread = 2
  Mutex = {"a", "b"}
  Cond = {"c"}
  MaxSwitches = 3
  Programs <- MCPrograms
INVARIANTS
  ReplayReproduces
  ReplayInStep
  NoInternalError
CHECK_DEADLOCK FALSE
