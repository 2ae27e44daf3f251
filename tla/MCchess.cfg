SPECIFICATION Spec
CONSTANTS
  MaxThread = 2
  Mutex = {"a", "b"}
  Cond = {"c"}
  Programs <- MCPrograms
  Bounds <- MCBounds
  MaxDepth = 24
INVARIANTS
  SearchExhaustive
  NoRepeat
  FollowsStack
PROPERTY
  SearchEnds
CHECK_DEADLOCK FALSE
