SPECIFICATION YieldSpec
CONSTANTS
  MaxTid = 2
  EnabledSets = {{}, {0}, {1, 2}, {0, 1, 2}}
INVARIANTS TypeOK PriorityAcyclic AlwaysSchedules
PROPERTY NoStarvation
