SPECIFICATION Spec
CONSTANTS
  MaxTid = 3
  Handle = {h1, h2, h3}
  NoHandle = NoHandle
  Lock = {l1}
  Cond = {c1}
  Addr = {a1}
  Iid = {i1, i2}
  ProfileSize = 2
  LockProfile = 1
  MaxOps = 7
  MaxEvents = 3
CONSTRAINT Explored
INVARIANTS
  Identified
  ClocksExact
  OwnClockLeads
  ReportExact
SYMMETRY Symmetry
CHECK_DEADLOCK FALSE
