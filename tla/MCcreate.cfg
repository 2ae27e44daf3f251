SPECIFICATION FairSpec
CONSTANTS
  Thread = {T0, T1, T2, T3}
  Main = T0
  Handle = {h1, h2, h3}
  NoHandle = NoHandle
  MaxTid = 3
  MaxCreators = 1
  MayFail = TRUE
INVARIANT HandleReuseOK
PROPERTIES ChildIdentifiedOnReturn CreatedReturns
CHECK_DEADLOCK FALSE
