SPECIFICATION FairSpec
CONSTANTS
  Thread = {T0, T1}
  Main = T0
  Handle = {h1, h2}
  NoHandle = NoHandle
  MaxTid = 1
  MaxCreators = 1
  MayFail = TRUE
PROPERTY CreateReturns
CHECK_DEADLOCK FALSE
