SPECIFICATION FairSpec
CONSTANTS
  a = a
  b = b
  writer = writer
  Obj <- MCObj
  Client = {writer}
  Home <- MCHome
  Layout <- MCLayout
  MaxFail = 1
INVARIANTS NothingLost DrainedBeforeFini ServerHasObject
PROPERTY FiniReturns
CHECK_DEADLOCK FALSE
