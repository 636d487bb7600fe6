SPECIFICATION MCSpec
CONSTANTS
  Name = {temp}
  Cell <- MCCell
  Box <- MCBox
  Version = {0, 1}
  Owner = {s0}
  max_versions = 1
  r1 = r1
  r2 = r2
  Reader = {r1, r2}
  Share <- MCShare
INVARIANTS TypeOK RemainingExact NoLostWakeup NoDanglingSub ResultExact
PROPERTY SubscriberServed
CHECK_DEADLOCK FALSE
