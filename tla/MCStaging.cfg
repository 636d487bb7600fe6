SPECIFICATION FairSpec
CONSTANTS
  Name = {v}
  Cell <- MCCell
  Box <- MCBox
  Version = {0, 1}
  s0 = s0
  s1 = s1
  Owner = {s0, s1}
  max_versions = 1
  Share <- MCShare
  Reader = {r}
  MaxPuts = 3
INVARIANTS IndexBacked GetExact FaultsExplained
PROPERTY GetServedAlone
CHECK_DEADLOCK FALSE
