SPECIFICATION ProxySpec
CONSTANTS
  RemoteVar = {"u", "v"}
  RemoteVersion = {0}
  size_hash = 1
  Getter = {g1, g2}
  Nothing = Nothing
INVARIANT RemoteGetExact
CHECK_DEADLOCK FALSE
