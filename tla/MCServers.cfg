SPECIFICATION AllSpec
CONSTANTS
  size_sp = 4
  Call = {k1, k2, k3}
  Entry = {0, 1, 3}
  num_apps = 2
  Object <- Objects
  Clash <- Clashes
  None = None
  RemoteVar = {"u", "v"}
  RemoteVersion = {0, 1}
  size_hash = 1
  Getter = {g1, g2}
  Nothing = Nothing
  Site <- Sites
  Gateway = "gateway"
  Remotes <- Links
  Thread = {t1, t2}
  MaxSub = 2
  SUB_HASH_SIZE = 2
INVARIANTS
  TokensExact ForwardBeforeFree OncePerServer AnswerExact MixedUpByAnother PeekExact
  QuietAfterFini
PROPERTIES ImplementsLifetime Answered NotificationHandled WaiterResumes
CHECK_DEADLOCK FALSE
