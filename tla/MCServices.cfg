SPECIFICATION AllSpec
CONSTANTS
  Name = {n}
  Version = {0, 1, 2}
  Writer = {w1, w2}
  reader = reader
  waiter = waiter
  Client = {reader, waiter}
  size_hash = 2
  None = None
  PutReq = {p1, p2, p3}
  NoReq = NoReq
  ExecCall = {e1, e2, e3}
  Multi = {e2}
  Args <- ExecArgs
  Argument = {"plain", "module"}
  Module = {"module"}
  NoCall = NoCall
  RegCall <- Registrations
  RegType <- Types
  RegName <- Names
  Loaded = {"t"}
  MaxRestarts = 1
  NoReg = NoReg
INVARIANTS
  OneEntryPerVersion LastIsLatest NoLostNotification
  FiniAfterPuts PutListKept CondTargetsAlive RegisteredIdExact
PROPERTIES HandsOutLowest WaiterServed ExecReleased
CHECK_DEADLOCK FALSE
