SPECIFICATION PutSpec
CONSTANTS
  PutReq = {p1, p2, p3}
  NoReq = NoReq
INVARIANT PutListSound
CHECK_DEADLOCK FALSE
