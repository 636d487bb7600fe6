SPECIFICATION SubSpec
CONSTANTS
  Thread = {t1}
  MaxSub = 1
  SUB_HASH_SIZE = 1
INVARIANT CancelledNotFired
CHECK_DEADLOCK FALSE
