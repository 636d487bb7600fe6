SPECIFICATION SubSpec
CONSTANTS
  Thread = {t1}
  MaxSub = 2
  SUB_HASH_SIZE = 1
PROPERTY NotificationHandled
CHECK_DEADLOCK FALSE
