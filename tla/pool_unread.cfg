SPECIFICATION Spec
CONSTANTS
  t1 = t1
  s1 = s1
  o1 = o1
  NoSem = nosem
  LoopOf <- MainLoop
  Tasks <- OneTask
  Jobs <- OneTask
  PoolSize = 1
  MaxProgress = 2
  MaxActive = 1
INVARIANT
  NothingLeftUnread
CHECK_DEADLOCK FALSE
