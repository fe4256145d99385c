SPECIFICATION EndingSpec
CONSTANTS
  t1 = t1
  s1 = s1
  o1 = o1
  NoSem = nosem
  LoopOf <- MainLoop
  Tasks <- OneTask
  Jobs <- OneTask
  PoolSize = 1
  MaxProgress = 1
  MaxActive = 1
PROPERTY
  DeathIsNoticed
CHECK_DEADLOCK FALSE
