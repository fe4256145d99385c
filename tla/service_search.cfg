SPECIFICATION Spec
CONSTANTS
  t1 = t1
  s1 = s1
  o1 = o1
  NoSem = nosem
  LoopOf <- OwnLoop
  Tasks <- OneTask
  Jobs <- TaskAndSearch
  PoolSize = 1
  MaxProgress = 0
  MaxActive = 1
INVARIANT
  ChildrenBounded
CHECK_DEADLOCK FALSE
