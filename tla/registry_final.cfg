SPECIFICATION FairSpec
CONSTANTS
  t1 = t1
  t2 = t2
  c1 = c1
  Loop = loop
  NoTask = none
  Tasks <- TwoTasks
  AITasks <- OneAI
  Clients <- OneClient
  MaxActive = 1
  MaxAdmitted = 1
PROPERTY
  TerminalIsFinal
CHECK_DEADLOCK FALSE
