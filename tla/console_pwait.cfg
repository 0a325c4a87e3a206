CONSTANTS
  MaxTtys = 1
  LineSize = 2
  QueueSize = 2
  NameSize = 2
  MaxUsers = 0
  Words = {"pwait", "usr"}
  NameWords = {"usr"}
  NewUsers <- MCNewUsers
  SleepTicks = 1
SPECIFICATION FairSpec
PROPERTY PwaitReturns
CHECK_DEADLOCK FALSE
