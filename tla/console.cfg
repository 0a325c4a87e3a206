CONSTANTS
  MaxTtys = 2
  LineSize = 3
  QueueSize = 3
  NameSize = 3
  MaxUsers = 2
  Words = {"login", "logout", "usr", "pwait"}
  NameWords = {"usr"}
  NewUsers <- MCNewUsers
  SleepTicks = 1
SPECIFICATION Spec
INVARIANTS TypeOK SessionAgrees SessionOfThisTty
PROPERTIES LoginNeedsPassword ImplementsQueue
CHECK_DEADLOCK FALSE
