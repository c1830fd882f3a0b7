SPECIFICATION LiveSpec
CONSTANTS
  s1 = s1
  s2 = s2
  Socket = {s1, s2}
  Fd = {3}
  MaxRequests = 2
  QueueCapacity = 1
  MaximumConnections = 1
  MaxBuffered = 1
  Room = 1
  MaxFaults = 1
  Budgets <- MCBudgets
INVARIANTS
  AnswersReachTheirConnection
  NothingIsMislaid
PROPERTIES
  PostedIsDelivered
  StopEndsEveryThread
CHECK_DEADLOCK FALSE
