SPECIFICATION Spec
CONSTANTS
  n1 = n1
  n2 = n2
  n3 = n3
  t1 = t1
  t2 = t2
  c1 = c1
  c2 = c2
  k = k
  a = a
  b = b
  Node = {n1, n2, n3}
  Client = {c1, c2}
  Key = {k}
  Value = {a, b}
  NoValue = NoValue
  Thread = {t1, t2}
  ClientOf <- OwnClients
  Scenarios <- MCScenarios
INVARIANTS
  MachinesFollowTheLog
  
  AnswersAreOwn
  ReadsSeeAcknowledged
CHECK_DEADLOCK FALSE
