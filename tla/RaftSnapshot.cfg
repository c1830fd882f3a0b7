SPECIFICATION LiveSpec
CONSTANTS
  n1 = n1
  n2 = n2
  n3 = n3
  Node = {n1, n2, n3}
  Scenarios <- MCScenarios
INVARIANTS
  
  EveryNodeCanStart
  NobodyStops
  
  BlankNeverSent

  
CHECK_DEADLOCK FALSE
