SPECIFICATION BoundedSpec
CONSTANTS
  Node <- Four
  Bootstrap <- Three
  Ops <- AddAndRemove
  Candidates <- Two
  MaxTerm = 2
  MaxLog = 5
  MaxRestarts = 1
INVARIANTS
  OneLeaderPerTerm
  
  AnsweredIsCommitted
CHECK_DEADLOCK FALSE
