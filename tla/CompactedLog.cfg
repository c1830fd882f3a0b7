SPECIFICATION LogSpec
CONSTANTS
  Term = {1, 2}
  Blank = blank
  Payload = {blank, put}
  Batch <- ShortBatches
  MaxIndex = 4
INVARIANTS
  Restorable
PROPERTIES
  ImplementsWindow
CHECK_DEADLOCK FALSE
