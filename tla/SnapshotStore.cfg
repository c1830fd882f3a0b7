SPECIFICATION Spec
CONSTANTS
  MaxImage = 3
  MaxFiles = 3
  Size = 2
  MaxCrashes = 2
INVARIANTS
  CrashSeesWholeImage
  PublishedSurvives
CHECK_DEADLOCK FALSE
