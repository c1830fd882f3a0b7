SPECIFICATION Spec
CONSTANTS
  State <- MCState
  NoState = NoState
  Corrupt = Corrupt
  MaxDelta = 2
  MaxFile = 4
  MaxRecords = 4
  Crashes = {{"process"}, {"machine"}}
  LosesEntry = FALSE
INVARIANTS
  RecoversLastSave
