SPECIFICATION LiveSpec
CONSTANTS
  n1 = n1
  n2 = n2
  n3 = n3
  Server = {n1, n2, n3}
  Command = {}
  NoOp = NoOp
  None = None
  MaxEntries = 1
  Candidacy <- Succession
  Crashing = {n3}
  MaxInFlight = 2
  MaxLog = 0
INVARIANTS
  LoneVoterCommitsAtOnce
PROPERTIES
  StableLeaderReplicates
