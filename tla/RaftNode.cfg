SPECIFICATION ScenarioSpec
CONSTANTS
  n1 = n1
  n2 = n2
  n3 = n3
  Server = {n1, n2, n3}
  Command = {c1}
  NoOp = NoOp
  None = None
  MaxEntries = 1
  Candidacy <- AnyStanding
  Crashing = {n1, n2, n3}
  MaxInFlight = 3
  MaxLog = 2
INVARIANTS
  ElectionSafety
  OneVotePerTerm
  LeaderHintSound
  RestartNeverRefused
  ProgressSound
  LogMatching
  ElectableHoldCommitted
PROPERTIES
  ImplementsReplicatedLog
  NothingDurableIsLost
