SPECIFICATION LiveSpec
CONSTANTS
  Follower = {f1, f2}
  KeySize = {1}
  ValueSize <- LargeValues
  Extension = 150
  MaximumEntriesPerAppend = 64
  SnapshotEntryThreshold = 64
  MaxLogIndex = 4
PROPERTY FollowerCatchesUp
CHECK_DEADLOCK FALSE
