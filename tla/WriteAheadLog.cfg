SPECIFICATION Spec
CONSTANTS
  WalKey = {k1, k2}
  MaxRequests = 4
  MaxCrashes = 3
INVARIANTS
  AcknowledgedAreDurable
  AlwaysRecoverable
  StoreMatchesLog
CHECK_DEADLOCK FALSE
