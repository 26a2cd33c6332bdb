SPECIFICATION Spec
CONSTANTS
  Sessions = {s1, s2}
  LegacyLogs <- NoLegacyLogs
  Legacy = legacy_release
  RecordBound = 3
INVARIANTS
  OneContinuousChain
CHECK_DEADLOCK FALSE
