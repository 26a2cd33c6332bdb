SPECIFICATION Spec
CONSTANTS
  Sessions = {s1, s2, s3}
  LegacyLogs <- MCLegacyLogs
  Legacy = legacy_release
  RecordBound = 4
SYMMETRY Symmetry
INVARIANTS
  SessionsChain
  EachSessionChains
  AcknowledgedStay
  LegacyContinues
  DeletionShows
CHECK_DEADLOCK FALSE
