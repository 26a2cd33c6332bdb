SPECIFICATION Spec
CONSTANTS
  Calls = {c1, c2}
  Requests = {"read", "search", "test", "commit", "edit", "escape", "stray", "netrc"}
  MaxToolCalls = 2
  MaxRepeatedIdentical = 1
  MaxConsecutiveFailures = 2
  MaxSteps = 2
  Risk <- MCRisk
  Precheck <- MCPrecheck
  Listed = {"test", "edit"}
  Forbidden = {"netrc"}
  Committing = {"commit"}
  Sessions <- MCSessions
  StartSHA = "start"
  OtherSHAs = {"moved"}
  SinkFaults = FALSE
SYMMETRY Symmetry
INVARIANTS
  TypeOK
  ExactlyOneRecord
  RecordsTellTheTruth
  VarianceNeedsHuman
  RuledAtPlanHead
  EffectsWithinAuthority
  StatusIsHonest
  CountersMatchHistory
  LimitsHold
PROPERTIES
  ImplementsMonitor
CHECK_DEADLOCK FALSE
