SPECIFICATION Spec
CONSTANTS
  Calls = {c1}
  Requests = {"read", "search", "edit"}
  MaxToolCalls = 2
  MaxRepeatedIdentical = 1
  MaxConsecutiveFailures = 2
  MaxSteps = 2
  Risk <- MCRisk
  Precheck <- MCPrecheck
  Listed = {"edit"}
  Forbidden = {}
  Committing = {}
  Sessions <- MCRunYes
  StartSHA = "start"
  OtherSHAs = {}
  SinkFaults = TRUE
INVARIANTS
  EveryActionRecorded
CHECK_DEADLOCK FALSE
