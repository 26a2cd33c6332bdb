SPECIFICATION FairSpec
CONSTANTS
  Calls = {c1, c2}
  Requests = {"read", "search", "edit"}
  MaxToolCalls = 2
  MaxRepeatedIdentical = 1
  MaxConsecutiveFailures = 2
  MaxSteps = 2
  Risk <- MCRisk
  Precheck <- MCPrecheck
  Listed = {"edit"}
  Forbidden = {}
  Committing = {}
  Sessions <- MCRunPrompt
  StartSHA = "start"
  OtherSHAs = {"moved"}
  SinkFaults = FALSE
PROPERTIES
  TimeoutEndsRun
CHECK_DEADLOCK FALSE
