SPECIFICATION FairTerminalSpec
CONSTANTS
  Calls = {c1, c2}
  Requests = {"read", "stray"}
  MaxToolCalls = 1
  MaxRepeatedIdentical = 1
  MaxConsecutiveFailures = 1
  MaxSteps = 2
  Risk <- MCRisk
  Precheck <- MCPrecheck
  Listed = {}
  Forbidden = {}
  Committing = {}
  Sessions <- MCSessions
  StartSHA = "start"
  OtherSHAs = {}
  SinkFaults = FALSE
  Lines = {"yes", "no"}
  Yes = {"yes"}
  LineBound = 2
INVARIANTS
  EffectsWithinBudget
  AnswerReachesItsPrompt
PROPERTIES
  TripIsTerminal
  ImplementsFairMonitor
  EveryRunEnds
CHECK_DEADLOCK FALSE
