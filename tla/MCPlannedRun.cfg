SPECIFICATION Spec
CONSTANTS
  Spelled <- MCSpelled
  Commands <- MCCommands
  Drafts <- MCDrafts
  Files <- MCFiles
  Tracked <- MCTracked
  Ignored <- MCIgnored
  Unusual = {"naive.txt", "naive"}
  StepBound = 2
INVARIANTS
  YesStaysInPlan
  UnplannedShows
  ToolsTouchNothingForbidden
  AcceptedChecksCount
CHECK_DEADLOCK FALSE
