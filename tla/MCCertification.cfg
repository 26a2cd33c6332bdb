SPECIFICATION Spec
CONSTANTS
  Files <- FilesDef
  Forbidden <- ForbiddenDef
  Refused <- ForbiddenDef
  Ignored = {".env"}
  Planned <- PlannedDef
  Printed <- PrintedDef
  Folder <- FolderDef
  Redact <- RedactDef
  Commands <- CommandsDef
  SecretChecks <- SecretChecksDef
  OtherCommands = {"make"}
  Tests <- TestsDef
  Commits <- CommitsDef
  CallBound = 3
  DisturbanceBound = 1
INVARIANTS
  PassedChecksOnly
  PlannedChangesOnly
  SuccessIsOnFile
  LaterVerifyAgrees
  VerdictAgrees
PROPERTY
  CertifiesOnlyTheRecord
CHECK_DEADLOCK FALSE
