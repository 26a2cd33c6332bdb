SPECIFICATION Spec
CONSTANTS
  None = None
  Absent = Absent
  Malformed = Malformed
  Here = "w1"
  Inside <- MCInside
  Spelled <- MCSpelled
  Setups <- MCSetups
  FlagSets <- MCFlagSets
  Answers <- MCAnswers
  Drafts = {"edits", "checks", "strays"}
  DraftOf <- MCDraftOf
  Pieces = {"edits", "checks", "head", "tail", "prose"}
  MaxPieces = 3
  Roots = {"w1", "w2"}
  Commits = {"c1", "c2"}
  FirstCommit = "c1"
  EvidenceDirs = {"", "out", "w1/log", "link"}
  ChangeBound = 2
INVARIANTS
  MergedAsDocumented
  DoctorMeansStartable
  RunMatchesPlan
CHECK_DEADLOCK FALSE
