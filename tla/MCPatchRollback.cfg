SPECIFICATION Spec
CONSTANTS
  Appliers = {p1}
  Files = {"a", "b"}
  Names = {"a.txt", "./a.txt", "b.txt"}
  FileOf <- MCFileOf
  Contents = {"v1", "v2", "v3"}
  Edits = {"fix", "bump", "jump"}
  EditOf <- MCEditOf
  Texts <- MCTexts
  Finds <- MCFinds
  Patches <- MCPatches
  Faults = {"write"}
  SaveBound = 0
INVARIANTS
  CleanRollbackIsClean
CHECK_DEADLOCK FALSE
