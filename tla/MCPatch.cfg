SPECIFICATION Spec
CONSTANTS
  Appliers = {p1, p2}
  Files = {"a", "b"}
  Names = {"a.txt", "./a.txt", "b.txt"}
  FileOf <- MCFileOf
  Contents = {"v1", "v2", "v3"}
  Edits = {"fix", "bump", "jump"}
  EditOf <- MCEditOf
  Texts <- MCTexts
  Finds <- MCFinds
  Patches <- MCPatches
  Faults = {"read", "open", "write"}
  SaveBound = 1
SYMMETRY Symmetry
INVARIANTS
  FreshUnlessDisturbed
  DamageIsReported
PROPERTIES
  SuccessIsComplete
  RollbackRestores
  KillDamagesOneFile
  ImplementsAtomicPatch
CHECK_DEADLOCK FALSE
