SPECIFICATION Spec
CONSTANTS
  Nil = Nil
  v1 = v1
  v2 = v2
  Commands = {c1, c2, c3}
  Versions <- MCVersions
  MaxAmends = 1
  MaxChunks = 2
SYMMETRY Symmetric
INVARIANTS
  ExitCodesAreEarned
  OnlyEarnedOutput
  BrokenFileHasCulprit
CHECK_DEADLOCK FALSE
