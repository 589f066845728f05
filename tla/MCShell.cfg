SPECIFICATION ShellSpec
CONSTANTS
  Nil = Nil
  user = user
  merchant = merchant
  other = other
  SegmentNames <- MCSegmentNames
  Rosters <- MCRosters
  Calls = {c1, c2}
  MaxVersion = 2
  MaxStarts = 2
INVARIANTS
  VaultInv
  RefusesOnlyOlderPackages
  ShellInv
  StatusIsEarned
PROPERTIES
  KeepsSignerPort
  GraceIsEnough
  CleanExitHidesNothing
  SignalEndsProcess
  EveryRequestEnds
CHECK_DEADLOCK FALSE
