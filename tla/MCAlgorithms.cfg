SPECIFICATION MCSpec
CONSTANTS
  PrivateKeys = {p1, p2}
  Sizes <- MCSizes
  Width = 6
  Groups = {"g", "correlation_id"}
  AttrLists <- MCAttrLists
  Id = "id"
  MaxLoggers = 5
INVARIANTS
  WrapsAsRFC3394
  IntactUnwraps
  
  RecordIsAsDerived
  ContextIdWins
CHECK_DEADLOCK FALSE
