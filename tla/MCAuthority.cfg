SPECIFICATION Spec
CONSTANTS
  Nil = Nil
  c1 = c1
  c2 = c2
  a = a
  b = b
  Callers <- MCCallers
  Refs <- MCRefs
  Documents <- MCDocuments
  Grants <- MCGrants
  Projections <- MCProjections
  MaxFiles = 2
  MaxStarts = 2
  MaxEdits = 1
  MaxUses = 1
INVARIANTS
  TypeOK
  AllowIsPermitted
  HashIsPinned
  CommitmentCarriesPermission
SYMMETRY Symmetric
CHECK_DEADLOCK FALSE
