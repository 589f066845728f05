SPECIFICATION Spec
CONSTANTS
  Nil = Nil
  k1 = k1
  k2 = k2
  r1 = r1
  r2 = r2
  Keys <- MCKeys
  Requests <- MCRequests
  Tokens <- MCTokens
  CacheTTL = 2
  FetchTimeout = 1
  MaxTime = 5
INVARIANTS
  JwksInv
  OnlyRecentKeysAdmit
  PublishedKeysAdmit
  AnswersInTime
SYMMETRY Symmetric
