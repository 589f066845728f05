SPECIFICATION Spec
CONSTANTS
  Nil = Nil
  SupportedSpecVersion = "1.0.0"
  user = user
  merchant = merchant
  userKey = userKey
  merchantKey = merchantKey
  strangerKey = strangerKey
  ref = ref
  v1 = v1
  v2 = v2
  k1 = k1
  k2 = k2
  PrivateKeys <- MCPrivateKeys
  IntentRefs <- MCIntentRefs
  Versions <- MCVersions
  Kids <- OneKid
  Permits <- MCPermits
  Calls = {c1, c2}
  Requests <- AllRequests
  MaxAmends = 1
  MaxRestarts = 1
INVARIANTS
  SealInv
  NoKeyOutlivesItsSegment
  IssuedPackageVerifies
  RecipientsOpenTheirOwn
  CommitsToPermittedConstraints
  NoKeyBeforeAuthorization
PROPERTIES
  SealIssuesOrDoesNothing
  EveryCallReturns
CHECK_DEADLOCK FALSE
