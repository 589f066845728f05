SPECIFICATION Spec
CONSTANTS
  Nil = Nil
  SupportedSpecVersion = "1.0.0"
  user = user
  merchant = merchant
  userKey = userKey
  merchantKey = merchantKey
  strangerKey = strangerKey
  ref = ref
  v1 = v1
  v2 = v2
  k1 = k1
  k2 = k2
  PrivateKeys <- MCPrivateKeys
  IntentRefs <- MCIntentRefs
  Versions <- MCVersions
  Kids <- MCKids
  TrustedKids <- MCTrustedKids
  SpecLists <- MCSpecLists
  Permits <- MCPermits
  Calls = {c1, c2}
  Requests <- MCRequests
  MaxAmends = 1
  MaxFaults = 1
  MaxResigns = 0
INVARIANTS
  
  
  OKMeansAuthorized
  IntactCopyVerifies
