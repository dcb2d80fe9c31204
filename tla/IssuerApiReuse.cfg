\* One identifier used by two keys in turn, with restarts and another secret; every request ends.
CONSTANTS
  k1 = k1
  k2 = k2
  university = university
  library = library
  pem = pem
  x25519 = x25519
  old = old
  new = new
  a1 = a1
  a2 = a2
  r1 = r1
  r2 = r2
  NoValue = NoValue
  Keys <- TwoKeys
  Identifiers <- OneIdentifier
  Pems <- BothPems
  Secrets <- TwoSecrets
  SigningPairs <- AllButX25519
  ApiKeys <- OneApiKey
  Requests <- OneRequest
  StatusListSize = 1
  ClaimNames <- IssuerAndDates
  CallersValue = CallersValue
  CallersDate = 6
  Expiries <- SomeExpiries
  Times <- SomeTimes
SPECIFICATION FairSpec
CHECK_DEADLOCK FALSE
INVARIANTS
  SignatureMatchesIssuer
  OwnCredentialsVerify
  VerifiesUnderOwnKeyOnly
PROPERTIES
  EveryRequestEnds
