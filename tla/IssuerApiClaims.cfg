\* A claim of the caller in the place of one of the service.
CONSTANTS
  k1 = k1
  k2 = k2
  university = university
  library = library
  pem = pem
  x25519 = x25519
  old = old
  new = new
  a1 = a1
  a2 = a2
  r1 = r1
  r2 = r2
  NoValue = NoValue
  Keys <- OneKey
  Identifiers <- OneIdentifier
  Pems <- OnePem
  Secrets <- OneSecret
  SigningPairs <- AllButX25519
  ApiKeys <- OneApiKey
  Requests <- OneRequest
  StatusListSize = 1
  ClaimNames <- AllReserved
  CallersValue = CallersValue
  CallersDate = 6
  Expiries <- NoExpiry
  Times <- LateTimes
SPECIFICATION OneProcessSpec
CHECK_DEADLOCK FALSE
INVARIANTS
  ReservedClaimsManaged
