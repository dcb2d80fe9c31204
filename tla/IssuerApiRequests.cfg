\* Two requests over two identifiers, whose keys come and go.
CONSTANTS
  k1 = k1
  k2 = k2
  university = university
  library = library
  pem = pem
  x25519 = x25519
  old = old
  new = new
  a1 = a1
  a2 = a2
  r1 = r1
  r2 = r2
  NoValue = NoValue
  Keys <- TwoKeys
  Identifiers <- TwoIdentifiers
  Pems <- NoSigningPem
  Secrets <- OneSecret
  SigningPairs <- AllButX25519
  ApiKeys <- OneApiKey
  Requests <- TwoRequests
  StatusListSize = 2
  ClaimNames <- StatusOnly
  CallersValue = CallersValue
  CallersDate = 6
  Expiries <- NoExpiry
  Times <- LateTimes
SPECIFICATION Spec
CHECK_DEADLOCK FALSE
INVARIANTS
  DeliveredIsTracked
  IssuedByOwnKey
  EntriesAccounted
  Inductive
PROPERTIES
  StatusLasts
