\* Three forms that compete for two identifiers, with deletions and restarts.
CONSTANTS
  k1 = k1
  k2 = k2
  k3 = k3
  university = university
  library = library
  pem = pem
  old = old
  new = new
  Keys <- ThreeKeys
  Identifiers <- TwoIdentifiers
  Pems <- OnePem
  Secrets <- TwoSecrets
  NoValue = NoValue
SPECIFICATION Spec
CHECK_DEADLOCK FALSE
INVARIANTS
  IdentifierUnique
  FormsAreHonest
  Inductive
PROPERTIES
  ImplementsRegistry
