\* Lists below, at and above a full byte, with every choice of revoked rows.
CONSTANTS
  Sizes <- SmallSizes
  NoList = NoList
SPECIFICATION Spec
CHECK_DEADLOCK FALSE
INVARIANTS
  TypeOK
  BitsOfPassedRows
  TokenReadsBack
