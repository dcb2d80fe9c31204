\* Three allocations and one status request over two keys with two entries each; every call ends.
CONSTANTS
  k1 = k1
  k2 = k2
  c1 = c1
  c2 = c2
  c3 = c3
  q1 = q1
  Keys <- TwoKeys
  Calls <- ThreeCalls
  StatusRequests <- OneStatusRequest
  StatusListSize = 2
  NoKey = NoKey
  NoCall = NoCall
SPECIFICATION FairSpec
CHECK_DEADLOCK FALSE
INVARIANTS
  CounterMatchesRows
  IndexUnique
  IndexInList
  FailuresAreHonest
  RowIffReturned
  ListsAreSound
  ListsAreFresh
  Inductive
PROPERTIES
  HistoryKept
  ImplementsRegistry
  EveryCallEnds
