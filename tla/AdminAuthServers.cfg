\* Two servers create the administrator on one directory; starts and calls end.
CONSTANTS
  s1 = s1
  s2 = s2
  c1 = c1
  c2 = c2
  c3 = c3
  drawn = drawn
  redrawn = redrawn
  chosen = chosen
  next = next
  other = other
  Empty = Empty
  NoValue = NoValue
  IgnoresUndefined = TRUE
  Servers <- TwoServers
  Calls <- TwoCalls
  Generated <- TwoDrawn
  Chosen <- NothingChosen
  Replacements <- OneReplacement
SPECIFICATION FairSpec
CHECK_DEADLOCK FALSE
INVARIANTS
  ChangeIsKept
  Inductive
PROPERTIES
  EveryStartEnds
  EveryCallEnds
