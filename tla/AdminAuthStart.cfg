\* One server started again and again, cut off anywhere; overlapping logins and changes.
CONSTANTS
  s1 = s1
  s2 = s2
  c1 = c1
  c2 = c2
  c3 = c3
  drawn = drawn
  redrawn = redrawn
  chosen = chosen
  next = next
  other = other
  Empty = Empty
  NoValue = NoValue
  IgnoresUndefined = TRUE
  Servers <- OneServer
  Calls <- ThreeCalls
  Generated <- TwoDrawn
  Chosen <- OneChosen
  Replacements <- OneReplacement
SPECIFICATION FairSpec
CHECK_DEADLOCK FALSE
INVARIANTS
  InitialPasswordOnFile
  AloneInductive
PROPERTIES
  AccountUnlessFileEmpty
  ImplementsAccount
