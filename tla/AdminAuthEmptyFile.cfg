\* One server, nobody but it touches the file before there is an account.
CONSTANTS
  s1 = s1
  s2 = s2
  c1 = c1
  c2 = c2
  c3 = c3
  drawn = drawn
  redrawn = redrawn
  chosen = chosen
  next = next
  other = other
  Empty = Empty
  NoValue = NoValue
  IgnoresUndefined = TRUE
  Servers <- OneServer
  Calls <- OneCall
  Generated <- OneDrawn
  Chosen <- NothingChosen
  Replacements <- OneReplacement
SPECIFICATION Spec
CHECK_DEADLOCK FALSE
INVARIANTS
  AccountAfterStart
