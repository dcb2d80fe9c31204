\* Every configuration of four values from two sources, edited between starts; starts end.
CONSTANTS
  empty = empty
  number = number
  phrase = phrase
  EnvTexts <- EveryText
  TomlTexts <- SomeTexts
  Empty = empty
  LongEnough <- LongTexts
  PortNumbers <- PortTexts
  DefaultPort = DefaultPort
  NoValue = NoValue
SPECIFICATION FairSpec
CHECK_DEADLOCK FALSE
INVARIANTS
  ConfiguredBeforeUse
  Inductive
  RefusedOnlyIfMisconfigured
PROPERTIES
  EveryStartEnds
