SPECIFICATION Spec

CONSTANTS
  Calls = {c1, c2, c3}
  Symbols <- SomeSymbols
  Channels <- OneChannel
  IdKeys <- OneKey
  Results = {r1}
  Nil = Nil
  ConfigTTL = 2
  DefaultTTL = 1
  CanReserve = TRUE
  Unreliable = FALSE
  MaxTime = 3

SYMMETRY Symmetry

PROPERTIES
  SupersededIsReported

CHECK_DEADLOCK FALSE
