SPECIFICATION Spec

CONSTANTS
  Calls = {c1, c2}
  Symbols <- SomeSymbols
  Channels <- OneChannel
  IdKeys <- OneKey
  Results = {r1}
  Nil = Nil
  ConfigTTL = 2
  DefaultTTL = 1
  CanReserve = TRUE
  Unreliable = FALSE
  MaxTime = 2

SYMMETRY Symmetry

INVARIANTS
  RetriesSeeTheSameAnswer

CHECK_DEADLOCK FALSE
