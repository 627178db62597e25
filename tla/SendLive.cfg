SPECIFICATION FairSpec

CONSTANTS
  Calls = {c1, c2}
  Symbols <- SomeSymbols
  Channels <- TwoChannels
  IdKeys <- OneKey
  Results = {r1}
  Nil = Nil
  ConfigTTL = 0
  DefaultTTL = 1
  CanReserve = TRUE
  Unreliable = TRUE
  MaxTime = 3

PROPERTIES
  AskerIsAnswered

CHECK_DEADLOCK FALSE
