SPECIFICATION TwoMessagesSpec

CONSTANTS
  Calls = {c1, c2, c3}
  Symbols <- SomeSymbols
  Channels <- TwoChannels
  IdKeys <- TwoKeys
  Results = {r1}
  Nil = Nil
  ConfigTTL = 2
  DefaultTTL = 1
  CanReserve = FALSE
  Unreliable = FALSE
  MaxTime = 2

SYMMETRY Symmetry

INVARIANTS
  ReplayFaithful

PROPERTIES
  DuplicateLookedEarlier

CHECK_DEADLOCK FALSE
