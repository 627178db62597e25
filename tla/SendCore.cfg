SPECIFICATION RetrySpec

CONSTANTS
  Calls = {c1, c2, c3}
  Symbols <- SomeSymbols
  Channels <- OneChannel
  IdKeys <- OneKey
  Results = {r1}
  Okay = {}
  maxAttempts = 3
  Nil = Nil
  ConfigTTL = 2
  DefaultTTL = 1
  CanReserve = TRUE
  Unreliable = FALSE
  MaxTime = 3

SYMMETRY Symmetry

INVARIANTS
  TypeOK
  OneLiveSender

PROPERTIES
  RefusedOnlyBySender
  OutcomeStands
  SettledKeyLetsNoneThrough
  RetryIsNotItsOwnObstacle
  OneSendPerTTL

CHECK_DEADLOCK FALSE
