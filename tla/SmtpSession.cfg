SPECIFICATION RetrySpec

CONSTANTS
  Nil = Nil
  MaxRetries = 2

INVARIANTS
  SuccessMeansAccepted
  NothingInPlaintext
  NothingLeaks
  TwiceOnlyAfterTimeout

PROPERTIES
  TimeoutIsReal
  ContextEndsSend
  Terminates

CHECK_DEADLOCK FALSE
