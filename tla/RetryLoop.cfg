SPECIFICATION FairSpec

CONSTANTS
  Calls = {c1, c2}
  c1 = c1
  c2 = c2
  Channels = {email}
  Providers = {p1, p2}
  Nil = Nil
  p1 = p1
  p2 = p2
  email = email
  ChannelOf <- TwoProviders
  Valid = {p1, p2}
  MaxRetries <- OneRetries
  RetryDelay = 2
  MaxRetryDelay = 9
  BackoffMultiplier = 2
  RetryableReasons = {"provider_down", "not_registered"}

INVARIANTS
  TypeOK
  VerdictStands
  NeverGivesUpEarly
  FreshProvider

PROPERTIES
  BackoffNeverShrinks
  Terminates

CHECK_DEADLOCK FALSE
