SPECIFICATION Spec

CONSTANTS
  Calls = {c1}
  c1 = c1
  c2 = c2
  Channels = {email}
  Providers = {p1, p2}
  Nil = Nil
  p1 = p1
  p2 = p2
  email = email
  ChannelOf <- TwoProviders
  Valid = {p1, p2}
  MaxRetries <- ThreeRetries
  RetryDelay = 2
  MaxRetryDelay = 50
  BackoffMultiplier = 2
  RetryableReasons = {"provider_down"}

PROPERTIES
  BackoffIsExponential

CHECK_DEADLOCK FALSE
