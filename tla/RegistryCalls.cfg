SPECIFICATION CallsSpec

CONSTANTS
  email = email
  sms = sms
  p1 = p1
  p2 = p2
  Channels = {email, sms}
  Providers = {p1, p2}
  Valid = {p1}
  ChannelOf <- OneEach
  Nil = Nil
  Calls = {c1, c2, c3}
  Names = {smtp}

INVARIANTS
  MapsAreGuarded

PROPERTIES
  ListsAreExact
  LockIsGranted

CHECK_DEADLOCK FALSE
