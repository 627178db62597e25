SPECIFICATION FairSpec

CONSTANTS
  Nil = Nil
  k1 = k1
  MessageKeys <- OneKey
  Codes = {"", "rate_limited", "novel"}
  ConfigTimeout = 0
  Limits = {0, 1, 3}
  DefaultLimit = 2
  MaxInt = 3
  MaxSends = 2

INVARIANTS
  TypeOK
  KeyedDeliveredOnce
  SuccessIsEarned
  NothingIsCut
  RequestsStayHome

PROPERTIES
  ReasonSurvives
  Terminates

CHECK_DEADLOCK FALSE
