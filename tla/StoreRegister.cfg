SPECIFICATION PartsSpec

CONSTANTS
  Keys = {k1}
  Calls = {c1, c2, c3}
  Results = {r1, r2}
  Nil = Nil
  TTLs <- OddTTLs
  MaxTime = 2
  Users = {u1, u2}
  Absent = Absent
  Symbols <- SomeSymbols
  Names <- SomeNames
  Templates <- SomeTemplates
  Texts <- SomeTexts
  Delimiters <- SomeDelimiters

SYMMETRY Symmetry

INVARIANTS
  ClaimsAreOwned
  SharingTypeOK
  CopiesArePrivate
  KeptStands
  LabelStands
  OrderDoesNotShow

PROPERTIES
  ImplementsRegister

CHECK_DEADLOCK FALSE
