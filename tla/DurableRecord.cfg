CONSTANTS
  Values = {v1, v2, v3}
  NoValue = NoValue
  Unreadable = Unreadable
  HalfGen = 2
  CanDelete = TRUE
  BadReads <- AnyBadRead
SPECIFICATION Spec
INVARIANT TypeOK
INVARIANT SurvivesPowerCut
PROPERTY ImplementsRegister
