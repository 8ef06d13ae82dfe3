CONSTANTS
  Books = {b1, b2}
  FirstBook = b1
  Guide = Guide
  None = None
  PageCount = 2
  InputCap = 8
  EventCap = 2
  LibraryCap = 2
  Windows <- WholeShelf
  Users <- SafetyUsers
SPECIFICATION Spec
INVARIANT TypeOK
INVARIANT AnswersOwed
INVARIANT TurnedKept
INVARIANT ReadingLoaded
CHECK_DEADLOCK FALSE
