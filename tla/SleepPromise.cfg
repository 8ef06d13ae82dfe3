CONSTANTS
  Books = {b1, b2}
  FirstBook = b1
  Guide = Guide
  None = None
  PageCount = 2
  InputCap = 8
  EventCap = 16
  LibraryCap = 8
  Windows <- WholeShelf
  Users <- SleeperOnly
SPECIFICATION Spec
INVARIANT SleepIsSafe
CHECK_DEADLOCK FALSE
