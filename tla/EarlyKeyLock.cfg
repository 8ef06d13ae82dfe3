CONSTANTS
  Books = {b1}
  FirstBook = b1
  Guide = Guide
  None = None
  PageCount = 2
  InputCap = 8
  EventCap = 16
  LibraryCap = 8
  Windows <- WholeShelf
  Users <- EarlyTypist
SPECIFICATION Spec
PROPERTY InputAlwaysUnlocks
CHECK_DEADLOCK FALSE
