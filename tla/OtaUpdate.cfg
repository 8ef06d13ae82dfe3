CONSTANTS
  Images = {i1, i2}
  Shelf = {f1}
  Trigger = Trigger
  NoFile = NoFile
  Blank = Blank
  Empty = Empty
  Partial = Partial
  Corrupt = Corrupt
  Missing = Missing
  MaxSeq = 4
  Bootloaders <- BothBootloaders
SPECIFICATION Spec
INVARIANT TypeOK
INVARIANT BootsCompleteImage
INVARIANT AttemptIsRequested
PROPERTY RunningSlotUntouched
PROPERTY EntrySelectsIntended
CHECK_DEADLOCK FALSE
