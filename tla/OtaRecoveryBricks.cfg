CONSTANTS
  Images = {i1, i2}
  Shelf = {f1}
  Trigger = Trigger
  NoFile = NoFile
  Blank = Blank
  Empty = Empty
  Partial = Partial
  Corrupt = Corrupt
  Missing = Missing
  MaxSeq = 4
  Bootloaders <- PlainBootloader
SPECIFICATION Spec
INVARIANT RecoveryFindsImage
CHECK_DEADLOCK FALSE
