CONSTANTS
  novel = novel
  note = note
  Books <- BothBooks
  Sizes = {1, 2}
  Spacings = {1, 2}
  Lines <- LinesOf
  Rows <- RowsOf
  Layouts <- ThreeLayouts
  Places = {0,3}
  Arena = 4
  MaxSections = 3
  None = None
  Blank = Blank
  TocBytes = TocBytes
  Absent = Absent
  Torn = Torn
  MaxMishaps = 1
SPECIFICATION Spec
INVARIANT TypeOK
INVARIANT PageIsTrue
INVARIANT MapIsTheBooks
PROPERTY JumpLands
