CONSTANTS
  Books = {b1}
  Buffers = {u1, u2}
  NoBuffer = NoBuffer
  ChunkCap = 2
  ReturnCap = 2
  MaxSize = 3
  MaxRequests = 2
  Setups <- AnySetup
SPECIFICATION Spec
INVARIANT TypeOK
INVARIANT BuffersConserved
INVARIANT StreamIsDrained
INVARIANT HalfBooksAreOpen
INVARIANT ResetIsSafe
PROPERTY AnswerIsTrue
PROPERTY SessionIsLeft
PROPERTY RequestAnswered
CHECK_DEADLOCK FALSE
