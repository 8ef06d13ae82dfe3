CONSTANTS
  Views = {v1, v2}
  Pages = {p1, p2}
  White = White
  SleepImage = SleepImage
  Ghost = Ghost
  None = None
  Interval = 2
  Controllers <- Both
  MaxFaults = 1
SPECIFICATION Spec
SYMMETRY Same
INVARIANT TypeOK
INVARIANT FastBase
INVARIANT BeliefIsTrue
INVARIANT ProtocolKept
PROPERTY GhostingBounded
