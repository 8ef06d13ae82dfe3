CONSTANTS
  n1 = n1
  n2 = n2
  None = None
  Networks <- TwoNetworks
  SyncCap = 2
  EventCap = 4
  StorageCap = 1
  MaxKeys = 6
  MaxSaves = 2
  MaxFaults = 1
  MaxCuts = 1
SPECIFICATION Spec
INVARIANT TypeOK
INVARIANT ScratchHasOneOwner
INVARIANT SessionIsWatched
INVARIANT SavedIsStored
INVARIANT ScreenKnowsNetwork
PROPERTY ExitResets
PROPERTY KeysReturn
CHECK_DEADLOCK FALSE
