SPECIFICATION FairSpec
CONSTANTS
  PageSize = 2
  OldUids = 6
  None = None
  MaxClicks = 0
  MaxFaults = 0
  MaxArrived = 1
  MaxExpunged = 1
  MaxDisturbed = 1
INVARIANTS CompleteListsAll
PROPERTIES ScrollBringsRows
CHECK_DEADLOCK FALSE
