SPECIFICATION Spec
CONSTANTS
  PageSize = 1
  OldUids = 2
  None = None
  MaxClicks = 2
  MaxFaults = 1
  MaxArrived = 1
  MaxExpunged = 1
  MaxDisturbed = 2
INVARIANTS TypeOK NewestFirst SelectionFollowsMessages PendingIsOutstanding
PROPERTIES OwnReplyDropsOnlyGone
CHECK_DEADLOCK FALSE
