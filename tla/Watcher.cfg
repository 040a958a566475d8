SPECIFICATION FairSpec
CONSTANTS
  CmdQueue = 3
  EventQueue = 3
  WakeQueue = 1
  UiQueue = 1
  MaxChanges = 2
  MaxFaults = 1
INVARIANTS TypeOK WatchingIsBaselined OldMailIsNotNew
PROPERTIES NewMailIsAnnounced UnreadSettles
CHECK_DEADLOCK FALSE
