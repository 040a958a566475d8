SPECIFICATION Spec
CONSTANTS
  SmtpQueue = 2
  CacheQueue = 2
  MaxClicks = 3
  OldRows = 1
  MaxIds = 4
  MaxFailures = 2
  Disruptions = {"reload", "crash", "dberror"}
  MaxDisruptions = 1
INVARIANTS TypeOK RowHasOneSender PendingRowIsUnclaimed
PROPERTY RowStaysUntilDone
CHECK_DEADLOCK FALSE
