SPECIFICATION FairSpec
CONSTANTS
  SmtpQueue = 2
  CacheQueue = 20
  MaxClicks = 3
  OldRows = 1
  MaxIds = 9
  MaxFailures = 2
  Disruptions = {}
  MaxDisruptions = 0
INVARIANTS NothingLost LockedWindowHasOutcome
PROPERTY OutboxDrains
CHECK_DEADLOCK FALSE
