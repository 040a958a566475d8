SPECIFICATION FairSpec
CONSTANTS
  SmtpQueue = 2
  CacheQueue = 20
  MaxClicks = 0
  OldRows = 1
  MaxIds = 9
  MaxFailures = 1
  Disruptions = {"reload"}
  MaxDisruptions = 1
PROPERTY OutboxDrains
CHECK_DEADLOCK FALSE
