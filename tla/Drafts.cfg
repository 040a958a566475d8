SPECIFICATION MCSpec
CONSTANTS
  CacheQueue = 3
  OldDrafts = 1
  MaxClicks = 6
  MaxIds = 2
  Disruptions = {"reload", "crash", "dberror"}
  MaxDisruptions = 1
  MAX_SUGGESTIONS = 2
  MaxStrokes = 4
  MaxPicks = 1
INVARIANTS TypeOK DraftRowIsOwn SavedTextKept ComposeKeeps
PROPERTIES ClosedIsForgotten
CHECK_DEADLOCK FALSE
