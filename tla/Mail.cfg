SPECIFICATION MCSpec
CONSTANTS
  Accounts = {a, b}
  NoOne = NoOne
  ActorQueue = 3
  MaxOps = 2
  MaxMishaps = 1
  MaxUid = 2
  DbQueue = 2
  BodyCap = 1
  MaxEvents = 4
  MaxBreaks = 1
  MaxLists = 2
  MaxFolds = 1
  CommandQueue = 2
  MaxQueries = 2
  MaxMoves = 2
  RowHeight = 2
  Viewport = 3
  MaxRows = 4
  MaxMessages = 5
  MaxInputs = 4
  Documents <- MCDocuments
  Senders = {"list"}
  FirstPage = "notice"
  MaxLoads = 3
  MaxInputs_ = 1
  MaxFontKeys = 0
INVARIANTS CoreIsCurrent CacheAgrees ListsAreCurrent ViewIsCurrent
PROPERTIES UserKeepsHold
CHECK_DEADLOCK FALSE
