SPECIFICATION MCSpec
CONSTANTS
  Callers = {"session", "worker"}
  NoCaller = "none"
  MaxSignIns = 2
  MaxTokens = 2
  MaxClock = 3
  MaxTroubles = 1
  Ids = {a, b}
  MaxWorks = 2
  MaxUpsets = 1
  MaxTyping = 5
  MaxLaunches = 3
  MaxPokes = 1
  MaxListeners = 3
  MaxPeers = 1
  Clients = {"c", "d"}
  NotifyCap = 1
  MaxMail = 3
  MaxCopies = 2
  MaxSteps = 6
SYMMETRY Symmetry
INVARIANTS SignInSound AccountsSound InstanceIsOne ServerSound
PROPERTIES UidsAreForever
CHECK_DEADLOCK FALSE
