SPECIFICATION FairSpec
CONSTANTS
  Accounts = {1, 2}
  Boxes = {"inbox"}
  Uids = {1, 2}
  None = None
  MaxClicks = 3
  MaxRefused = 1
  MaxReloads = 1
INVARIANTS TypeOK BodyUnderItsHeader OneFetchAtATime
PROPERTIES SeenIsForItsMessage WantedIsShown KeepsPromise
