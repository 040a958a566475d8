SPECIFICATION FairSpec
CONSTANTS
  Accounts = {1}
  Boxes = {"inbox", "sent"}
  Uids = {1, 2}
  None = None
  MaxClicks = 3
  MaxRefused = 0
  MaxReloads = 0
PROPERTIES WantedIsShown
