SPECIFICATION FairSpec
CONSTANTS
  Clients = {c1, c2}
  Rules = {r1}
  Valid <- AllTexts
  Operations = {"load", "save", "model"}
  ConfiguredMode = "auto"
  Mounted = TRUE
  Reloader = TRUE
  HsModes = {"file"}
  Faults = FALSE
  StoreFails = TRUE
  MaxStarts = 3
  MaxOutside = 0
  MaxRestarts = 0
  MaxSwitches = 0
  NoClient = NoClient
  Unset = Unset
CHECK_DEADLOCK FALSE
INVARIANT ReloadIsOwed
PROPERTY RequestsAreAnswered ServedTakesEffect
