SPECIFICATION Spec
CONSTANTS
  Clients = {c1, c2}
  Rules = {r1}
  Valid <- AtMostOneRule
  Operations = {"load", "model"}
  ConfiguredMode = "auto"
  Mounted = FALSE
  Reloader = FALSE
  HsModes = {"database"}
  Faults = FALSE
  StoreFails = FALSE
  MaxStarts = 4
  MaxOutside = 0
  MaxRestarts = 0
  MaxSwitches = 0
  NoClient = NoClient
  Unset = Unset
CHECK_DEADLOCK FALSE
PROPERTY TableIsWhatTheUserLoaded
