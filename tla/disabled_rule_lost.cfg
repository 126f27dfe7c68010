SPECIFICATION Spec
CONSTANTS
  Clients = {c1}
  Rules = {r1}
  Valid <- AtMostOneRule
  Operations = {"load", "model"}
  ConfiguredMode = "auto"
  Mounted = TRUE
  Reloader = TRUE
  HsModes = {"file"}
  Faults = TRUE
  StoreFails = FALSE
  MaxStarts = 2
  MaxOutside = 0
  MaxRestarts = 0
  MaxSwitches = 0
  NoClient = NoClient
  Unset = Unset
CHECK_DEADLOCK FALSE
PROPERTY RulesAreKept
