SPECIFICATION Spec
CONSTANTS
  Clients = {c1, c2}
  Rules = {r1}
  Valid <- AllTexts
  Operations = {"get", "save"}
  ConfiguredMode = "database"
  Mounted = TRUE
  Reloader = TRUE
  HsModes = {"database", "file"}
  Faults = TRUE
  StoreFails = FALSE
  MaxStarts = 4
  MaxOutside = 1
  MaxRestarts = 0
  MaxSwitches = 1
  NoClient = NoClient
  Unset = Unset
CHECK_DEADLOCK FALSE
SYMMETRY ClientSymmetry
INVARIANT ObservedIsRecorded UiPolicyIsRecorded
PROPERTY AppliedIsRecorded
