SPECIFICATION Spec
CONSTANTS
  Clients = {c1, c2}
  Rules = {r1}
  Valid <- AllTexts
  Operations = {"load", "save", "model"}
  ConfiguredMode = "auto"
  Mounted = FALSE
  Reloader = FALSE
  HsModes = {"database", "file"}
  Faults = TRUE
  StoreFails = FALSE
  MaxStarts = 3
  MaxOutside = 0
  MaxRestarts = 1
  MaxSwitches = 0
  NoClient = NoClient
  Unset = Unset
CHECK_DEADLOCK FALSE
SYMMETRY ClientSymmetry
INVARIANT TypeOK LearnedModePersists
PROPERTY NoLostStructuredUpdate
