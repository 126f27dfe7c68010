SPECIFICATION Spec
CONSTANTS
  Clients = {c1, c2}
  Rules = {r1, r2}
  Valid <- AtMostOneRule
  Operations = {"load", "model"}
  ConfiguredMode = "database"
  Mounted = TRUE
  Reloader = TRUE
  HsModes = {"database", "file"}
  Faults = FALSE
  StoreFails = FALSE
  MaxStarts = 4
  MaxOutside = 0
  MaxRestarts = 0
  MaxSwitches = 0
  NoClient = NoClient
  Unset = Unset
CHECK_DEADLOCK FALSE
SYMMETRY Symmetry
INVARIANT FileStaysLoadable
PROPERTY StructuredSavesAreAtomic RulesAreKept
