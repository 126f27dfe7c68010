SPECIFICATION Spec
CONSTANTS
  Tabs = {t1, t2}
  Records = {r1, r2}
  Valid <- OneValue
  Missing = Missing
  Broken = Broken
  Faults = TRUE
  MaxEdits = 2
  MaxSaves = 2
  MaxOutside = 1
  MaxRestarts = 1
  NoTab = NoTab
  NoAnswer = NoAnswer
CHECK_DEADLOCK FALSE
INVARIANT TypeOK OwnFileIsRecorded
PROPERTY NoUnseenOverwrite
SYMMETRY Symmetry
