SPECIFICATION Spec
CONSTANTS
  Tabs = {t1, t2}
  Records = {r1}
  Valid <- OneValue
  Missing = Missing
  Broken = Broken
  Faults = FALSE
  MaxEdits = 2
  MaxSaves = 2
  MaxOutside = 0
  MaxRestarts = 0
  NoTab = NoTab
  NoAnswer = NoAnswer
CHECK_DEADLOCK FALSE
PROPERTY DraftReplacesItsBase
