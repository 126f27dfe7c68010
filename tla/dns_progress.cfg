SPECIFICATION FairSpec
CONSTANTS
  Tabs = {t1, t2}
  Records = {r1}
  Valid <- OneValue
  Missing = Missing
  Broken = Broken
  Faults = TRUE
  MaxEdits = 2
  MaxSaves = 2
  MaxOutside = 0
  MaxRestarts = 1
  NoTab = NoTab
  NoAnswer = NoAnswer
CHECK_DEADLOCK FALSE
PROPERTY TabsCatchUp SavesAreAnswered
