CONSTANTS
  Users = {"alice@", "bob@"}
  Groups = {"group:ops", "group:dev"}
  Tags = {"tag:web"}
  Hosts = {"db"}
  RoutePrefixes = {"net"}
  Labels = {"label"}
  NoLabel = "none"
  FirstText <- SmallText
  OtherTexts <- SmallOthers
  Bodies <- SmallBodies
  Members <- SmallMembers
  EditFaults = FALSE
  MaxEdits = 2
  MaxOpened = 1
  MaxSends = 1
  MaxOthers = 1
SPECIFICATION EditorSpec
CHECK_DEADLOCK FALSE
INVARIANT EditorTypeOK SavedIsShown
PROPERTY EditsOneRule RenameMovesReferences SavesWhatWasReviewed RebaseMergesEntries RebaseMergesRules RebaseMergesElements
