CONSTANTS
  Users = {"alice@", "bob@"}
  Groups = {"group:ops", "group:dev"}
  Tags = {"tag:web"}
  Hosts = {"db"}
  RoutePrefixes = {"net"}
  Labels = {"label"}
  NoLabel = "none"
  FirstText <- SmallText
  OtherTexts <- SmallOthers
  Bodies <- SmallBodies
  Members <- SmallMembers
  EditFaults = TRUE
  MaxEdits = 1
  MaxOpened = 0
  MaxSends = 1
  MaxOthers = 1
  RawTexts = {"x", "y", "bad"}
  RawValid = {"x", "y"}
  RawFirst = "x"
  RawFaults = TRUE
  RawMaxTyped = 2
  RawMaxSaves = 1
  RawMaxOthers = 2
  NdTabs = {"t1"}
  NdSubnets = {"r1"}
  NdTagSets = {"none"}
  NdNames = {"n"}
  NdNoTags = "none"
  NdName = "n"
  NdFaults = TRUE
  NdMaxCalls = 1
  NdMaxOutside = 1
  SesTabs = {"t1", "t2"}
  SesFaults = TRUE
  SesMaxLogins = 2
  HmTabs = {"t1", "t2"}
  HmFaults = TRUE
  HmMaxChanges = 1
  HmMaxFaults = 1
  RfTargets = {"a", "b"}
  RfPorts = {"22", "443"}
  RfProtocols = {"tcp", "icmp"}
  RfPortless = {"icmp"}
  RfRules <- SmallRules
  PtNull = PtNull
  PtRules <- RuleNames
  PtNames <- EntryNames
  PtOwners <- Owners
  KpKeys = {"k1", "k2"}
  KpText = ""
  KpFaults = TRUE
  KpMaxCalls = 2
  KpMaxOutside = 2
  PtCases <- SmallCases
SPECIFICATION PanelSpec
CHECK_DEADLOCK FALSE
INVARIANT EndedSessionsStayEnded PatchGivesRequest UntouchedStays
PROPERTY EditorCatchesUp RawFollows TabsLeave BannersSettle RoutesAsConfirmed OwnChangesStayShown FormKeepsAccess LockoutIsConfirmed
