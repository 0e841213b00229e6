SPECIFICATION PartsSpec
CONSTANTS
  Evaluation = {e1, p1}
  Profile = {p1}
  None = None
  MaxCalls = 3
  MaxFlight = 2
  MaxFiles = 2
  Group = {g1, g2}
  Mine = {g1, g2}
  NoDialog = NoDialog
  MaxVer = 2
  GroupCalls = 5
  GroupFlight = 2
  Orphan = Orphan
  AnyValue = "any"
  File <- PageFiles
  RowsOf <- ClientRows
  Hierarchy <- NistTree
  Term <- Terms
  Loaded <- ComparedFiles
  ByTime <- ComparedByTime
  ProfileFile = {"profile"}
  Scans <- SmallEvaluations
INVARIANTS
  TypesOK SelectionHonest LoadedOnce UrlCovered ListsRight FiltersShown ExpansionHonest
  ComparisonHonest OverlaysResolved NothingOverstated
CHECK_DEADLOCK FALSE
