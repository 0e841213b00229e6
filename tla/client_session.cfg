SPECIFICATION PartsSpec
CONSTANTS
  Account = {A, B}
  AdminAccount = {A}
  Nobody = Nobody
  MaxTurns = 3
  Endpoint = {e1, e2}
  NoEndpoint = NoEndpoint
  MaxLogins = 3
  Key = {k1, k2}
  NoRole = NoRole
  MaxFlight = 2
  MaxClicks = 5
  Value = {v1, v2}
  MaxSaves = 2
  ReportFile = {f1, f2}
  StatusFilter = {s1, s2}
  MaxExports = 2
  MaxChanges = 2
  Person = {p1, p2}
  Me = p1
  Info = {i1, i2}
  NoPerson = NoPerson
  MaxEdits = 2
  MaxOpen = 2
  Update = {r1, r2}
  Name = {n1, n2}
  Unset = Unset
  Colleague = {p1, p2, p3}
  MaxMemberSaves = 2
  MaxElsewhere = 1
  Group = {g1}
  NoDialog = NoDialog
  MaxUpdates = 2
  Families <- NistFamilies
  ControlNumbers <- NistNumbers
  MaxListed = 5
  Events <- ScanEvents
INVARIANTS
  TypesOK SessionHonest OneSearch CredentialsAsAsked EditsArrive ReportWhole LastUpdateStays
  OrderNeverMatters
PROPERTIES PagesSettle ListComes
CHECK_DEADLOCK FALSE
