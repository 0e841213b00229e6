SPECIFICATION Spec
CONSTANTS
  Evaluation = {e1,p1}
  Profile = {p1}
  None = None
  MaxCalls = 3
  MaxFlight = 2
  MaxFiles = 2
INVARIANTS UrlUpToDate
CHECK_DEADLOCK FALSE
