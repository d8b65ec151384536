CONSTANTS
  Visitors = {v1, v2}
  Job = job
  MaxVersions = 2
  Attempts = 2
  MaxFaults = 1
SPECIFICATION VisitedSpec
INVARIANTS
  RowMatchesItsHash
  EachExpiryAdmitsOne
PROPERTIES
  SettlesOnLatest
CHECK_DEADLOCK FALSE
