CONSTANTS
  Workers = {w1}
  BatchSize = 1
  PageSize = 1
  Attempts = 2
  MaxEntries = 3
  MaxTime = 1
  MaxAsks = 2
  MaxFaults = 1
SPECIFICATION Spec
INVARIANT ListShowsItsQuery
CHECK_DEADLOCK FALSE
