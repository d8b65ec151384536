CONSTANTS
  Workers = {w1}
  BatchSize = 1
  PageSize = 1
  Attempts = 1
  MaxEntries = 3
  MaxTime = 3
  MaxAsks = 2
  MaxFaults = 1
SPECIFICATION FairSpec
INVARIANTS
  EntryInOneTable
  NoEntryBetweenIsMissing
PROPERTIES
  ExpiredGetsArchived
CHECK_DEADLOCK FALSE
