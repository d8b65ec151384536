\* The service catalogue: two operations on one service, readers without end.
SPECIFICATION FairSpec
CONSTANTS
  MaxOps = 2
  Visitors = {visitor}
  visitor = visitor
INVARIANT ServedIsPromoted
PROPERTY ListCatchesUp
CHECK_DEADLOCK FALSE
