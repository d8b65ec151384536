\* Two files of one service at once: TLC finds VersionsDiffer violated.
SPECIFICATION Spec
CONSTANTS
  MaxOps = 2
  Visitors = {visitor}
  visitor = visitor
INVARIANT VersionsDiffer
CHECK_DEADLOCK FALSE
