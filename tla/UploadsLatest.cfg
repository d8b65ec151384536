\* Two uploads of one slot: TLC finds LatestPickWins violated.
SPECIFICATION UploadsSpec
CONSTANTS
  MaxAttempts = 3
  NumParts = 1
  MaxRequests = 0
PROPERTY LatestPickWins
CHECK_DEADLOCK FALSE
