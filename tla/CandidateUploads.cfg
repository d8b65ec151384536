\* A candidate's uploads: three attempts over two parts, one request.
SPECIFICATION UploadsSpec
CONSTANTS
  MaxAttempts = 3
  NumParts = 2
  MaxRequests = 1
INVARIANT WholeFile
CHECK_DEADLOCK FALSE
