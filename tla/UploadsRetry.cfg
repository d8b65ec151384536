\* A completion whose answer is lost: TLC finds RetryCanSucceed violated.
SPECIFICATION UploadsSpec
CONSTANTS
  MaxAttempts = 3
  NumParts = 2
  MaxRequests = 0
INVARIANT RetryCanSucceed
CHECK_DEADLOCK FALSE
