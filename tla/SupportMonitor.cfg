CONSTANTS
  FailureThreshold = 3
  RecoveryThreshold = 3
  PingBounded = FALSE
  PersistentConnection = FALSE
  MaxRestarts = 2
SPECIFICATION FairSpec
PROPERTIES OutageDetected
