CONSTANTS
  FailureThreshold = 3
  RecoveryThreshold = 3
  PingBounded = TRUE
  PersistentConnection = TRUE
  MaxRestarts = 2
SPECIFICATION FairSpec
INVARIANTS CountersAreStreak
PROPERTIES FlipsNeedARun OutageDetected RecoveryDetected Debounced
