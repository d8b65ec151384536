CONSTANTS
  Replicas = {r1}
  KeyCount = 2
  SensitiveKeys = {2}
  MaxWrites = 1
  MaxCuts = 2
  MaxCrashes = 0
  Attempts = 2
SPECIFICATION ReplicationSpec
INVARIANTS
  ReconciledMeansSettled
