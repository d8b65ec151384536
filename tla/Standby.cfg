CONSTANTS
  Replicas = {r1}
  KeyCount = 2
  SensitiveKeys = {2}
  MaxWrites = 1
  MaxCuts = 2
  MaxCrashes = 1
  Attempts = 2
SPECIFICATION ReplicationFairSpec
INVARIANTS
  ReplicationTypeOK
  ReplaysComeFromStandby
  DeletesOnlyVanishedRows
PROPERTIES
  StandbyConverges
