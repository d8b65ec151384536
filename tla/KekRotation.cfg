CONSTANTS
  Replicas = {r1, r2}
  Users = {u1}
  Requests = {q1}
  Worker = worker
  MaxKeys = 2
  MaxEnrols = 1
  MaxRestarts = 1
SPECIFICATION FairSpec
INVARIANTS
  OneActiveTheNewest
  SealerCanOpen
  LiveKeysKept
PROPERTIES
  RotationFinishes
