CONSTANTS
  Replicas = {r1}
  Users = {u1}
  Requests = {q1}
  Worker = worker
  MaxKeys = 2
  MaxEnrols = 2
  MaxRestarts = 0
SPECIFICATION Spec
INVARIANTS
  NoSecretUnderRetiredKey
