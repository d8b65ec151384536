CONSTANTS
  Visitors = {v1, v2}
  Job = job
  MaxVersions = 1
  Attempts = 2
  MaxFaults = 0
SPECIFICATION Spec
PROPERTIES
  OneCallPerText
CHECK_DEADLOCK FALSE
