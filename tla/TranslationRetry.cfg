CONSTANTS
  Visitors = {v1}
  Job = job
  MaxVersions = 1
  Attempts = 2
  MaxFaults = 1
SPECIFICATION QueueSpec
PROPERTIES
  FailedJobIsRetried
CHECK_DEADLOCK FALSE
