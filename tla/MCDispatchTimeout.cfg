SPECIFICATION Spec
CONSTANTS
  Keys = {1}
  Requests = {"chat"}
  Streams = {}
  Deployments = {"no_kernel"}
  Concurrency = 1
  Fanout = 0
  Floor = 0
  Capacity = 1
  Threshold = 1
  CooldownBase = 1
  MaxCooldown = 2
  WritesMayFail = FALSE
  MaxConsec = 2
INVARIANTS FailuresOpenTheKey
CHECK_DEADLOCK FALSE
