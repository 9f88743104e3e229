SPECIFICATION FairSpec
CONSTANTS
  Keys = {1}
  Requests = {"chat", "stream"}
  Streams = {"stream"}
  Deployments = {"no_kernel", "fail_open", "fail_closed"}
  Concurrency = 1
  Fanout = 1
  Floor = 0
  Capacity = 1
  Threshold = 2
  CooldownBase = 1
  MaxCooldown = 3
  WritesMayFail = TRUE
  MaxConsec = 3
PROPERTIES RequestsEnd OpenRowsGetATrial
CHECK_DEADLOCK FALSE
