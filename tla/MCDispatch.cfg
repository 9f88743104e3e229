SPECIFICATION Spec
CONSTANTS
  Keys = {1, 2}
  Requests = {"chat", "stream"}
  Streams = {"stream"}
  Deployments = {"no_kernel", "fail_open", "fail_closed"}
  Concurrency = 2
  Fanout = 0
  Floor = 0
  Capacity = 1
  Threshold = 1
  CooldownBase = 1
  MaxCooldown = 2
  WritesMayFail = TRUE
  MaxConsec = 1
INVARIANTS TypeOK GaugeCountsRequests FailClosedCallsAreGranted
CHECK_DEADLOCK FALSE
