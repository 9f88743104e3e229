SPECIFICATION Spec
CONSTANTS
  Keys = {1}
  Strategies = {"guardian", "balanced"}
  Concurrencies = {1}
  Rpm <- MCRpm
  Remainings = {0, 1}
  Threshold = 2
  CooldownBase = 1
  MaxCooldown = 3
  Minute = 2
  ReportRpm = 3
  MaxLag = 1
  MaxCalls = 2
  MaxConsec = 3
  DiskFails = FALSE
  FailOpen = FALSE
PROPERTIES FailedTrialReopens
CHECK_DEADLOCK FALSE
