SPECIFICATION FairSpec
CONSTANTS
  Keys = {1}
  Strategies = {"guardian", "balanced"}
  Concurrencies = {1}
  Rpm <- MCRpm
  Remainings = {0, 1}
  Threshold = 3
  CooldownBase = 1
  MaxCooldown = 3
  Minute = 2
  ReportRpm = 3
  MaxLag = 1
  MaxCalls = 4
  MaxConsec = 6
  DiskFails = TRUE
  FailOpen = TRUE
INVARIANTS TypeOK ServingKeysAreHealthy  PromisedCoolingKept
PROPERTIES OpenKeysGetATrial
CHECK_DEADLOCK FALSE
