SPECIFICATION Spec
CONSTANTS
  Keys = {1, 2}
  Strategies = {"guardian", "balanced"}
  Concurrencies = {2}
  Rpm <- MCRpm
  Remainings = {0}
  Threshold = 2
  CooldownBase = 1
  MaxCooldown = 2
  Minute = 1
  ReportRpm = 2
  MaxLag = 1
  MaxCalls = 2
  MaxConsec = 3
  DiskFails = TRUE
  FailOpen = FALSE
PROPERTIES NoCallWhileCooling OnlyCallsArePaid OneTrialPerRound 
CHECK_DEADLOCK FALSE
