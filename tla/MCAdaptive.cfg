SPECIFICATION AdaptiveSpec
CONSTANTS
  PilotKeys = {1, 2}
  Measurements = {0, 4, 400, 1000}
  FailureRuns = {0, 3}
  Inflights = {0, 5, 30}
  Demands = {20, 200}
  Asked = {0, 9}
  DefaultAtStart = 2
  MaxAtStart = 4
  LimitsLater <- MCLimits
  MaxTicks = 3
INVARIANT LowRatesBackOff
CHECK_DEADLOCK FALSE
