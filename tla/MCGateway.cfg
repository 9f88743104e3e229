SPECIFICATION MCSpec
CONSTANTS
  Writers = {1}
  LinesEach = 3
  QueueSize = 2
  BatchSize = 2
  PageSize = 1
  Retention = 0
  LastDay = 1
  Makers = {1, 2}
  Keep = 1
  LastSecond = 2
  Admins = {1, 2}
  Environments <- MCEnvironments
  Patches <- MCPatches
  Presets <- MCPresets
  DefaultPreset = "balanced"
  PilotKeys = {1, 2}
  Measurements = {0, 4, 400, 1000}
  FailureRuns = {0, 3}
  Inflights = {0, 5, 30}
  Demands = {20, 200}
  Asked = {0, 9}
  DefaultAtStart = 2
  MaxAtStart = 4
  LimitsLater <- MCLimits
  MaxTicks = 2
  Operators = {1, 2}
  MaxBatch = 1
  MaxSuggestions = 1
  Models = {"big", "small"}
  Syncers = {"ticker", "admin"}
  Breakable = {"big"}
  ClientRequests <- MCRequests
  Aliases <- MCAliases
  ChatModels = {"a", "b"}
  Probers = {1, 2}
  MaxProbes = 4
  Values = {"k1", "k2"}
  Imports <- MCImports
  Overrides = {0, 10}
  DefaultRPM = 40
  TestKey = "k1"
  LastKeyId = 4
  Tools = {"set"}
  Answers <- MCAnswers
  MaxSteps = 3
INVARIANTS
  TypesOK RowsFollowTheCallers CloseFlushes PagesShowEachLineOnce NewestAreKept
  ConfigurationIsUsable SavedIsReloaded
  RefusalsAreFounded ForwardedModelsWereOpen ConversationSurvives
  RowIsNewestUnlessOvertaken BucketsAreTheirOwn TranscriptIsWellFormed
PROPERTIES TakenLinesAreWritten SuggestionsAreSettledOnce
CHECK_DEADLOCK FALSE
