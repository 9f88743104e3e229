SPECIFICATION FairSpec
CONSTANTS
  Requests = {"reserve1", "reserve2", "report1", "put1", "get1"}
  Kind <- MixedKind
  Choice <- MixedChoice
  Default = "balanced"
  Tokens = 1
INVARIANTS SomeHandlerGoesOn EveryCallIsPaid RowsFollowMemory
PROPERTIES EveryRequestIsAnswered
CHECK_DEADLOCK FALSE
