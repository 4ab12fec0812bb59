SPECIFICATION FairTrackerSpec
CONSTANTS
  Clients = {n1, n2}
  Nodes = {n1, n2}
  Backends <- OwnBackend
  K = 1
  TargetRank = 1
  Subscriptions = TRUE
  CloseErrors = TRUE
  Forks = TRUE
  LastValidBlockHeight = 2
  FinalDepth = 1
  MaxHeight = 4
CHECK_DEADLOCK FALSE
INVARIANTS TrackerTypeOK ConfirmedIsTrue ExpiryOnlyFromPollLoop
PROPERTIES NoStatusPollAfterNotification NotifiedPollLoopConcludesNothing TrackSettles
