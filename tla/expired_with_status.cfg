SPECIFICATION TrackerSpec
CONSTANTS
  Clients = {gateway}
  Nodes = {n1}
  Backends <- GatewayBackends
  K = 1
  TargetRank = 2
  Subscriptions = FALSE
  CloseErrors = FALSE
  Forks = FALSE
  LastValidBlockHeight = 2
  FinalDepth = 2
  MaxHeight = 4
CHECK_DEADLOCK FALSE
INVARIANT ExpiredHadNoStatus
