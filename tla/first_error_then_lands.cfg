SPECIFICATION SenderSpec
CONSTANTS
  Clients = {rpc}
  Nodes = {n1}
  Backends <- GatewayBackends
  K = 1
  TargetRank = 1
  Subscriptions = FALSE
  CloseErrors = FALSE
  GuardModes = {"off"}
  Forks = FALSE
  LastValidBlockHeight = 2
  FinalDepth = 1
  MaxHeight = 4
CHECK_DEADLOCK FALSE
INVARIANT FirstErrorIsFinal
