SPECIFICATION FairBridgeSpec
CONSTANTS
  Clients = {rpc}
  Nodes = {n1, n2}
  Backends <- GatewayBackends
  K = 1
  TargetRank = 2
  Subscriptions = FALSE
  CloseErrors = FALSE
  GuardModes = {"off", "warn", "throw"}
  Forks = FALSE
  LastValidBlockHeight = 2
  FinalDepth = 1
  MaxHeight = 4
  MaxBundlePolls = 2
CHECK_DEADLOCK FALSE
INVARIANTS BridgeTypeOK WrongClusterNeverSent EventsAreTrue EventsEndOnce JitoRouteHasLanded
PROPERTIES BridgeKeepsPromise BridgeSettles
