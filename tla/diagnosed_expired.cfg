SPECIFICATION DiagSpec
CONSTANTS
  Clients = {gateway}
  Nodes = {n1}
  Backends <- OneGateway
  K = 1
  TargetRank = 2
  Subscriptions = FALSE
  CloseErrors = FALSE
  Forks = FALSE
  LastValidBlockHeight = 2
  FinalDepth = 1
  MaxHeight = 4
CHECK_DEADLOCK FALSE
INVARIANT DiagnosedExpiredHadNotLanded
