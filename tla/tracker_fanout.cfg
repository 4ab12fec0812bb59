SPECIFICATION FairDiagSpec
CONSTANTS
  Clients = {gateway, n2}
  Nodes = {n1, n2}
  Backends <- OneGateway
  K = 2
  TargetRank = 2
  Subscriptions = FALSE
  CloseErrors = FALSE
  Forks = FALSE
  LastValidBlockHeight = 2
  FinalDepth = 1
  MaxHeight = 4
CHECK_DEADLOCK FALSE
INVARIANTS ConfirmedIsTrue FailedIsTrue ExpiredMissesOnlyUnseenBlocks DisagreementHasCause
PROPERTIES ExpiredIsFinal DiagnosedExpiryIsFinal KeepsPromise
