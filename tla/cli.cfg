SPECIFICATION CliSpec
CONSTANTS
  a = a
  b = b
  Configured <- TwoUrls
  MaxSlotLag = 1
  FailureThreshold = 2
  MaxSlot = 3
  MaxTargets = 4
  RpcErrors <- SomeErrors
CHECK_DEADLOCK FALSE
INVARIANTS ExitCodeIsTrue FreshestIsFresh
