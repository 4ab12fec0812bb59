SPECIFICATION FairPoolSpec
CONSTANTS
  a = a
  b = b
  Configured <- TwoEndpoints
  Cost <- OneMethod
  Requests = {r1, r2}
  MaxAttempts = 2
  MaxSlotLag = 0
  FailureThreshold = 2
  MaxSlot = 2
  CreditsPerWindow = 3
  Window = 1
INVARIANTS PoolTypeOK FailsOnlyAfterAll ToldOfEjection
PROPERTIES RequestsSettle EjectionEnds
