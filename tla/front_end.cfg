SPECIFICATION FairFrontSpec
CONSTANTS
  b1 = b1
  b2 = b2
  Callers = {s1, s2, s3, b1, b2}
  Batch <- BatchOfTwo
  MaxSends = 3
  Nobody = Nobody
CHECK_DEADLOCK FALSE
INVARIANTS FrontTypeOK LookupsShared StatusIsLastSettled BatchSendsPrefix
PROPERTY SendsSettle
