CONSTANTS
  v1 = v1
  v2 = v2
  r1 = r1
  r2 = r2
  a1 = a1
  Verifier <- OneVerifier
  Resender <- OneResender
  Admin <- OneAdmin
  MaxCode = 2
  AttemptLimit = 1
  HourlyLimit = 1
  RedisMayFail = TRUE
  MayGetOld = TRUE
SPECIFICATION FairSpec
CHECK_DEADLOCK FALSE
INVARIANT ActiveIsProven
PROPERTY StalePendingResolved
