CONSTANTS
  v1 = v1
  v2 = v2
  r1 = r1
  r2 = r2
  a1 = a1
  Verifier <- TwoVerifiers
  Resender <- TwoResenders
  Admin <- NoOne
  MaxCode = 3
  AttemptLimit = 2
  HourlyLimit = 1
  RedisMayFail = FALSE
  MayGetOld = FALSE
SPECIFICATION Spec
CHECK_DEADLOCK FALSE
SYMMETRY RequestSymmetry
INVARIANT TypeOK
INVARIANT CodesSound
