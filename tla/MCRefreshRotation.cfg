CONSTANTS
  r1 = r1
  r2 = r2
  r3 = r3
  root = root
  none = none
  Request <- ThreeRequests
  Root <- root
  None <- none
  LockCanExpire = TRUE
  GraceCanExpire = TRUE
  CanFail = TRUE
SPECIFICATION FairSpec
CHECK_DEADLOCK FALSE
INVARIANT TypeOK
INVARIANT AnswersSound
INVARIANT GraceWindowSound
PROPERTY Answered
PROPERTY ImplementsLineage
