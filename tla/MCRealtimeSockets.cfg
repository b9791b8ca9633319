CONSTANTS
  l1 = l1
  l2 = l2
  l3 = l3
  Login <- TwoLogins
  MaxActive = 1
  SessionLife = 2
  MaxClock = 2
  MaxChanges = 1
  MaxRequests = 1
  MaxRefreshes = 1
  MaxSockets = 1
  FirstAlgo = {"bcrypt"}
SPECIFICATION SocketSpec
CHECK_DEADLOCK FALSE
SYMMETRY LoginSymmetry
INVARIANT SocketTypeOK
INVARIANT SessionsFollowAccount
INVARIANT SocketsEndWithSession
PROPERTY LateWritesContained
PROPERTY EvictionSound
