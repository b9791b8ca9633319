CONSTANTS
  l1 = l1
  l2 = l2
  l3 = l3
  Login <- TwoLogins
  MaxActive = 1
  SessionLife = 1
  MaxClock = 0
  MaxChanges = 1
  MaxRequests = 1
  MaxRefreshes = 1
  MaxSockets = 1
  FirstAlgo = {"argon2id"}
SPECIFICATION SocketSpec
CHECK_DEADLOCK FALSE
INVARIANT RevokedIsRejected
