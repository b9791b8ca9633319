SPECIFICATION Spec
CONSTANTS
  code = code
  alert = alert
  legacy = legacy
  c1 = c1
  c2 = c2
  w1 = w1
  w2 = w2
  Key = {code, alert}
  Caller = {c1, c2}
  Worker = {w1, w2}
  Attempts = 2
  MaxStalled = 1
  KeepCompleted = 0
  KeepFailed = 1
  MessageOf <- TinyQuote
  MaxPublish = 2
  MaxFaults = 2
INVARIANT OnlyCorruptDiscarded
CHECK_DEADLOCK FALSE
