SPECIFICATION Spec
CONSTANTS
  Slots = {s1}
  Ids = {i1, i2}
  NoId = NoId
  Ips = {c1}
  NoIp = NoIp
  Failures = 2
  FailureWindow = 2
  Lockout = 2
  MaxLockout = 7
  BackoffWindow = 5
  StuffingLimit = 1
  FailClosed = FALSE
  Second = 2
  Epoch = 2
  MaxTime = 6
  MaxTries = 3
  MaxTotal = 5
  MaxFaults = 1
INVARIANTS FailuresLock
PROPERTIES LockIsFixed EscalationHolds StuffingSticks
CONSTRAINT FewFailures
SYMMETRY Symmetry
