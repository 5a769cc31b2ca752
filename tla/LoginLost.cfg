SPECIFICATION Spec
CONSTANTS
  Slots = {s1, s2}
  Ids = {i1}
  NoId = NoId
  Ips = {c1}
  NoIp = NoIp
  Failures = 2
  FailureWindow = 2
  Lockout = 2
  MaxLockout = 3
  BackoffWindow = 4
  StuffingLimit = 1
  FailClosed = FALSE
  Second = 1
  Epoch = 2
  MaxTime = 4
  MaxTries = 2
  MaxTotal = 2
  MaxFaults = 0
INVARIANTS FailuresLock
CONSTRAINT FewFailures
SYMMETRY Symmetry
