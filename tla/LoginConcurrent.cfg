SPECIFICATION Spec
CONSTANTS
  Slots = {s1, s2}
  Ids = {i1, i2, i3}
  NoId = NoId
  Ips = {c1}
  NoIp = NoIp
  Failures = 2
  FailureWindow = 1
  Lockout = 5
  MaxLockout = 3
  BackoffWindow = 4
  StuffingLimit = 2
  FailClosed = TRUE
  Second = 2
  Epoch = 2
  MaxTime = 4
  MaxTries = 2
  MaxTotal = 4
  MaxFaults = 1
INVARIANTS LockIsEarned LockIsBounded StuffingIsDistinct
CONSTRAINT FewKnown
VIEW Concurrent
SYMMETRY Symmetry
