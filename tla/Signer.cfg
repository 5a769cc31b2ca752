SPECIFICATION Spec
CONSTANTS
  Nonces = {n1, n2}
  NoNonce = NoNonce
  Params = {p1, p2}
  Workers = {w1, w2}
  Configs <- MCConfigs
  MaxSkew = 2
  DefaultMaxSkew = 3
  Second = 2
  ClockAhead = 1
  ClockBehind = 1
  MaxStall = 1
  MaxFaults = 1
  MaxCount = 1
  Epoch = 3
  MaxTime = 8
INVARIANTS NoReplay PassIsGenuine ReplayMeansUsed
SYMMETRY Symmetry
