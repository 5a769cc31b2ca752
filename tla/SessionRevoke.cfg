SPECIFICATION Spec
CONSTANTS
  Slots = {w1, w2}
  Tokens = {t1}
  NoToken = NoToken
  Clients <- MCClients
  None = None
  NetworkOf <- MCNetworkOf
  CountryOf <- MCCountryOf
  TTL = 2
  FailClosedModes = {TRUE, FALSE}
  Epoch = 1
  MaxTime = 4
  MaxFaults = 0
INVARIANTS RevokeEndsSession
SYMMETRY Symmetry
