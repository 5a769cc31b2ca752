SPECIFICATION TrackerSpec
CONSTANTS
  V4Size = 3
  V6Size = 5
  v6Shift = 2
  defaultSubnetBits = 2
  Slots = {s1, s2}
  Users = {u1}
  NoUser = NoUser
  Addresses <- MCAddresses
  Requests <- MCRequests
  Settings <- MCSettings
  KnownNets = 2
  KnownNetTTL = 2
  Epoch = 1
  MaxTime = 4
  MaxFaults = 1
  Tokens = {t1}
  NoToken = NoToken
  Clients <- MCClients
  None = None
  NetworkOf <- MCNetworkOf
  CountryOf <- MCCountryOf
  TTL = 2
  FailClosedModes = {TRUE, FALSE}
INVARIANTS
  NetsInvariant PlaceIsPrefix PassMatchesIssue SlidesByTTL FailClosedHolds
PROPERTIES
  NoStrangerSlips FamiliarStaysQuiet DeadStaysDead
SYMMETRY Symmetry
CONSTRAINT OneOfEach
VIEW ButRevoked
