SPECIFICATION ScansSpec
CONSTANTS
  Slots = {s1, s2}
  Ips = {i1, i2}
  Threshold = 2
  Window = 2
  BanDuration = 3
  Epoch = 3
  MaxTime = 7
  MaxCount = 3
  MaxFaults = 1
  Inputs <- MCInputs
  Others <- MCOthers
  MaxResults = 1
  Documents <- MCDocuments
  Size <- MCSize
  Bodies <- MCBodies
  Limits <- MCLimits
  DefaultMaxDepth = 2
  Headers <- MCHeaders
  Policies <- MCPolicies
INVARIANT ReportsAsDocumented
SYMMETRY Symmetry
