SPECIFICATION FairSpec
CONSTANTS
  k1 = k1
  k2 = k2
  Keys <- OneKey
  WindowOf <- Windows
  Durations = {1}
  LegacyWindow = 1
  InitialFiles <- EmptyFile
  Epoch = 4
  MaxTime = 9
  MaxCount = 2
  MaxCrashes = 0
PROPERTIES BansAsPromised
