SPECIFICATION FairSpec
CONSTANTS
  k1 = k1
  k2 = k2
  Keys <- OneKey
  WindowOf <- Windows
  Durations = {1, 2}
  LegacyWindow = 2
  InitialFiles <- OldFiles
  Epoch = 4
  MaxTime = 8
  MaxCount = 2
  MaxCrashes = 1
INVARIANTS CrashLosesOnlyPending FileInvariant
PROPERTIES CountsAsPromised ChangesReachDisk
