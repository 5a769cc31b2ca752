SPECIFICATION StoresSpec
CONSTANTS
  k1 = k1
  Keys <- MCKeys
  WindowOf <- MCWindowOf
  Durations = {1, 3}
  Epoch = 4
  MaxTime = 9
  MaxCount = 2
  Vals = {v1, v2}
  NoVal = NoVal
  Loaders = {l1}
  TTLs = {1, 2}
  Callers = {c1}
  AskedWindow <- MCAskedWindow
  PerMilli = 2
  MaxRetries = 1
  MaxFaults = 2
  ShortTime = 7
INVARIANTS
  StoresTypeOK LoadedWasHeld AckedAreCounted BanCoversCall
PROPERTIES
  CountsAsPromised BansAsPromised ExpiredIsDropped
  EntriesAsPromised RedisAsPromised
