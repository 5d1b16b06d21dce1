SPECIFICATION MCKeySpec
CONSTANTS
  Rows = {r1, r2, r3}
  Addrs = {a1, a2, a3}
  NoAddr = NoAddr
  Remote <- MCRemote
  Blocked = {r1, r2, r3}
  Stamp <- MCOrder
  Reports = {p1}
  WithCats = {}
  None = None
  BatchSize = 1
  MaxFailures = 0
  MaxCrashes = 0
  MaxWindows = 9
  Keys = {k1, k2}
  NoKey = NoKey
  Day = 3
  Hour = 1
  DailyQuota = 2
  ResetHeaders = {TRUE}
  MaxTime = 3
  MaxFaults = 0
  MaxKeyChanges = 1
INVARIANT QuotaReopens
