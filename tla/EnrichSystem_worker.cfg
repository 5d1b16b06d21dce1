SPECIFICATION MCSpec
CONSTANTS
  Rows = {r1, r2}
  Addrs = {a1, a2}
  NoAddr = NoAddr
  Remote <- MCRemote
  Blocked = {r1, r2}
  Stamp <- MCStamp
  Reports = {p1}
  WithCats = {p1}
  None = None
  BatchSize = 2
  MaxFailures = 1
  MaxCrashes = 1
  MaxWindows = 6
  Keys = {k1}
  NoKey = NoKey
  Day = 2
  Hour = 1
  DailyQuota = 1
  ResetHeaders = {TRUE}
  MaxTime = 4
  MaxFaults = 1
  MaxKeyChanges = 1
INVARIANTS TypeOK OnlyAnAnswerCloses NoWindowPassesOver
PROPERTY ReopenNeedsNews

