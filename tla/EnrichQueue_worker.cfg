SPECIFICATION FairSpec
CONSTANTS
  r1 = r1
  r2 = r2
  r3 = r3
  a1 = a1
  a2 = a2
  Rows = {r1, r2, r3}
  Addrs = {a1, a2}
  NoAddr = NoAddr
  Remote <- MCRemote
  Blocked = {r1, r2}
  Stamp <- MCStamp
  Reports = {p1}
  WithCats = {p1}
  None = None
  BatchSize = 2
  MaxFailures = 1
  MaxCrashes = 1
  MaxWindows = 1
INVARIANTS TypeOK BatchHolds RowsSettleRightly NothingIsLeftBehind
PROPERTIES NothingIsUndone IsRowQueue WorkGetsDone
