SPECIFICATION ScoresSpec
CONSTANTS
  Addrs = {a1, a2}
  Scores = {s1, s2}
  None = None
  Limits = {0, 1}
  RefreshAfter = 1
  StoreFails = FALSE
  MaxDay = 3
  MaxBoots = 0
INVARIANT OldScoreIsStale
