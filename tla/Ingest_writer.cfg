SPECIFICATION FairSpec
CONSTANTS
  MaxLines <- MCMaxLines
  Addrs = {a1}
  NoAddr = NoAddr
  Capacity = 2
  BatchMax = 2
  MaxFailures = 1
  MaxRestarts = 1
INVARIANTS TypeOK EveryLineCounted NewsFollowTable
PROPERTY EveryLineSettles
