SPECIFICATION MCSpec
CONSTANTS
  None = None
  Other = Other
  Keys = {k1, k2}
  NoKey = NoKey
  Day = 2
  Hour = 1
  DailyQuota = 2
  ResetHeaders = {TRUE, FALSE}
  MaxTime = 6
  MaxRestarts = 1
  Addrs = {"p", "q"}
  Scores = {0, 90}
  Limits = {0, 1}
  RefreshAfter = 1
  StoreFails = TRUE
  MaxDay = 2
  MaxBoots = 1
  Controller = {"before", "after"}
  Content <- MCContent
  LogIfaces = {"br0"}
  MaxFaults = 2
  MaxChanges = 1
  Dirs = {"old", "new"}
  MaxEvents = 3
  MaxGeoFaults = 1
  Queries = {"stats", "count"}
  TTL = 1
  MAX_ENTRIES = 1
  MaxSeconds = 3
  MaxAtOnce = 2
  Hosts = {"p", "q"}
  Ttl = 2
  Timeout = 1
  Plenty = 1
  MaxHours = 5
  Pool <- MCPool
  Asked <- MCAsked
  FlowLimits = {1, 2}
  Cap = 2
  Spellings <- MCSpellings
  Folded <- MCFolded
  MaxId = 5
  MaxTroubles = 2
  Text <- MCText
  Meanings <- MCMeanings
  MaxMonth = 12
INVARIANTS
  PartsTypeOK
  QuotaIsHonest
  RefreshesAreRight
  OneHolder
  NamesAreCurrent
  ReplacementsAreSeen
  UpToDateIsCurrent
  LiveSpeaksForPage
  
  AnswersAreRecent
  AskedOnceADay
  IdsAreStable
  
PROPERTIES
  RespectsPause
  ExhaustedAsksAgain
