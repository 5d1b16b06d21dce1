SPECIFICATION Spec
CONSTANTS
  Hosts = {h1, h2}
  Off = Off
  FirstSpan = 2
  Overlap = 1
  MaxDelay = 1
  FetchLimit = 2
  MaxQueries = 3
  MaxTime = 4
  MaxFaults = 1
  MaxChanges = 1
INVARIANT NothingMissedAfterErrors
