SPECIFICATION Spec
CONSTANTS
  None = None
  Kinds = {"allowed", "query"}
  Content <- MCContent
  Remote <- MCRemote
  Filters = {"all","facts"}
  Setting <- MCSetting
  Opened = "all"
  Log <- MCLog
  Capacity = 2
  PageSize = 2
  MaxRows = 3
  MaxTime = 2
  MaxRequests = 3
  MaxFailures = 1
CONSTRAINT MCArrivals
INVARIANTS TypeOK ScreenIsSound WalkLeavesNoGap FactsArrive
