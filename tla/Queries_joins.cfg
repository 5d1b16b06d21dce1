SPECIFICATION QueriesSpec
CONSTANTS
  None = None
  Other = Other
  Pool <- MCPool
  Asked <- MCMisplaced
  FlowLimits = {1, 2}
  Cap = 2
INVARIANT EveryQueryIsAnswered
