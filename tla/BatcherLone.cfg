CONSTANTS
  Instance = "lone"
  Job <- MCJob
  Size <- MCSize
  Tokens <- MCTokens
  Text <- MCText
  Oversize <- MCOversize
  BaseKey <- MCBaseKey
  Merge = FALSE
  Window = TRUE
  StartupBudget = 8
  MaxRows = 3
  CollectRows = 4
  MinTokens = 4
  PoolSize = 2
  None = None
SPECIFICATION FairSpec
CHECK_DEADLOCK FALSE
INVARIANTS TypeOK EveryRowAnswered QueueWithinPool OomMeansOwnRow OneJobPerForward
PROPERTIES EveryCallEnds BudgetOnlyShrinks
