CONSTANTS
  Instance = "images"
  Job <- MCJob
  Size <- MCSize
  Tokens <- MCTokens
  Text <- MCText
  Oversize <- MCOversize
  BaseKey <- MCBaseKey
  Merge = TRUE
  Window = TRUE
  StartupBudget = 4
  MaxRows = 3
  CollectRows = 4
  MinTokens = 4
  PoolSize = 2
  None = None
SPECIFICATION Spec
CHECK_DEADLOCK FALSE
INVARIANT PromptIndependentOfChunks
