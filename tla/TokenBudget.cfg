CONSTANTS
  GroupRows = 5
  RowTokens = {0, 2, 3}
  Hosts <- MCHosts
  Groups <- MCGroups
  StartRows = 2
  MaxRows = 4
  ProbeTokens = 4
  FloorTokens = 4
  Fallback = 8
SPECIFICATION FairSpec
INVARIANTS TypeOK TunedBudgetFits EveryRowInOneForward ForwardWithinBudget PacksAsBatcher FewestForwards
PROPERTIES StartUpEnds
