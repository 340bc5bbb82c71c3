CONSTANTS
  GroupRows = 1
  RowTokens = {2}
  Hosts <- MCHosts
  Groups <- MCGroups
  StartRows = 2
  MaxRows = 4
  ProbeTokens = 4
  FloorTokens = 4
  Fallback = 8
SPECIFICATION Spec
INVARIANTS InsideTarget
