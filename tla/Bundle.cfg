SPECIFICATION Spec
CONSTANTS
  b1 = b1
  b2 = b2
  d1 = d1
  small = small
  plain = plain
  colbert = colbert
  shared = shared
  None = None
  Builds = {b1, b2}
  Deploys = {d1}
  Models = {small, plain, colbert}
  Pinned = {small, colbert}
  Refers <- MCRefers
  Absent = {plain}
  Loads = {small, plain}
  Outputs = {"a"}
  Ports <- MCPorts
SYMMETRY TwoBuilds
CHECK_DEADLOCK FALSE
INVARIANTS
  OwnDependencies
  RunsOffline
PROPERTIES
  StartedRan
