SPECIFICATION Spec
CONSTANTS
  r1 = r1
  r2 = r2
  q1 = q1
  q2 = q2
  Replicas <- MCReplicas
  Requests <- MCRequests
  Verbs = {"embed", "rerank"}
  Deployments = {"compose", "kubernetes"}
  Pool = 1
  MaxFails = 1
  Unready = 1
  Unlive = 2
  MaxFaults = 2
CHECK_DEADLOCK FALSE
INVARIANTS
  MaskedFailure
PROPERTIES
  EveryRequestEnds
  BackInService
