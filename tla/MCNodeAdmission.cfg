SPECIFICATION Spec
CONSTANTS
  None = None
  n1 = n1
  n2 = n2
  t1 = t1
  root = root
  branch = branch
  site1 = site1
  zone1 = zone1
  Node = n1
  NodeScope = branch
  Tokens = {t1}
  TokenRequests <- MCTokenRequests
  Reports <- MCReports
  AssignmentSets <- MCAssignmentSets
  CoreTopology <- MCTopology
  Placements <- MCPlacements
  Replacement = n2
  Requesters = {operator, monitor}
  operator = operator
  monitor = monitor
  MaxNow = 2
  MaxVersion = 7
INVARIANTS EnrolledByOneGrant ServiceAfterDrain
PROPERTY TransitionsAreReviewed
CHECK_DEADLOCK FALSE
