SPECIFICATION ChangeServerFairSpec
CONSTANTS
  c1 = c1
  c2 = c2
  operator = operator
  admin = admin
  auditor = auditor
  Changes = {c1, c2}
  Actors <- MCActors
  Requester <- MCRequester
  Required <- MCRequired
  Denied = {}
  Input <- MCInput
  RepeatedApprovals = FALSE
  FaultKinds = {"error", "lost"}
  MaxFaults = 2
  MaxRevisions = 1
  MaxVersion = 3
  MaxAttempts = 1
  MaxInFlight = 1
INVARIANTS
  JobNeedsApproval
  MemoryCoversDurable
  
  RowsReplay
PROPERTIES
  CandidatesResolve
CHECK_DEADLOCK FALSE
