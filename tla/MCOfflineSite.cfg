SPECIFICATION Spec
CONSTANTS
  None = None
  Requests <- MCRequests
  SitePolicies <- MCPolicies
  MaxNow = 2
  MaxPolicies = 3
  MaxWrites = 2
  MaxOutages = 2
INVARIANTS OfflineIntentOnce OnePolicyPerGeneration
CHECK_DEADLOCK FALSE
