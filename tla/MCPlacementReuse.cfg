SPECIFICATION PlacementSpec
CONSTANTS
  None = None
  Nodes = {1, 2}
  Constraints = {1, 2}
  TicksPerSecond = 2
  MaxTelemetryAge = 1
  Profiles <- MCProfiles
  Reports <- MCReports
  Requests <- MCRequests
  Worlds <- MCWorlds
  MaxClock = 3
  MaxChanges = 1
INVARIANTS
  PermittedReuseIsSafe
  
CHECK_DEADLOCK FALSE
