SPECIFICATION NetworkChangeFairSpec
CONSTANTS
  Requests <- MCRequests
  MaxPhaseTimeout = 3
  MaxAge = 2
  MaxFutureSkew = 0
  MaxLateness = 1
  MaxReports = 2
INVARIANTS
  CommitsAreProbed
PROPERTIES
  NothingLeftApplied
  PreflightIsCurrent
  
CHECK_DEADLOCK FALSE
