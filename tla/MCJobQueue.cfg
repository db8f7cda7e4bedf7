SPECIFICATION JobQueueSpec
CONSTANTS
  k1 = k1
  k2 = k2
  a = a
  w1 = w1
  w2 = w2
  Jobs <- MCJobs
  Keys <- MCKeys
  Requests <- MCRequests
  Workers <- MCWorkers
  AttemptLimits <- MCAttemptLimits
  NoWorker = NoWorker
  NoValue = NoValue
  LeaseTTL = 2
  BaseDelay = 1
  MaxDelay = 1
  MaxLag = 1
  MaxVersion = 4
  Backend = "postgres"
SYMMETRY MCSymmetry
INVARIANTS
  LeaseMatchesStatus
  AttemptAccounting
PROPERTIES
  LiveLeaseIsExclusive
  
