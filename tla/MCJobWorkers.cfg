SPECIFICATION JobWorkersFairSpec
CONSTANTS
  k1 = k1
  a = a
  w1 = w1
  w2 = w2
  o1 = o1
  Jobs <- MCJobs
  Keys = {k1}
  Requests = {a}
  Workers = {w1, w2}
  Operators = {o1}
  AttemptLimits <- MCAttemptLimits
  NoWorker = NoWorker
  NoValue = NoValue
  NoJob = NoJob
  LeaseTTL = 1
  BaseDelay = 1
  MaxDelay = 0
  MaxLag = 1
  MaxVersion = 4
  Backend = "memory"
INVARIANTS
  SuccessWasVerified
  NewestRunHolds
  VersionIdentifiesReview
PROPERTIES
  EveryJobEnds
