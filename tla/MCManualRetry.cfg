SPECIFICATION ManualRetrySpec
CONSTANTS
  k1 = k1
  k2 = k2
  k3 = k3
  a = a
  w1 = w1
  o1 = o1
  o2 = o2
  Jobs <- MCJobs
  Keys <- MCKeys
  Requests = {a}
  Workers = {w1}
  AttemptLimits = {1}
  Reviewers <- MCReviewers
  Rules <- MCRules
  Reviews = {1}
  MaxHistory = 1
  NoWorker = NoWorker
  NoValue = NoValue
  LeaseTTL = 1
  BaseDelay = 1
  MaxDelay = 1
  MaxLag = 0
  MaxVersion = 0
  Backend = "postgres"
SYMMETRY MCSymmetry
INVARIANTS
  ChainsAreReadable
  RetriesWereAdmitted
