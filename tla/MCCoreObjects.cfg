SPECIFICATION Spec
CONSTANTS
  None = None
  j1 = j1
  j2 = j2
  j3 = j3
  Jobs <- MCJobs
  InitialStore <- MCInitialStore
  Templates <- MCTemplates
  Observers <- MCObservers
  MaxNow = 2
  Lag = 1
SYMMETRY JobSymmetry
INVARIANTS
  EffectOnce
  NoBlindOverwrite
  ReferencesHold
  ConvergedIsCurrent
CHECK_DEADLOCK FALSE
