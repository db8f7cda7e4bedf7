CONSTANTS
  None = None
  Drills <- MCDrills
  LowerId <- MCLowerId
  Covers <- MCCovers
  RetentionAt = 3
  MaxNow = 4
  MaxAge = 1
  PointExpiry = 5
SPECIFICATION Spec
CONSTRAINT OneRecorder
INVARIANTS
  ReadyIsRestorable
  
  
  FencedBeforeRestore
CHECK_DEADLOCK FALSE
