SPECIFICATION AuthSpec
CONSTANTS
  c1 = c1
  c2 = c2
  s1 = s1
  s2 = s2
  Calls <- MCCalls
  Sessions <- MCSessions
  NoSession = NoSession
  TTL = 3
  IdleTimeout = 2
  MaxClock = 3
  MaxPassword = 2
SYMMETRY MCSymmetry
INVARIANTS
  OldPasswordIsDead
  
PROPERTIES
  NoLostPasswordChange
  IdleSessionsEnd
