SPECIFICATION Spec
CONSTANTS
  s1 = s1
  s2 = s2
  s3 = s3
  None = None
  Session <- ThreeSessions
  Locked = TRUE
  IgnoresError = TRUE
INVARIANTS TypeOK SessionsExclusive RunningIsListed LeftOnlyIfMissed
PROPERTY AlwaysListening
CHECK_DEADLOCK FALSE
