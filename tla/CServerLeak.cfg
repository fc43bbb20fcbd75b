SPECIFICATION Spec
CONSTANTS
  s1 = s1
  s2 = s2
  s3 = s3
  None = None
  Session <- TwoSessions
  Locked = FALSE
  IgnoresError = FALSE
INVARIANT EndedIsRemoved
CHECK_DEADLOCK FALSE
