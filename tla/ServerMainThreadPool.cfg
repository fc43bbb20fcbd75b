SPECIFICATION Spec
CONSTANTS
  s1 = s1
  s2 = s2
  Session <- TwoSessions
  Threads = 2
  Server = "AsioThreadPool"
  MaxPending = 2
  MaxFailures = 0
PROPERTY ExitsOnceClientsLeft
CHECK_DEADLOCK FALSE
