SPECIFICATION Spec
CONSTANTS
  s1 = s1
  s2 = s2
  Session <- TwoSessions
  Threads = 2
  Server = "SingleThreadAsyncServer"
  MaxPending = 2
  MaxFailures = 1
INVARIANTS TypeOK Balanced StoppedMeansQuiet ClientsAreServed
PROPERTY ExitsOnceClientsLeft
CHECK_DEADLOCK FALSE
