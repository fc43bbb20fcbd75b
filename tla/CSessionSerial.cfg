CONSTANTS
  IoThreads = {io1, io2}
  Logic = logic
  Nobody = nobody
  Strand = TRUE
  MAX_SENDQUE = 2
  MaxRequests = 4
SPECIFICATION Spec
INVARIANTS
  ReadWriteSerial
CHECK_DEADLOCK FALSE
