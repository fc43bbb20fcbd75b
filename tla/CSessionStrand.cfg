CONSTANTS
  IoThreads = {io1, io2}
  Logic = logic
  Nobody = nobody
  Strand = TRUE
  MAX_SENDQUE = 2
  MaxRequests = 4
SPECIFICATION FairSpec
INVARIANTS
  TypeOK
  OneWriteAtATime
  NoStrandedReply
  OneReadAtATime
PROPERTIES
  ImplementsReplyChannel
  RepliesDelivered
  ClearedSessionCloses
CHECK_DEADLOCK FALSE
