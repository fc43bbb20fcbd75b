SPECIFICATION FairSpec
CONSTANTS
  s1 = s1
  s2 = s2
  None = None
  MSG_HELLO_WORLD = MSG_HELLO_WORLD
  MSG_UNKNOWN = MSG_UNKNOWN
  MSG_INVALID = MSG_INVALID
  Session <- Two
  Ids <- All
  Valid = {MSG_HELLO_WORLD, MSG_UNKNOWN}
  Registered <- Hello
  Empty = {MSG_UNKNOWN}
  MAX_SENDQUE = 1
  MaxRequests = 3
  Loads <- LoadsUsed
INVARIANTS
  TypeOK
  OneWriteAtATime
  NoStrandedReply
  StaleOnlyAfterFailure
  RequestsAccounted
  RepliesMatchRequests
  PatientNeverRefused
PROPERTIES
  ImplementsMessageStream
  ImplementsReplyChannel
  RequestsAnswered
  ReleasedOnceGone
CHECK_DEADLOCK FALSE
