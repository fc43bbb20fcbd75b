CONSTANTS
  Posters = {io1, io2}
  Worker = worker
  Destroyer = main
  Nobody = nobody
  MsgIds = {MSG_HELLO_WORLD, MSG_UNKNOWN}
  Registered = {MSG_HELLO_WORLD}
  MaxPosts = 2
  NotifyUnlocked = TRUE
SPECIFICATION FairSpec
INVARIANTS
  TypeOK
  MutualExclusion
  NoLostWakeup
  JoinedMeansDrained
PROPERTIES
  ImplementsLogicQueue
  EveryPostServed
CHECK_DEADLOCK FALSE
