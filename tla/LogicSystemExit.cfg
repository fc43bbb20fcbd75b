CONSTANTS
  Posters = {io1, io2}
  Worker = worker
  Destroyer = main
  Nobody = nobody
  MsgIds = {MSG_HELLO_WORLD, MSG_UNKNOWN}
  Registered = {MSG_HELLO_WORLD}
  MaxPosts = 1
  NotifyUnlocked = FALSE
SPECIFICATION FairSpec

PROPERTIES
  DestructorReturns
CHECK_DEADLOCK FALSE
