SPECIFICATION Spec
CONSTANTS
  Messages <- Whole
  MAX_LENGHT = 10
  MaxMessages = 2
  Patience <- Waits
  Splits = TRUE
INVARIANT FramesIntact
CHECK_DEADLOCK FALSE
