SPECIFICATION Spec
CONSTANTS
  Messages <- Whole
  MAX_LENGHT = 10
  MaxMessages = 2
  Patience <- Pipelines
  Splits = FALSE
INVARIANT FramesIntact
CHECK_DEADLOCK FALSE
