SPECIFICATION Spec
CONSTANTS
  Messages <- All
  MAX_LENGHT = 10
  MaxMessages = 3
  Patience <- Both
  Splits = TRUE
INVARIANTS TypeOK BytesInPlace OnlyTornAreLost
PROPERTY ReceivedAsSent
CHECK_DEADLOCK FALSE
