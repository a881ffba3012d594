CONSTANTS
  Block = 2
  MaxLen = 3
  ChirpSettings <- OnlyFailing
SPECIFICATION ChSpec
PROPERTY CloseReportsLoss
CHECK_DEADLOCK FALSE
