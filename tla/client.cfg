SPECIFICATION FairSpec
CONSTANTS
  SendCap = 2
  IncomingCap = 1
  MaxSends = 3
  MaxReads = 2
CHECK_DEADLOCK FALSE
INVARIANTS
  ClientTypeOK
  DeliveredInOrder
PROPERTIES
  PumpsReturn
  StrangersGo
