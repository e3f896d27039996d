SPECIFICATION SerialSpec
CONSTANTS
  RxCapacity = 3
  TxCapacity = 4
  MaxFrame = 3
  MaxArrived = 4
  MaxAccepted = 4
  MAX_PAYLOAD_SIZE = 8
  Requests <- MCRequests
  MaxRequests = 2
  MaxFaults = 2
  FlipBits = {0, 7}
  SEQUENCE_MAX = 2
  PERIOD_MIN = 1
  PERIOD_MAX = 1
  PERIOD_DEFAULT = 1
  SecurityRequired = TRUE
INVARIANT RingsSound
INVARIANT RequestAsSent
INVARIANT HostInformed
PROPERTY TransmitsAsFifo
PROPERTY AcceptedBytesAreSent
PROPERTY RetryIsAnswered
CHECK_DEADLOCK FALSE
