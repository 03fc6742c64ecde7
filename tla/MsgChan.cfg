SPECIFICATION FairSpec
CONSTANTS
  short = short
  long = long
  Messages = {short, long}
  BodyLen <- MCBodyLen
  MSGHDR_SIZE = 2
  MaxBacklog = 2
  PipeSize = 3
  MaxSent = 4
  MaxConns = 2
INVARIANTS WriteWakeup PayloadAllocated
PROPERTIES ImplementsFifo Delivery
CHECK_DEADLOCK FALSE
