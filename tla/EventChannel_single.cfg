SPECIFICATION Spec
CONSTANTS
  main = main
  timer = timer
  dist = dist
  NoMessage = NoMessage
  Threads <- MCThreads
  Distributor = dist
  MaxSends <- MCOnePublisher
  RingSize = 2
  NullAttributes = TRUE
  HandlersThrow = TRUE
  MayStop = TRUE
INVARIANTS TypeOK ExclusiveSlot
PROPERTIES EventuallyReceived SendReturns ImplementsFifo
CHECK_DEADLOCK FALSE
