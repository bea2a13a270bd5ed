SPECIFICATION Spec
CONSTANTS
  main = main
  timer = timer
  dist = dist
  NoMessage = NoMessage
  Threads <- MCThreads
  Distributor = dist
  MaxSends <- MCReentrant
  RingSize = 2
  NullAttributes = FALSE
  HandlersThrow = FALSE
  MayStop = FALSE
PROPERTY SendReturns
CHECK_DEADLOCK FALSE
