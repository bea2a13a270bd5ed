SPECIFICATION Spec
CONSTANTS
  main = main
  timer = timer
  dist = dist
  NoMessage = NoMessage
  Threads <- MCRacingThreads
  Distributor = dist
  MaxSends <- MCTwoPublishers
  RingSize = 2
  NullAttributes = FALSE
  HandlersThrow = FALSE
  MayStop = FALSE
INVARIANT NothingLost
CHECK_DEADLOCK FALSE
