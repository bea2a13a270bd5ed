SPECIFICATION Spec
CONSTANTS
  b1 = b1
  b2 = b2
  barrier = barrier
  action = action
  e1 = e1
  None = None
  Types = {e1}
  Actors = {barrier, action}
  ActorType <- MCActorType
  Links <- MCLinks
  Browsers = {b1, b2}
  Consoles = {b1}
  Closing = {b1}
INVARIANTS TypeOK MissingLinksAreLate DiesOnlyByClosing
PROPERTIES SeenBeforeCleared Informed GraphDrawn
CHECK_DEADLOCK FALSE
