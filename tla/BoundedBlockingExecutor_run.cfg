SPECIFICATION Spec
CONSTANTS
  Submitters = {s1, s2}
  Tasks = {t1, t2}
  MaxPoolSize = 2
  MayThrow = TRUE
  MayStop = TRUE
  NoTask = NoTask
INVARIANTS TypeOK PermitsConserved NoTaskStranded NothingLeftBehind
PROPERTIES TaskEnds ImplementsPool
CHECK_DEADLOCK FALSE
