SPECIFICATION Spec
CONSTANTS
  Submitters = {s1}
  Tasks = {t1, t2, t3}
  MaxPoolSize = 2
  MayThrow = FALSE
  MayStop = FALSE
  NoTask = NoTask
INVARIANT Bounded
SYMMETRY Interchangeable
CHECK_DEADLOCK FALSE
