SPECIFICATION Spec
CONSTANTS
  a1 = a1
  a2 = a2
  e1 = e1
  e2 = e2
  p1 = p1
  p2 = p2
  None = None
  Actors = {a1, a2}
  Types = {e1, e2}
  Threads = {p1, p2}
  Wishes <- MCWishes
  Operations <- MCOperations
  InitialTypes = {e1}
INVARIANTS TypeOK NoStrangers
PROPERTIES CallsTakeEffect StaysPaired AtomicUnlessMet
