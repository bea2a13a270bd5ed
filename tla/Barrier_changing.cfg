SPECIFICATION Spec
CONSTANTS
  Types = {a, b, d}
  Outputs = {p, q, r}
  Correlations = {c1, c2}
  InitialInput = {a, b}
  InitialOutput = {p, q}
  MayAddInput = TRUE
  MayAddOutput = TRUE
  MayReregister = TRUE
  None = None
INVARIANTS TypeOK RemainderRight
PROPERTIES PublishesAll ImplementsAndJoin KeepsFiring
CHECK_DEADLOCK FALSE
