SPECIFICATION Spec
CONSTANTS
  Types = {a, b}
  Outputs = {p, q, r}
  Correlations = {c1, c2}
  InitialInput = {a, b}
  InitialOutput = {p, q}
  MayAddInput = FALSE
  MayAddOutput = TRUE
  MayReregister = FALSE
  None = None
INVARIANT DistributorSurvives
SYMMETRY SameCorrelations
CHECK_DEADLOCK FALSE
