SPECIFICATION Spec
CONSTANTS
  a1 = a1
  a2 = a2
  e1 = e1
  e2 = e2
  p1 = p1
  p2 = p2
  None = None
  Apps = {a1, a2}
  Types = {e1, e2}
  Threads = {p1, p2}
  Definitions <- MCDefinitions
  Operations <- MCOperations
  MaxEvents = 3
INVARIANTS TypeOK DeletedLeavesNothing
PROPERTIES ImplementsInstances AddTakesEffect EndCompletesAll StartCreatesAll
