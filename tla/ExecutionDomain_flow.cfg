SPECIFICATION Spec
CONSTANTS
  s = s
  m = m
  x = x
  y = y
  monitor = monitor
  action = action
  condition = condition
  bridge = bridge
  logger = logger
  caller = caller
  clock = clock
  None = None
  Types = {s, m, x, y}
  Removable = {m}
  Actors = {monitor, action, condition, bridge, logger}
  Kind <- MCKind
  Inputs <- MCInputs
  Outputs <- MCOutputs
  Callers = {caller}
  Timers = {clock}
  Sources <- MCSources
  RingSize = 2
  MaxPoolSize = 1
  MaxPublished = 1
INVARIANTS TypeOK MonitorFirst StopComplete TimerSilent
PROPERTIES CausalDelivery ImplementsDelivery AllWorkDone
CHECK_DEADLOCK FALSE
