SPECIFICATION FairSpec
CONSTANTS
  c1 = c1
  parent = parent
  child = child
  spin = spin
  op1 = op1
  op2 = op2
  Driver = Driver
  None = None
  NHandles = 2
  Callers = {c1}
  Tasks = {child}
  IoOps = {op1}
  Prio <- CrowdPrio
  Awaits <- NoAwaits
  Submits <- NoSubmits
  Blocking = {}
  Endless = {child}
  Panics = {}
  Breaking = {0, 1}
  FairnessFeature = FALSE
  MayShutDown = TRUE
  MaxPending = 0
  MaxPolls = 1
PROPERTIES IoReturns ShutdownStops
CHECK_DEADLOCK FALSE
