SPECIFICATION FairSpec
CONSTANTS
  c1 = c1
  parent = parent
  child = child
  spin = spin
  op1 = op1
  op2 = op2
  Driver = Driver
  None = None
  NHandles = 2
  Callers = {c1}
  Tasks <- CrowdTasks
  IoOps = {}
  Prio <- CrowdPrio
  Awaits <- CrowdAwaits
  Submits <- NoSubmits
  Blocking = {}
  Endless = {spin}
  Panics = {child}
  Breaking = {}
  FairnessFeature = TRUE
  MayShutDown = FALSE
  MaxPending = 0
  MaxPolls = 1
PROPERTIES Served Completes
CHECK_DEADLOCK FALSE
