SPECIFICATION FairSpec
CONSTANTS
  c1 = c1
  parent = parent
  child = child
  spin = spin
  op1 = op1
  op2 = op2
  Driver = Driver
  None = None
  NHandles = 1
  Callers = {c1}
  Tasks <- FamilyTasks
  IoOps = {}
  Prio <- PairPrio
  Awaits <- FamilyAwaits
  Submits <- NoSubmits
  Blocking = {parent}
  Endless = {}
  Panics = {}
  Breaking = {}
  FairnessFeature = FALSE
  MayShutDown = FALSE
  MaxPending = 0
  MaxPolls = 1
PROPERTIES BlockingCompletes
CHECK_DEADLOCK FALSE
