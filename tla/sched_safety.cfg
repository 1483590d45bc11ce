SPECIFICATION Spec
CONSTANTS
  c1 = c1
  parent = parent
  child = child
  spin = spin
  op1 = op1
  op2 = op2
  Driver = Driver
  None = None
  NHandles = 2
  Callers = {c1}
  Tasks <- FamilyTasks
  IoOps = {op1, op2}
  Prio <- FamilyPrio
  Awaits <- FamilyAwaits
  Submits <- FamilySubmits
  Blocking = {}
  Endless = {}
  Panics = {child}
  Breaking = {}
  FairnessFeature = FALSE
  MayShutDown = TRUE
  MaxPending = 1
  MaxPolls = 1
INVARIANTS TypeOK OneOwner NothingLost ReplyOwed
PROPERTIES RepliedOnce MostUrgent ImplementsTaskPool
CHECK_DEADLOCK FALSE
