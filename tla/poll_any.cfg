SPECIFICATION Spec
CONSTANTS
  a = a
  b = b
  na = na
  nb = nb
  None = None
  Sources = {a, b}
  NFds = 3
  Notifiers = {na, nb}
  Notify <- EachOwn
  Capacity <- Unbounded
  Deaf = {}
  Manners = {"careless"}
  MayFail = TRUE
  MaxNumbers <- Once
  MaxAsks <- ATwice
  MaxArrivals <- OnlyA
  MaxPolls = 1
INVARIANTS TypeOK IdsApart Accounted
CHECK_DEADLOCK FALSE
