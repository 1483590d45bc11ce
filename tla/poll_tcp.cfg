SPECIFICATION Spec
CONSTANTS
  a = a
  b = b
  na = na
  nb = nb
  None = None
  Sources = {a, b}
  NFds = 5
  Notifiers = {na, nb}
  Notify <- EachOwn
  Capacity <- Unbounded
  Deaf = {}
  Manners = {"example"}
  MayFail = FALSE
  MaxNumbers <- Twice
  MaxAsks <- Once
  MaxArrivals <- Once
  MaxPolls = 1
INVARIANTS Own
CHECK_DEADLOCK FALSE
