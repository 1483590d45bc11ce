SPECIFICATION FairSpec
CONSTANTS
  a = a
  b = b
  na = na
  nb = nb
  None = None
  Sources = {a, b}
  NFds = 4
  Notifiers = {na, nb}
  Notify <- EachOwn
  Capacity <- OneBounded
  Deaf = {na}
  Manners = {"prepared"}
  MayFail = FALSE
  MaxNumbers <- BTwice
  MaxAsks <- Once
  MaxArrivals <- ATwice
  MaxPolls = 1
INVARIANTS OwnEvents NothingMissed
PROPERTIES Accepted ShutdownStops
CHECK_DEADLOCK FALSE
