SPECIFICATION FairSpec
CONSTANTS
  r1 = r1
  r2 = r2
  Inert = Inert
  Runtimes = {r1, r2}
  Capacity = 1
  MaxNotices = 0
PROPERTIES ShutdownEndsThreads
CHECK_DEADLOCK FALSE
