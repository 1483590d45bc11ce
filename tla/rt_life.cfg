SPECIFICATION FairSpec
CONSTANTS
  r1 = r1
  r2 = r2
  Inert = Inert
  Runtimes = {r1, r2}
  Capacity = 1
  MaxNotices = 1
INVARIANTS TypeOK StoppedIsReplaced DroppedUnreachable NothingLeftBehind NoticesKept
PROPERTIES Released ShutdownReturns
CHECK_DEADLOCK FALSE
