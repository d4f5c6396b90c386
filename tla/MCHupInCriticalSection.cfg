\* SIGHUP anywhere in the loop.
SPECIFICATION Spec
CONSTANTS
  t1 = t1
  t2 = t2
  NoThread = NoThread
  Threads = {t1, t2}
  Files <- OneFile
  Arrivals <- WholeRequests
  HupPoints <- LoopPoints
  IntPoints <- NoPoints
  ServePoints <- SettledPoints
  Overlap = FALSE
SYMMETRY Symmetry
INVARIANTS
  NoDeadlock
