\* A second SIGHUP right after the first.
SPECIFICATION Spec
CONSTANTS
  t1 = t1
  t2 = t2
  NoThread = NoThread
  Threads = {t1, t2}
  Files <- OneFile
  Arrivals <- NoPoints
  HupPoints <- LockFreePoints
  IntPoints <- NoPoints
  ServePoints <- LivePoints
  Overlap = FALSE
SYMMETRY Symmetry
INVARIANTS
  NoPortConflict
CHECK_DEADLOCK FALSE
