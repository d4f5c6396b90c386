\* SIGHUP while main still starts the daemon.
SPECIFICATION Spec
CONSTANTS
  t1 = t1
  t2 = t2
  NoThread = NoThread
  Threads = {t1, t2}
  Files <- OneFile
  Arrivals <- NoPoints
  HupPoints <- InitPoints
  IntPoints <- NoPoints
  ServePoints <- LivePoints
  Overlap = FALSE
SYMMETRY Symmetry
INVARIANTS
  MemorySafe
