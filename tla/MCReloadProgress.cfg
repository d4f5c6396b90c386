\* SIGHUP and SIGINT at the points of the loop where main holds no mutex,
\* once the server listens; requests that arrive whole.
SPECIFICATION FairSpec
CONSTANTS
  t1 = t1
  t2 = t2
  NoThread = NoThread
  Threads = {t1, t2}
  Files <- MCFiles
  Arrivals <- WholeRequests
  HupPoints <- LockFreePoints
  IntPoints <- LockFreePoints
  ServePoints <- SettledPoints
  Overlap = FALSE
INVARIANTS
  NoDeadlock
  NoPortConflict
PROPERTIES
  ReloadCompletes
  Terminates
  ConnectionsClosed
