\* SIGHUP anywhere in the loop, SIGINT anywhere, every kind of client.
SPECIFICATION Spec
CONSTANTS
  t1 = t1
  t2 = t2
  NoThread = NoThread
  Threads = {t1, t2}
  Files <- MCFiles
  Arrivals <- AnyRequests
  HupPoints <- LoopPoints
  IntPoints <- MainPoints
  ServePoints <- LivePoints
  Overlap = TRUE
SYMMETRY Symmetry
INVARIANTS
  TypeOK
  MemorySafe
  ServerMatchesConfig
  DestroyedUnlocked
  NoAbandonedClient
