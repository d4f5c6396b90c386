\* SIGINT while main still starts the daemon.
SPECIFICATION FairSpec
CONSTANTS
  t1 = t1
  t2 = t2
  NoThread = NoThread
  Threads = {t1, t2}
  Files <- OneFile
  Arrivals <- NoPoints
  HupPoints <- NoPoints
  IntPoints <- InitPoints
  ServePoints <- LivePoints
  Overlap = FALSE
PROPERTIES
  Terminates
