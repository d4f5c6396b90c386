\* A client that closes inside its headers.
SPECIFICATION FairSpec
CONSTANTS
  t1 = t1
  t2 = t2
  NoThread = NoThread
  Threads = {t1, t2}
  Files <- OneFile
  Arrivals <- ShortRequest
  HupPoints <- NoPoints
  IntPoints <- NoPoints
  ServePoints <- NoPoints
  Overlap = FALSE
PROPERTIES
  ConnectionsClosed
