\* Two mount points, reloads and requests at any time.
SPECIFICATION MCSpec
CONSTANTS
  root = root
  home = home
  Main = Main
  Server = Server
  Unlocked = Unlocked
  Literal = Literal
  Mounts = {root, home}
  Tables <- MCTables
  Readings <- MCReadings
  Thresholds <- MCThresholds
INVARIANTS
  TypeOK
  ListIsOneScan
  AnswerIsCurrent
  AlertsGrounded
  AlertsComplete
PROPERTIES
  LowMountLogged
