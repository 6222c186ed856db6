SPECIFICATION WorkerSpec
CONSTANTS
  j1 = j1
  j2 = j2
  Jobs = {j1, j2}
  Asked <- OneOfEach
  MaxCmds = 1
  MaxEvents = 1
  e1 = e1
  d1 = d1
  n1 = n1
  Editors = {e1}
  Dirs = {d1}
  FileNames = {n1}
  Sanitized <- SameName
  Stored <- OneFile
  MaxOpens = 2
  MaxSaves = 2
  MaxUnderWay = 2
  shell = shell
  side = side
  other = other
  s1 = s1
  s2 = s2
  Conns = {shell, side, other}
  Sessions = {s1, s2}
  SessionOf <- TwoSessions
  Fields = {"user", "password"}
CHECK_DEADLOCK FALSE
INVARIANTS
  RowsAreTrue
  ArchivesAreRemoved
  EditsComeHome
PROPERTIES
  StoppedTransfersSettle
  DialogIsABroker
  EveryPromptIsAnswered
