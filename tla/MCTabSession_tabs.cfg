SPECIFICATION TabsSpec
CONSTANTS
  a = a
  b = b
  c = c
  d = d
  w1 = w1
  w2 = w2
  NoTab = NoTab
  NoWorker = NoWorker
  Tabs <- FourTabs
  Workers <- TwoWorkers
  Kind <- LocalTelnetSerialSsh
  MaxCmds = 1
  MaxEvents = 1
CHECK_DEADLOCK FALSE
INVARIANTS
  SftpReleased
PROPERTIES
  LocalTabsKeepPromise
  EndIsReported
  ReleasedWorkersStop
