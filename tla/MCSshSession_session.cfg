SPECIFICATION SessionSpec
CONSTANTS
  t1 = t1
  t2 = t2
  Tabs = {t1, t2}
  Workers <- TwoWorkers
  Pages <- TwoPages
  Welcome = Welcome
  None = None
  MaxUnread = 2
  Runs = {1}
  Forwards <- ThreeForwards
  MaxConns = 1
INVARIANTS
  OneQuestionPerPage
  PagesHaveASource
  OnlyTheScreenIsMonitored
PROPERTIES
  PagesSettle
  PopupComesAlive
  NothingIsLeftOpen
CHECK_DEADLOCK FALSE
