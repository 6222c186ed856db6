SPECIFICATION FairSpec
CONSTANTS
  a = a
  b = b
  root = root
  home = home
  u1 = u1
  NoTab = NoTab
  NoDir = NoDir
  Tabs <- OneTab
  Dirs <- RootAndHome
  Uploads <- OneUpload
  Root = root
  Home = home
  MaxRequests = 1
  MaxPrompts = 2
  WithDialogs = TRUE
CHECK_DEADLOCK FALSE
INVARIANTS
  ShownIsUpToDate
  FollowsTheShell
  DeletedWasConfirmed
PROPERTIES
  LoadingEnds
