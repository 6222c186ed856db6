SPECIFICATION Spec
CONSTANTS
  a = a
  b = b
  root = root
  home = home
  u1 = u1
  NoTab = NoTab
  NoDir = NoDir
  Tabs <- TwoTabs
  Dirs <- RootAndHome
  Uploads <- NoUploads
  Root = root
  Home = home
  MaxRequests = 2
  MaxPrompts = 0
  WithDialogs = TRUE
CHECK_DEADLOCK FALSE
INVARIANTS
  EditGoesHome
