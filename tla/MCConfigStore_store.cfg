SPECIFICATION StoreSpec
CONSTANTS
  p1 = p1
  p2 = p2
  a = a
  b = b
  x = x
  y = y
  t1 = t1
  none = none
  Programs = {p1}
  Names = {a, b}
  Places = {x, y}
  Texts = {t1}
  NoText = none
  NoName = none
  SshHosts <- MCSshHosts
  MaxEdits = 3
  MaxIds = 3
  MaxKeys = 2
  Titles <- TwoTitles
  Folded <- LowerCase
  Default = 3
  MaxEntries = 2
INVARIANTS
  FileIsNeverTorn
  ShownIsSaved
  SealedAtMostOnce
  EveryEntryHasItsRow
PROPERTIES
  SavedSessionsStay
CHECK_DEADLOCK FALSE
