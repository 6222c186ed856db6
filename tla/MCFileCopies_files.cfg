SPECIFICATION FilesSpec
CONSTANTS
  first = first
  Old = Old
  Copies = {first}
  Length = 5
  MaxInflight = 3
  Runs = 2
  FilesOf <- TwoThenOne
  Chunks = 1
  PromptKinds = {"plain", "hexlike"}
  Terminators = {"ZCRCG", "ZCRCW"}
  MaxTroubles = 1
CHECK_DEADLOCK FALSE
INVARIANTS
  CountsAreRight
  PromptIsKept
PROPERTIES
  DoneIsWhole
  CopyEnds
  BothAreReleased
