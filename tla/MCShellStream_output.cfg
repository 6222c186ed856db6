SPECIFICATION OutputSpec
CONSTANTS
  MaxTokens = 3
  EchoCap = 4
  OscCap = 3
  BatchCap = 2
  Heights <- TwoHeights
  MaxHistory = 3
  MaxTexts = 7
  Chunks <- SomeChunks
  Wide <- WideRows
  Touched <- Corners
CHECK_DEADLOCK FALSE
INVARIANTS
  DisplayedIsTheStream
  OnlyTheEchoIsHidden
  CommandsAreReportedOnce
  HistoryIsWhatScrolledOff
  MarkedIsCopied
PROPERTIES
  PromptIsReleased
  SelectionStaysPut
