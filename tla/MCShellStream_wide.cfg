SPECIFICATION OutputSpec
CONSTANTS
  MaxTokens = 1
  EchoCap = 4
  OscCap = 3
  BatchCap = 2
  Heights <- TwoHeights
  MaxHistory = 3
  MaxTexts = 9
  Chunks <- TwoRowLines
  Wide <- WideRows
  Touched <- RightEdge
CHECK_DEADLOCK FALSE
INVARIANTS
  CharIndexIsColumn
