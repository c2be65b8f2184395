CONSTANTS
  a = a
  b = b
  Calls = {a, b}
  Label <- SameLabel
  Thinking = Thinking
  Limit = 1
  ChunkLines = 2
  ArchiveMin = 2
  MaxInputs = 2
  MaxFaults = 2

SPECIFICATION Spec
INVARIANTS ToolsKnowTheirLines NoLineLost FinalRenderShown DeletedStaysDeleted
CHECK_DEADLOCK FALSE
SYMMETRY Symmetry
