SPECIFICATION BusSpec
CONSTANTS
  Slaves    <- MCSlaves
  Reading   <- MCReading
  Garbage   <- MCGarbage
  Targets   <- MCTargets
  Indexes   <- MCIndexes
  Lengths   <- MCLengths
  DigValues <- MCDigValues
  AnValues  <- MCAnValues
  NodeInputs <- MCInputs
  Pad        <- MCPad
  NodeInfo   <- MCNodeInfo
  MaxCut     <- MCMaxCut
INVARIANTS FitsOneFrame SetsAndTellsArrive AnswersAreRight
PROPERTIES  NothingInvented
CHECK_DEADLOCK FALSE
