SPECIFICATION Spec
CONSTANTS
  Slaves     <- MCSlaves2
  Plc        = 20
  NumCh      <- OutNumCh
  Blocks     <- OutBlocks
  ExtSize    = 2
  InVars     <- NoVars
  OutVars    <- OutOutVars
  PoolCap    = 2
  RxCap      <- RxCap1
  Overwrites <- MCSlaves1
  MaxScan    = 3
  MaxPin     = 0
  MaxRestart = 1
INVARIANTS SkewBounded OnlyConfiguredDriven
PROPERTY OutputsInOrder
