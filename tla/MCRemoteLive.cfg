SPECIFICATION LiveSpec
CONSTANTS
  Slaves     <- MCSlaves1
  Plc        = 20
  NumCh      <- LiveNumCh
  Blocks     <- LiveBlocks
  ExtSize    = 1
  InVars     <- LiveInVars
  OutVars    <- LiveOutVars
  PoolCap    = 1
  RxCap      <- RxCap2
  Overwrites <- NoSlaves
  MaxScan    = 2
  MaxPin     = 1
  MaxRestart = 1
PROPERTIES OutputsArrive 
