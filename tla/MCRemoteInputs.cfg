SPECIFICATION Spec
CONSTANTS
  Slaves     <- MCSlaves1
  Plc        = 20
  NumCh      <- InNumCh
  Blocks     <- InBlocks
  ExtSize    = 2
  InVars     <- InInVars
  OutVars    <- NoVars
  PoolCap    = 2
  RxCap      <- RxCap1
  Overwrites <- MCSlaves1
  MaxScan    = 2
  MaxPin     = 2
  MaxRestart = 1
INVARIANT TypeOK
 
