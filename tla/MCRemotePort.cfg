SPECIFICATION Spec
CONSTANTS
  Slaves     <- MCSlaves1
  Plc        = 20
  NumCh      <- InNumCh
  Blocks     <- InBlocks
  ExtSize    = 2
  InVars     <- InInVars
  OutVars    <- NoVars
  PoolCap    = 2
  RxCap      <- RxCap2
  Overwrites <- NoSlaves
  MaxScan    = 1
  MaxPin     = 1
  MaxRestart = 0
INVARIANT RequestsAskForInputs
