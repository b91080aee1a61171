SPECIFICATION LiveSpec
CONSTANTS
  WaitTime  = 2
  Retained <- PauseRetained
  MaxSent   = 2
  MaxFaults = 4
INVARIANTS TypeOK Agree OneBudget NoTimeoutOnceUp ReadyBeforeRun
PROPERTY GetsUp
CHECK_DEADLOCK FALSE
