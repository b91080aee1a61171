SPECIFICATION LiveSpec
CONSTANTS
  PoolCap = 3
  InfoLen = 2
  Commands = 2
  DriverCap = 1
  RxCap = 2
  MaxAsk = 3
  MaxOff = 3
INVARIANTS TypeOK RecoveryInStep
PROPERTIES StaysHeard 
