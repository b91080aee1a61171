SPECIFICATION Spec
CONSTANTS
  TickTime = 40
  Billion = 25
  Million = 2
  RtosTick = 10
  LongMax = 40
  RemoteIndex = 3
  DIVars = {0, 2}
  DOVars = {0, 2}
  DisNum = 2
  DosNum = 2
  DisInverted = TRUE
  DosInverted = TRUE
  MaxWait = 1
  MaxScans = 3
  MaxLate = 3
INVARIANTS ClockExact  InStep KnownInputs OutputsWhole
