SPECIFICATION Spec
CONSTANTS
  Wrap = 7
  UsPerMs = 2
  StatusPeriod = 2
  ReadInterval = 4
  WaitInterval = 2
  CleanupInterval = 2
  Conversion = 1
  MaxTurn = 1
  WithDallas = TRUE
  TempsNum = 1
  Temps <- MCTemps
  Offset = 5
  Max16 = 15
  Refusals = TRUE
  MaxBoots = 1
INVARIANTS StatusInTime CleanupInTime ReadWhenConverted ReadInTime 
