\* While the bus is off a flush goes on for ever: the retries are no steps.
SPECIFICATION LiveSpec
CONSTANTS
  Mailboxes <- MCMailboxes
  Ids <- MCIds
  MaxFrames = 5
  MaxTrouble = 1
INVARIANTS TypeOK LeavesOnce InversionBounded
PROPERTIES RestartLosesLittle FlushEnds AllLeave
CHECK_DEADLOCK FALSE
