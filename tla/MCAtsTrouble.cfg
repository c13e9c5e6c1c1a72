SPECIFICATION HSpec
CONSTANTS
  MaxCmds = 2
  Slots = 2
  BuffSize = 4
  MaxTime = 12
  HalfTime = 6
  Horizon = 2
  AtsTables <- TroubleTables
INVARIANTS
  PendExplained
PROPERTIES
  ExecutedOnce
  DueCommandsLeave
