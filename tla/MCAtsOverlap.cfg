SPECIFICATION OverlapSpec
CONSTANTS
  MaxCmds = 2
  Slots = 1
  BuffSize = 4
  MaxTime = 12
  HalfTime = 6
  Horizon = 2
  AtsTables <- OverlapTables
INVARIANTS
  ControlBlockAgrees
PROPERTIES
  NeverEarly
  InTimeOrder
  SwitchSeamless
