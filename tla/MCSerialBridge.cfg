SPECIFICATION Spec
CONSTANTS
  Readings <- MarkedReadings
  FirstCount = 84
  TtyDepth = 24
  LossBound = 1
  SplitBound = 1
  CutBound = 1
CHECK_DEADLOCK FALSE
INVARIANTS
  WrongReadingsBounded
  WholeFramesPublished
