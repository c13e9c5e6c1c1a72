SPECIFICATION MCSpec
CONSTANTS
  NumRts = 2
  Slots = 3
  AtsShare = 1
  MaxWakeup = 5
  AutoRts = 1
  RtsTables <- ShortTables
  ActiveBound = 3
INVARIANTS
  HTypeOK
  ActiveCountCovers
  RunsWhatItStarted
  Punctual
PROPERTIES
  DelaysHonoured
  DispatchOrdered
