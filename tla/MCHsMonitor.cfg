SPECIFICATION HSpec
CONSTANTS
  Apps = {"bridge"}
  Messages = {"tell"}
  Events = {"lost"}
  NoTable = NoTable
  Nothing = Nothing
  NumApp = 2
  NumEvent = 2
  File <- Files
  Loads <- Uploads
  LoadFailures <- AllOrNothing
  MaxRestart = 1
  Maxima = {0, 1, 2}
  EsMax = 1
  EventDepth = 1
  GroundCommands <- MonCommands
  GroundBound = 2
  FaultBound = 1
  CountBound = 1
INVARIANTS
  EnablesTellTheTruth
  ResetsWithinLimit
  SilenceIsActedOn
  NeverBlindUnasked
PROPERTIES
  NoHealthyAppActedOn
  CooldownKept
