SPECIFICATION Spec
CONSTANTS
  StartupWait = 3
  MaxFails = 2
  PipeDepth = 2
  MsgLimit <- Tight
  GroundBound = 1
  GroundCommands <- SomeCommands
INVARIANTS
  SamplingAlive
PROPERTIES
  ImplementsRearm
  EveryRequestAnswered
  SamplingGoesOn
