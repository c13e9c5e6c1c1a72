SPECIFICATION MCSpec
CONSTANTS
  NumWP = 1
  NumAP = 2
  Mids = {"temp"}
  StartState = "ACTIVE"
  Wdts <- LastingWdt
  Adts <- TwoAdts
  FailBound = 1
  ChangeBound = 0
  AgeBound = 0
PROPERTIES
  SamplingDisarmsOnlyOnRequest
  OffUntilTableLoad
