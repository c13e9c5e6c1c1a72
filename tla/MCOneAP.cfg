SPECIFICATION MCSpec
CONSTANTS
  NumWP = 2
  NumAP = 1
  Mids = {"temp", "humid"}
  StartState = "DISABLED"
  Wdts <- TwoWdts
  Adts <- OneAdt
  FailBound = 3
  ChangeBound = 3
  AgeBound = 2
INVARIANTS
  HTypeOK
  EventsAccounted
  ResultsAreFresh
PROPERTIES
  OneRequestPerArming
  NoLateResponse
