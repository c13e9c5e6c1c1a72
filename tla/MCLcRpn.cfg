SPECIFICATION Spec
CONSTANTS
  NumWP = 2
  Items <- EveryKind
  MaxItems = 8
  MaxAny = 5
INVARIANTS
  RejectedNeverDecides
  AcceptedDecides
  EvaluationMatchesReference
  WellFormedAccepted
CHECK_DEADLOCK FALSE
