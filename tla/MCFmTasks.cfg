SPECIFICATION Spec
CONSTANTS
  log = log
  a = a
  free = free
  None = None
  Names <- MCNames
  Commands <- MCCommands
  HeldOpen = {log}
  Shared = {log, a, free}
  Absent = {free}
  Depth = 2
  CommandBound = 3
  ChangeBound = 2
CHECK_DEADLOCK FALSE
INVARIANTS
  ChildSurvives
PROPERTIES
  ImplementsQueue
  EveryCommandServed
  DeleteAllExact
