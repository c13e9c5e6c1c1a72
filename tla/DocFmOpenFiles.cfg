SPECIFICATION Spec
CONSTANTS
  log = log
  a = a
  free = free
  None = None
  Names <- MCNames
  Commands <- MCCommands
  HeldOpen = {log}
  Shared = {}
  Absent = {free}
  Depth = 2
  CommandBound = 4
  ChangeBound = 0
CHECK_DEADLOCK FALSE
PROPERTY OpenFilesKept
