CONSTANTS
  None = None
  Procs = {p1}
  FdTableSize = 3
  UserFdBase = 1
  MaxPipes = 2
  PipeBufSize = 3
  Bytes = {0, 1}
  LineSize = 2
SPECIFICATION DescSpec
INVARIANTS DescTypeOK EndsCounted PipeIsFifo 
PROPERTIES ConsoleKept IdsNotReused
CHECK_DEADLOCK FALSE
