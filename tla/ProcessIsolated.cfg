CONSTANTS
  None = None
  t1 = t1
  t2 = t2
  t3 = t3
  Threads = {t1, t2, t3}
  MaxProcesses = 2
  MaxPid = 3
  Signals = {1}
  MaxPolls = 1
SPECIFICATION ProcSpec
INVARIANTS Isolated
CHECK_DEADLOCK FALSE
