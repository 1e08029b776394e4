CONSTANTS
  None = None
  t1 = t1
  t2 = t2
  t3 = t3
  Threads = {t1, t2, t3}
  MaxProcesses = 2
  MaxPid = 3
  Signals = {1, 2}
  MaxPolls = 0
SPECIFICATION ProcSpec
INVARIANTS ProcTypeOK TablesMatch 
PROPERTIES OrphansStayOrphans DeadlyNotDropped
CHECK_DEADLOCK FALSE
