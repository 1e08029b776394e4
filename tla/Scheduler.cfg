CONSTANTS
  MaxThreads = 3
  None = None
  SpawnPriorities <- TwoLevels
SPECIFICATION FairSchedSpec
INVARIANTS SchedTypeOK QueuesSound CpuHasLiveOwner
PROPERTIES MostUrgentFirst OnlyThreadStartStrands NoStarvation ImplementsCpu
CHECK_DEADLOCK FALSE
