CONSTANTS
  FirstFrame = 4
  LastFrame = 31
  CacheSize = 1
  MaxLivePt = 2
  Fanout = 2
  Slots = {1, 2}
  UserPages = 4
  ProgramVas = {}
  Watched = {5, 13}
  Devices <- NoDevices
  DataPages = {}
  MaxTrack = 6
  MaxUserAsid = 4
  MaxLaunches = 2
  MaxHandles = 3
  MaxMappings = 3
  MaxCalls = 5
  MaxVmoPages = 3
  HeapPages = 2
  BootFs <- BootPages
  StackVa = 2
  Requests <- Asked
SPECIFICATION MemSpec
INVARIANTS MemTypeOK MappedAsReserved  NothingLost 
CHECK_DEADLOCK FALSE
