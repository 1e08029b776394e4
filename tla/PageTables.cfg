CONSTANTS
  FirstFrame = 4
  LastFrame = 14
  CacheSize = 3
  MaxLivePt = 3
  Fanout = 2
  Slots = {1, 2}
  UserPages = 4
  ProgramVas = {0, 3}
  Watched = {0, 1, 3, 5, 13}
  Devices <- UartAtTop
  DataPages = {20}
  MaxTrack = 4
  MaxUserAsid = 1
  MaxLaunches = 3
SPECIFICATION SpaceSpec
INVARIANTS SpaceTypeOK  TlbCoherent 
 
CHECK_DEADLOCK FALSE
