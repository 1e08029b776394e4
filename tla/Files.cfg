CONSTANTS
  MaxFiles = 3
  FileSize = 2
  Names = {"a", "b", "dev", "tty"}
  Clients = {c1, c2}
  Paths <- FewPaths
  TtyPath <- DevTty
  InlineMax = 1
  ReadBuffer = 2
  MaxCalls = 5
SPECIFICATION FilesSpec
INVARIANTS   OnlyKnownDeaths 
 
CHECK_DEADLOCK FALSE
