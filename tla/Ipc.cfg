CONSTANTS
  loader = loader
  server = server
  worker = worker
  client = client
  P0 = P0
  P1 = P1
  P2 = P2
  None = None
  svc = svc
  Threads = {loader, server, worker, client}
  Procs = {P0, P1, P2}
  ProcOf <- FourThreads
  Idlers = {loader}
  MaxEndpoints = 4
  MaxHandles = 3
  MaxWaiters = 1
  MaxTransfer = 1
  Lens = {1}
  Names = {svc}
  MaxServices = 1
SPECIFICATION IpcSpec
INVARIANTS IpcTypeOK  PeersLinked NoMissedRendezvous SoleOwner
CHECK_DEADLOCK FALSE
