CONSTANTS
  k1 = k1
  k2 = k2
  r1 = r1
  c1 = c1
  c2 = c2
  Keys = {k1,k2}
  Requests = {r1}
  NoRequest = NoRequest
  Clients = {c1}
  NoKey = NoKey
  QueueSize = 1
  MaxWorkers = 2
  MaxFaults = 0
  MayClose = FALSE
SPECIFICATION FairSpec
VIEW View
INVARIANT QueueWithinBound
PROPERTIES
  QueuedIsDecided
  HungCallIsQuarantined
  WaiterIsAnswered
  EveryOperationSettles
