CONSTANTS
  k1 = k1
  k2 = k2
  r1 = r1
  c1 = c1
  c2 = c2
  Keys = {k1}
  Requests = {r1}
  NoRequest = NoRequest
  Clients = {c1,c2}
  NoKey = NoKey
  QueueSize = 1
  MaxWorkers = 2
  MaxFaults = 1
  MayClose = TRUE
SPECIFICATION RuntimeSpec
SYMMETRY Symmetry
VIEW View
INVARIANT OnlyAbandonedOwnersOverlap
PROPERTIES
  CallsAreInFlight
  ImplementsLedger
