CONSTANTS
  k1 = k1
  k2 = k2
  r1 = r1
  r2 = r2
  c1 = c1
  c2 = c2
  Keys = {k1, k2}
  Requests = {r1, r2}
  NoRequest = NoRequest
  Clients = {c1, c2}
  NoKey = NoKey
  QueueSize = 2
  MaxWorkers = 1
  MaxFaults = 0
  MayClose = TRUE
SPECIFICATION Spec
SYMMETRY Symmetry
VIEW View
INVARIANTS
  TypeOK
  RowsTellWhatRan
  NoOvertaking
  QueuedRowsAreHeld
  AnsweredForOwnRequest
  CleanCloseSettlesAll
PROPERTIES
  TerminalIsFinal
  AdmissionIsFenced
