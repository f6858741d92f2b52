CONSTANTS
  n1 = n1
  e1 = e1
  Places = {n1, e1}
  Equipment = {e1}
  Terminal <- MCTerminal
  cx = cx
  cy = cy
  Configurations = {cx, cy}
  Curators = {a, b}
  Extractors = {x, y}
  MaxVersions = 4
  MaxEvents = 4
  Second = 2
  MaxExtractions = 3
  MaxAdvance = 1
  MaxEdits = 2
  Values = {1, 2, 3}
  Bindings = {1, 2}
  IntentIds = {i1}
  WriteOperations = {o1}
  MaxObservations = 2
  MaxRecords = 2
  MaxEffects = 2
  Snapshots <- MCSnapshots
  Refreshes <- MCRefreshes
  NoLimit = NoLimit
  Comparisons <- MCComparisons
  Targets = {t1, t2}
  Amounts = {1, 2}
  Lineages = {k1}
  MaxAuthorizations = 3
  MaxOutside = 1
SPECIFICATION Spec
SYMMETRY Symmetry
INVARIANTS
  RecreationNeedsProof
  HistoryIsLinear
  IdentityIsStable
  RevisionsFollow
  ClassifiedByLiveEvidence
  ContradictionStays
  QueriesAgree
  DiffTellsTheRefresh
  TrendsFollowOverlays
  LedgerUndoes
CHECK_DEADLOCK FALSE
