CONSTANTS
  Nothing = Nothing
  pA = pA
  pB = pB
  base = base
  missing = missing
  Projects = {pA, pB}
  StudyCases <- MCStudyCases
  Opened <- MCOpened
  Contexts <- MCContexts
  Extracted <- MCExtracted
  Callers = {t1, t2}
  Closer = Closer
  FlowKeys = {f1, f2}
  Objects = 2
  PageSize = 1
  MaxCalls = 4
  MaxFaults = 1
SPECIFICATION SessionSpec
SYMMETRY Symmetry
INVARIANTS
  EngineServesTheSession
  ExecutedOncePerKey
  RetriesAgree
  ConvergedIsComplete
  CloseRestores
  NoCallIsStuck
CHECK_DEADLOCK FALSE
