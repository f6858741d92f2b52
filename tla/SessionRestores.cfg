CONSTANTS
  Nothing = Nothing
  pA = pA
  pB = pB
  base = base
  missing = missing
  Projects = {pA, pB}
  StudyCases <- MCStudyCases
  Opened <- MCOpened
  Contexts <- MCContexts
  Extracted <- MCExtracted
  Callers = {t1, t2}
  Closer = Closer
  FlowKeys = {f1}
  Objects = 2
  PageSize = 1
  MaxCalls = 2
  MaxFaults = 0
SPECIFICATION SessionSpec
SYMMETRY Symmetry
INVARIANT PriorContextRestored
CHECK_DEADLOCK FALSE
