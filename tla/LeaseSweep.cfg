CONSTANTS
  w1 = w1
  r1 = r1
  s1 = s1
  o1 = o1
  op1 = op1
  Workflows = {w1}
  FirstStates = {"executing"}
  MaxVersion = 2
  MaxTime = 3
  Scopes = {s1}
  Owners = {o1}
  Operations = {op1}
  NoOperation = NoOperation
  MaxGrants = 1
  ApprovalRequests = {}
SPECIFICATION Spec
CHECK_DEADLOCK FALSE
PROPERTY DueLeasesAreSwept
