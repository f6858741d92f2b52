CONSTANTS
  w1 = w1
  r1 = r1
  s1 = s1
  o1 = o1
  op1 = op1
  Workflows = {w1}
  FirstStates = {"awaiting_authorization"}
  MaxVersion = 2
  MaxTime = 1
  Scopes = {s1}
  Owners = {o1}
  Operations = {op1}
  NoOperation = NoOperation
  MaxGrants = 1
  ApprovalRequests = {r1}
SPECIFICATION Spec
CHECK_DEADLOCK FALSE
INVARIANT RefusalIsRecorded
