CONSTANTS
  w1 = w1
  w2 = w2
  r1 = r1
  r2 = r2
  s1 = s1
  o1 = o1
  o2 = o2
  op1 = op1
  op2 = op2
  Workflows = {w1}
  FirstStates = {"awaiting_authorization"}
  MaxVersion = 3
  MaxTime = 1
  Scopes = {s1}
  Owners = {o1, o2}
  Operations = {op1, op2}
  NoOperation = NoOperation
  MaxGrants = 2
  ApprovalRequests = {r1, r2}
SPECIFICATION Spec
SYMMETRY Symmetry
CHECK_DEADLOCK FALSE
INVARIANTS
  TypeOK
  CommandsAreSerial
  EnvelopeIsGrounded
  OneExecutionPerVersion
  ConsumedIffAdmitted
  TokensIncrease
PROPERTIES
  CallsStartFenced
  CallKeepsItsScope
