SPECIFICATION Spec
CONSTANTS
  Node = {n1, n2}
  Nobody = Nobody
  NoRpc = NoRpc
  Restless = {n2}
  MaxTerm = 2
  MaxCalls = 2
  MaxLost = 1
  MaxTasks = 1
  MaxExpire = 1
  MaxFile = 1
INVARIANTS
  TypeOK
  CallsAnswered
CHECK_DEADLOCK FALSE
