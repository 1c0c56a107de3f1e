SPECIFICATION Spec
CONSTANTS
  Node = {n1, n2}
  Nobody = Nobody
  NoRpc = NoRpc
  Restless = {}
  MaxTerm = 2
  MaxCalls = 2
  MaxLost = 0
  MaxTasks = 1
  MaxExpire = 0
  MaxFile = 2
SYMMETRY Symmetry
INVARIANTS
  OrderAssert
CHECK_DEADLOCK FALSE
