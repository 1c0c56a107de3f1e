SPECIFICATION DeliverySpec
CONSTANTS
  Null = Null
  Client = {c1, c2}
  Worker = {w1, w2}
  NoMessage = NoMessage
  MaxSpawn = 2
  MaxSends = 2
  MaxThrows = 1
  Node = {n1, n2, n3}
  Nobody = Nobody
  NoRpc = NoRpc
  Restless = {}
  MaxTerm = 1
  MaxCalls = 2
  MaxLost = 0
  MaxTasks = 1
  MaxExpire = 0
  MaxFile = 2
SYMMETRY Symmetry
INVARIANTS
  EngineServes
  LogHeld
PROPERTIES
  ImplementsActorModel
  LogIsOrdered
CHECK_DEADLOCK FALSE
