SPECIFICATION RuntimeSpec
CONSTANTS
  MaxOps = 4
  Length = 2
  MaxData = 2
  MaxThrows = 1
  Delays = {1, 2}
  MaxTimers = 2
  MaxTime = 3
  PoolSize = 3
  MaxAccepts = 3
  MaxSpurious = 1
  MaxFuncs = 3
  MaxYields = 2
  Users = {u1, u2}
  Items <- MCItems
  StackBuf = 10
  MaxItems = 2
INVARIANTS
  TypeOK
  PendingArmed
  ClosedSafely
  TimersSafe
  PoolSafe
  CoSafe
  LoggerSafe
PROPERTIES
  ConnectionEnds
CHECK_DEADLOCK FALSE
