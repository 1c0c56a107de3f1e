SPECIFICATION ServedSpec
CONSTANTS
  MaxCalls = 4
  MaxTimeouts = 3
  Leader = leader
  Follower = follower
  Nobody = Nobody
  NoRpc = NoRpc
INVARIANTS
  CallsSafe
PROPERTIES
  CallEnds
  ReachesAll
  ImplementsRpc
CHECK_DEADLOCK FALSE
