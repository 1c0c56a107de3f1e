SPECIFICATION HttpSpec
CONSTANTS
  Heads <- MCHeads
INVARIANTS
  HostFound
CHECK_DEADLOCK FALSE
