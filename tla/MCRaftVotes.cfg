SPECIFICATION Spec
CONSTANTS
  Node = {n1, n2, n3}
  Quiet = {n3}
  Last = 1
  MaxTerm <- Until
  Nobody = Nobody
  NoRpc = NoRpc
  MaxBeat = 0
  MaxIndex = 0
  MaxLate = 1
  MaxRestart = 0
SYMMETRY Symmetry
INVARIANTS
  VoteOnce
CHECK_DEADLOCK FALSE
