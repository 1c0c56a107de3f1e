SPECIFICATION Spec
CONSTANTS
  Node = {n1, n2}
  Quiet = {}
  Last = 2
  MaxTerm <- Until
  Nobody = Nobody
  NoRpc = NoRpc
  MaxBeat = 1
  MaxIndex = 1
  MaxLate = 0
  MaxRestart = 1
SYMMETRY Symmetry
INVARIANTS
  TypeOK
  TimeoutComing
  
PROPERTIES
  TermNeverBack
  ElectedByGrant
CHECK_DEADLOCK FALSE
