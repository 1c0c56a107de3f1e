SPECIFICATION PipesSpec
CONSTANTS
  Null = Null
  Poster = {p1, p2}
  IoThread = io1
  NoThread = NoThread
  NoHandle = NoHandle
  MaxPosts = 2
  Client = {c1}
  Worker = {w1, w2}
  NoMessage = NoMessage
INVARIANTS
  TypeOK
  NoLostWakeup
  SlotsAndSignal
PROPERTIES
  ImplementsMailbox
  EverythingHandled
CHECK_DEADLOCK FALSE
