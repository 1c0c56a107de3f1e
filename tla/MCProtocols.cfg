SPECIFICATION ProtocolsSpec
CONSTANTS
  Requests = 3
  Kinds <- MCKinds
  MaxConnect = 2
  Master = {m1, m2, m3}
  LastSlot = 3
  MaxUpdates = 3
  Frames <- MCFrames
  MaxText = 2
  Scripts <- MCScripts
  FileSize = 2
  Uploads <- MCUploads
  Bodies <- MCBodies
  MaxEnds = 2
  Sockets = {s1, s2}
  RoomNames = {r1, r2}
  Namespaces = {"/", "/chat"}
  Known = {"/"}
  MaxEmits = 1
  MaxAsks = 2
  Heads <- MCHeads
  Forms <- MCForms
  MaxBuffer = 3
  Streams <- MCStreams
  Documents <- MCDocuments
  Ints = {"5", "7"}
  Floats = {"0.25", "0.1234567", "rounded"}
  Fine = {"0.1234567"}
  Posts <- MCPosts
  Singles <- MCSingles
SYMMETRY MCSymmetry
INVARIANTS
  
  
  WebSocketSafe
  ServerSafe
  
  SocketsSafe
  FormatsRead
CHECK_DEADLOCK FALSE
