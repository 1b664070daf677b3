CONSTANTS
  p1 = p1  p2 = p2  p3 = p3
  NoSocket = NoSocket
  Sockets <- MCSockets
  SlotChunk = 2
  FailingAllocs <- SidArrayFailure

SPECIFICATION Spec

INVARIANT ConnectionOutlivesSessions
