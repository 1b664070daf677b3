CONSTANTS
  p1 = p1  p2 = p2  r1 = r1  d1 = d1  c1 = c1  n1 = n1  hd1 = hd1  hc1 = hc1
  NoSocket = NoSocket  NoResult = NoResult  NoDyn = NoDyn  NoCursor = NoCursor  NoId = NoId
  Sockets <- MCSockets
  Results <- MCResults
  Dyns = {d1}
  Cursors = {c1}
  DynHandles = {hd1}
  CursorHandles = {hc1}
  CursorNames = {n1}
  UserIds = {}
  TruncateId <- MCTruncate
  IncNumSpace = 1
  MaxDynIdTries = 1
  SlotChunk = 1
  FailingAllocs <- MCSynFailure
  SessFields <- MCTwoSessFields
SPECIFICATION Spec
INVARIANTS TypeOK NoResultAttachedToFreedSession ResultOwnership RegistryOwnership
