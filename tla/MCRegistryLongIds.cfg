CONSTANTS
  d1 = d1  d2 = d2  c1 = c1  c2 = c2  u1 = u1  u2 = u2  n1 = n1
  hd1 = hd1  hd2 = hd2  hc1 = hc1  hc2 = hc2
  NoDyn = NoDyn  NoCursor = NoCursor  NoId = NoId
  Dyns <- MCDyns
  Cursors <- MCCursors
  UserIds <- MCLongUserIds
  CursorNames <- MCCursorNames
  DynHandles <- MCDynHandles
  CursorHandles <- MCCursorHandles
  TruncateId <- LongIds
  IncNumSpace = 3
  MaxDynIdTries = 2
SPECIFICATION Spec
INVARIANT DynIdsUnique
