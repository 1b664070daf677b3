CONSTANTS
  p1 = p1  p2 = p2  p3 = p3
  NoSocket = NoSocket
  Sockets <- MCSockets
  SlotChunk = 2
  FailingAllocs <- MCFailures
  BlockSizes <- MCBlockSizes
  EnvPacketSizes <- MCEnvPacketSizes
  WritePositions <- MCWritePositions
  TDS_ADDITIONAL_SPACE = 16
  SMP_HEADER_SIZE = 16
  WRITE_BUF_START = 8

SYMMETRY Perms

SPECIFICATION Spec

INVARIANT TypeOK
INVARIANT SlotTableConsistent
INVARIANT ConnectionOutlivesSessions
INVARIANT NoNullDereference
INVARIANT OutputFitsBuffer
