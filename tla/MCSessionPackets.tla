-------------------------- MODULE MCSessionPackets --------------------------
(* Model-checking instance of SessionPackets: Connection's three sockets   *)
(* and two-slot chunks; sessions made with 512 or 1024 byte buffers, a     *)
(* server announcing 256 (raised to 512) or 1024, and writes that fill     *)
(* half or all of a 1024-byte buffer, so that a resize can meet pending    *)
(* output larger than the new size.                                        *)
EXTENDS SessionPackets, TLC

CONSTANTS p1, p2, p3

MCSockets == {p1, p2, p3}
\* the failures Connection unwinds correctly, and a failing packet realloc
MCFailures == {"conn", "socket", "syn", "packet"}
MCBlockSizes == {512, 1024}
MCEnvPacketSizes == {256, 1024}
MCWritePositions == {512, 1024}
\* the sockets are interchangeable addresses
Perms == Permutations(MCSockets)
=============================================================================
