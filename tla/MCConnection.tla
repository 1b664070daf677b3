--------------------------- MODULE MCConnection ---------------------------
(* Model-checking instance of Connection: three socket addresses and two *)
(* slots per chunk, so that the primary and one secondary fill the first  *)
(* chunk and a third session makes tds_alloc_new_sid grow the array.     *)
EXTENDS Connection

CONSTANTS p1, p2, p3

MCSockets == {p1, p2, p3}
\* allocations whose failure the code unwinds correctly
HandledFailures == {"conn", "socket", "syn"}
\* the resize of conn->sessions may fail
SidArrayFailure == {"sid_array"}
\* tds_init_socket may fail
SocketInitFailure == {"socket_init"}
=============================================================================
