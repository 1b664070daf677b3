----------------------------- MODULE Connection -----------------------------
(***************************************************************************)
(* A multiplexed (MARS, ENABLE_ODBC_MARS) connection and its sessions     *)
(* (src/tds/mem.c).  The connection owns the array conn->sessions,         *)
(* indexed by session id (sid) and grown by SlotChunk slots (64 in the     *)
(* code); slot 0 holds the primary session made with the connection.  A   *)
(* session points back with tds->conn and tds->sid.  Array changes happen *)
(* under conn->list_mtx, so each is one atomic step here.                  *)
(*                                                                         *)
(* FailingAllocs is the set of allocations that may fail in a run:        *)
(*   "conn"        calloc of the TDSCONNECTION or tds_init_connection      *)
(*   "socket"      calloc of the TDSSOCKET                                 *)
(*   "socket_init" tds_init_socket (its packets, mutex or condition)       *)
(*   "sid_array"   TDS_RESIZE of conn->sessions in tds_alloc_new_sid       *)
(*   "syn"         tds_append_syn of a new secondary session               *)
(***************************************************************************)
EXTENDS Naturals, FiniteSets
LOCAL INSTANCE FiniteSetsExt

CONSTANTS
  Sockets,        \* addresses a TDSSOCKET may be allocated at
  SlotChunk,      \* slots conn->sessions starts with and grows by (64)
  FailingAllocs,  \* allocations that may fail in this run (see above)
  NoSocket

AllocKinds == {"conn", "socket", "socket_init", "sid_array", "syn"}
ASSUME SlotChunk \in Nat \ {0} /\ FailingAllocs \subseteq AllocKinds /\ NoSocket \notin Sockets

(* the outcomes an allocation of the given kind may have *)
Outcomes(kind) == IF kind \in FailingAllocs THEN BOOLEAN ELSE {TRUE}

VARIABLES
  conn,   \* [state: "none"|"live"|"freed", sessions: slot -> socket]
  sock,   \* [live: allocated sockets, sid: tds->sid, attached: tds->conn # NULL]
  fault   \* a NULL pointer was dereferenced (the process crashed)

vars == <<conn, sock, fault>>

Slots(c) == DOMAIN c.sessions          \* 0 .. num_sessions - 1

ConnState ==
  [state: {"none", "live", "freed"},
   sessions: UNION {[0 .. n - 1 -> Sockets \cup {NoSocket}] : n \in {k * SlotChunk : k \in 1 .. Cardinality(Sockets) + 1}}]
SockState ==
  [live: SUBSET Sockets, sid: [Sockets -> Nat], attached: [Sockets -> BOOLEAN]]

InitConn == [state |-> "none", sessions |-> [i \in 0 .. SlotChunk - 1 |-> NoSocket]]
InitSock == [live |-> {}, sid |-> [s \in Sockets |-> 0], attached |-> [s \in Sockets |-> FALSE]]

(* TDSSOCKET_VALID over the slots: does any slot hold a session? *)
AnySessionValid(c) == \E i \in Slots(c) : c.sessions[i] # NoSocket

(* Defect variant: the array grows by one slot more than SlotChunk. *)
tds_alloc_new_sid_overgrow(c, sk, s, grow_ok) ==
  LET n     == Cardinality(Slots(c))
      free  == {i \in 1 .. n - 1 : c.sessions[i] = NoSocket}
      sid   == IF free # {} THEN Min(free) ELSE n
      grown == [i \in 0 .. n + SlotChunk |-> IF i < n THEN c.sessions[i] ELSE NoSocket]
      arr   == IF free # {} THEN c.sessions ELSE grown
      ok    == free # {} \/ grow_ok
  IN [ok   |-> ok,
      conn |-> IF ok THEN [c EXCEPT !.sessions = [arr EXCEPT ![sid] = s]] ELSE c,
      sock |-> IF ok THEN [sk EXCEPT !.sid[s] = sid] ELSE sk]

(***************************************************************************)
(* tds_alloc_new_sid: under list_mtx take the lowest free slot above 0,   *)
(* or grow the array by SlotChunk and take the first new slot; on a failed *)
(* resize tds->sid stays 0.  Returns the new states and the success flag  *)
(* tds->sid != 0.                                                          *)
(***************************************************************************)
tds_alloc_new_sid(c, sk, s, grow_ok) ==
  LET n     == Cardinality(Slots(c))
      free  == {i \in 1 .. n - 1 : c.sessions[i] = NoSocket}
      sid   == IF free # {} THEN Min(free) ELSE n
      grown == [i \in 0 .. n + SlotChunk - 1 |-> IF i < n THEN c.sessions[i] ELSE NoSocket]
      arr   == IF free # {} THEN c.sessions ELSE grown
      ok    == free # {} \/ grow_ok
  IN [ok   |-> ok,
      conn |-> IF ok THEN [c EXCEPT !.sessions = [arr EXCEPT ![sid] = s]] ELSE c,
      sock |-> IF ok THEN [sk EXCEPT !.sid[s] = sid] ELSE sk]

(* Defect variants of tds_connection_remove_socket: the slot is not       *)
(* cleared; the scan for valid slots starts at 1, missing the primary.    *)
tds_connection_remove_socket_keep_slot(c, sk, s) ==
  [conn |-> IF AnySessionValid(c) THEN c ELSE [c EXCEPT !.state = "freed"],
   sock |-> [sk EXCEPT !.attached[s] = FALSE]]

tds_connection_remove_socket_skip_primary(c, sk, s) ==
  LET cleared == IF sk.sid[s] \in Slots(c) THEN [c EXCEPT !.sessions[sk.sid[s]] = NoSocket] ELSE c
  IN [conn |-> IF \E i \in Slots(c) \ {0} : cleared.sessions[i] # NoSocket
               THEN cleared ELSE [cleared EXCEPT !.state = "freed"],
      sock |-> [sk EXCEPT !.attached[s] = FALSE]]

(***************************************************************************)
(* tds_connection_remove_socket: under list_mtx clear the slot of tds->sid *)
(* (whatever session it holds), look for a valid slot; if none is left the *)
(* connection is freed, otherwise a FIN for tds->sid is queued.  Then     *)
(* tds->conn = NULL.                                                       *)
(***************************************************************************)
tds_connection_remove_socket(c, sk, s) ==
  LET cleared == IF sk.sid[s] \in Slots(c) THEN [c EXCEPT !.sessions[sk.sid[s]] = NoSocket] ELSE c
  IN [conn |-> IF AnySessionValid(cleared) THEN cleared ELSE [cleared EXCEPT !.state = "freed"],
      sock |-> [sk EXCEPT !.attached[s] = FALSE]]

(***************************************************************************)
(* tds_free_socket: detach from the connection, then free the socket.     *)
(* With tds->conn = NULL, tds_connection_remove_socket locks               *)
(* conn->list_mtx through a NULL pointer.  (Releasing cur_dyn, cur_cursor *)
(* and the results is composed in TdsMem.)                                 *)
(***************************************************************************)
tds_free_socket(c, sk, s) ==
  IF ~sk.attached[s]
  THEN [conn |-> c, sock |-> sk, fault |-> TRUE]
  ELSE LET r == tds_connection_remove_socket(c, sk, s)
       IN [conn |-> r.conn, sock |-> [r.sock EXCEPT !.live = @ \ {s}], fault |-> FALSE]

-----------------------------------------------------------------------------
Init ==
  /\ conn = InitConn
  /\ sock = InitSock
  /\ fault = FALSE

(***************************************************************************)
(* tds_alloc_socket (MARS): a new connection (at the address of a freed  *)
(* one, as malloc may reuse it), then a base socket placed in           *)
(* slot 0.  A failed base socket frees the connection again; a socket    *)
(* whose tds_init_socket failed is freed by tds_free_socket while its     *)
(* conn is still NULL.                                                     *)
(***************************************************************************)
AllocSocket(s) ==
  /\ ~fault
  /\ conn.state # "live"
  /\ s \notin sock.live
  /\ \E conn_ok \in Outcomes("conn"), sock_ok \in Outcomes("socket"),
        init_ok \in Outcomes("socket_init") :
       CASE ~conn_ok -> UNCHANGED vars
         [] ~sock_ok -> UNCHANGED vars
         [] ~init_ok -> /\ fault' = TRUE       \* tds_free_socket(tds) with tds->conn NULL
                        /\ UNCHANGED <<conn, sock>>
         [] OTHER    -> /\ conn' = [InitConn EXCEPT !.state = "live", !.sessions[0] = s]
                        /\ sock' = [sock EXCEPT !.live = @ \cup {s}, !.sid[s] = 0,
                                                !.attached[s] = TRUE]
                        /\ UNCHANGED fault

(* Defect variant: tds->conn = conn is not set before the sid is taken. *)
AllocAdditionalSocket_no_conn(s) ==
  /\ ~fault
  /\ conn.state = "live"
  /\ \E t \in sock.live : sock.attached[t]
  /\ s \notin sock.live
  /\ \E sock_ok \in Outcomes("socket"), init_ok \in Outcomes("socket_init"),
        grow_ok \in Outcomes("sid_array"), syn_ok \in Outcomes("syn") :
       LET base == [sock EXCEPT !.live = @ \cup {s}, !.sid[s] = 0, !.attached[s] = FALSE]
           sid  == tds_alloc_new_sid(conn, base, s, grow_ok)
           undo == tds_free_socket(sid.conn, sid.sock, s)
       IN CASE ~sock_ok -> UNCHANGED vars
            [] ~init_ok -> /\ fault' = TRUE
                           /\ UNCHANGED <<conn, sock>>
            [] ~sid.ok \/ ~syn_ok ->
                           /\ conn' = undo.conn
                           /\ sock' = undo.sock
                           /\ fault' = undo.fault
            [] OTHER    -> /\ conn' = sid.conn
                           /\ sock' = sid.sock
                           /\ UNCHANGED fault

(***************************************************************************)
(* tds_alloc_additional_socket(conn): a base socket (data_start past the  *)
(* SMP header), tds->conn = conn, a sid, state TDS_IDLE and a SYN; a      *)
(* failure after the base socket exists frees it with tds_free_socket.    *)
(* The caller reaches conn through one of its live sessions.              *)
(***************************************************************************)
AllocAdditionalSocket(s) ==
  /\ ~fault
  /\ conn.state = "live"
  /\ \E t \in sock.live : sock.attached[t]
  /\ s \notin sock.live
  /\ \E sock_ok \in Outcomes("socket"), init_ok \in Outcomes("socket_init"),
        grow_ok \in Outcomes("sid_array"), syn_ok \in Outcomes("syn") :
       LET base == [sock EXCEPT !.live = @ \cup {s}, !.sid[s] = 0, !.attached[s] = TRUE]
           sid  == tds_alloc_new_sid(conn, base, s, grow_ok)
           undo == tds_free_socket(sid.conn, sid.sock, s)
       IN CASE ~sock_ok -> UNCHANGED vars
            [] ~init_ok -> /\ fault' = TRUE
                           /\ UNCHANGED <<conn, sock>>
            [] ~sid.ok \/ ~syn_ok ->
                           /\ conn' = undo.conn
                           /\ sock' = undo.sock
                           /\ fault' = undo.fault
            [] OTHER    -> /\ conn' = sid.conn
                           /\ sock' = sid.sock
                           /\ UNCHANGED fault

(* tds_free_socket(tds) by the owner of a live session *)
FreeSocket(s) ==
  /\ ~fault
  /\ s \in sock.live
  /\ LET r == tds_free_socket(conn, sock, s)
     IN /\ conn' = r.conn
        /\ sock' = r.sock
        /\ fault' = r.fault

Next ==
  \/ \E s \in Sockets : AllocSocket(s)
  \/ \E s \in Sockets : AllocAdditionalSocket(s)
  \/ \E s \in Sockets : FreeSocket(s)

Spec == Init /\ [][Next]_vars

-----------------------------------------------------------------------------
TypeOK ==
  /\ conn \in ConnState
  /\ sock \in SockState
  /\ fault \in BOOLEAN

(***************************************************************************)
(* The slot table and the sessions agree: a slot holds a live session     *)
(* whose tds->sid is that slot, and every live session still attached to  *)
(* the connection sits in the slot of its sid.  Breaks if a session's     *)
(* removal clears a slot it does not own, or a sid is handed out twice.   *)
(***************************************************************************)
SlotTableConsistent ==
  /\ \A i \in Slots(conn) :
       conn.sessions[i] # NoSocket =>
         /\ conn.sessions[i] \in sock.live
         /\ sock.sid[conn.sessions[i]] = i
  /\ \A s \in sock.live :
       sock.attached[s] => sock.sid[s] \in Slots(conn) /\ conn.sessions[sock.sid[s]] = s

(***************************************************************************)
(* The connection outlives its sessions: it is freed only when no live    *)
(* session still points to it with tds->conn.                              *)
(***************************************************************************)
ConnectionOutlivesSessions ==
  \A s \in sock.live : sock.attached[s] => conn.state = "live"

(***************************************************************************)
(* Every failed allocation unwinds without dereferencing a NULL pointer.  *)
(***************************************************************************)
NoNullDereference == ~fault

=============================================================================
