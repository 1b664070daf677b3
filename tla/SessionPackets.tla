--------------------------- MODULE SessionPackets ---------------------------
(***************************************************************************)
(* The sessions of a MARS connection (Connection) composed with their     *)
(* send buffers and the connection's negotiated block size                *)
(* (src/tds/mem.c): tds_alloc_packet and tds_realloc_packet, the buffers  *)
(* tds_init_socket sets up, the SMP-header variant made by                *)
(* tds_alloc_additional_socket, and tds_realloc_socket, which the token   *)
(* layer calls when the server changes the packet size.                    *)
(*                                                                         *)
(* A packet is abstracted to its capacity and data_start; the session     *)
(* keeps out_buf_max, out_pos (the write position in out_buf) and the     *)
(* frozen flag.  Writing, flushing and freezing are done by the write     *)
(* and packet layers, outside src/, and are modelled from the             *)
(* specification.  "packet" in FailingAllocs lets the realloc fail.       *)
(***************************************************************************)
EXTENDS Naturals

CONSTANTS
  Sockets, SlotChunk, FailingAllocs, NoSocket,   \* Connection
  BlockSizes,            \* bufsize values tds_alloc_socket is called with
  EnvPacketSizes,        \* packet sizes a server ENVCHANGE may announce
  WritePositions,        \* out_pos values a write may reach
  TDS_ADDITIONAL_SPACE,  \* room reserved after out_buf_max in a send packet
  SMP_HEADER_SIZE,       \* sizeof(TDS72_SMP_HEADER)
  WRITE_BUF_START        \* out_pos after tds_init_write_buf (the TDS header)

ASSUME BlockSizes \cup EnvPacketSizes \cup WritePositions \subseteq Nat
       /\ {TDS_ADDITIONAL_SPACE, SMP_HEADER_SIZE, WRITE_BUF_START} \subseteq Nat

(* the allocations of this module that may fail, besides Connection's *)
PacketFails == "packet" \in FailingAllocs
ConnFailingAllocs == FailingAllocs \ {"packet"}

VARIABLES
  conn, sock, fault,   \* Connection's state
  env,                 \* [block_size: conn->env.block_size, mars: conn->mars]
  bufs                 \* bufs[s]: the send buffer state of session s

vars == <<conn, sock, fault, env, bufs>>

C == INSTANCE Connection WITH FailingAllocs <- ConnFailingAllocs

Packet == [capacity: Nat, data_start: Nat]
SessBuf == [pkt: Packet, out_buf_max: Nat, out_pos: Nat, frozen: BOOLEAN]
NoBuf == [pkt |-> [capacity |-> 0, data_start |-> 0], out_buf_max |-> 0,
          out_pos |-> 0, frozen |-> FALSE]

(* tds_alloc_packet(NULL, len): capacity len, nothing copied, data_start 0 *)
tds_alloc_packet(len) == [capacity |-> len, data_start |-> 0]

(* tds_realloc_packet: grow only when capacity < len; NULL on failure *)
tds_realloc_packet(p, len, ok) ==
  IF p.capacity < len
  THEN [ok |-> ok, pkt |-> IF ok THEN [p EXCEPT !.capacity = len] ELSE p]
  ELSE [ok |-> TRUE, pkt |-> p]

(***************************************************************************)
(* The buffers of tds_init_socket(bufsize): a receive packet of bufsize   *)
(* (not modelled further), a send packet of bufsize +                      *)
(* TDS_ADDITIONAL_SPACE made current, out_buf_max = bufsize, and           *)
(* tds_init_write_buf.  Its allocation failures are Connection's           *)
(* "socket_init".                                                          *)
(***************************************************************************)
tds_init_socket(bufsize) ==
  [pkt |-> tds_alloc_packet(bufsize + TDS_ADDITIONAL_SPACE),
   out_buf_max |-> bufsize, out_pos |-> WRITE_BUF_START, frozen |-> FALSE]

(* tds_alloc_additional_socket: a base socket of SMP header + block_size, *)
(* then data_start, out_buf and out_buf_max moved past the SMP header.    *)
AdditionalSocketBuf(block_size) ==
  LET b == tds_init_socket(SMP_HEADER_SIZE + block_size)
  IN [b EXCEPT !.pkt.data_start = SMP_HEADER_SIZE,
               !.out_buf_max = @ - SMP_HEADER_SIZE]

(* Defect variant: the SMP header is left out of the size asked for. *)
tds_realloc_socket_no_header(b, e, bufsize0, ok) ==
  LET bufsize == IF bufsize0 < 512 THEN 512 ELSE bufsize0
      hdr     == IF e.mars THEN SMP_HEADER_SIZE ELSE 0
      r       == tds_realloc_packet(b.pkt, bufsize + TDS_ADDITIONAL_SPACE, ok)
      e2      == [e EXCEPT !.block_size = bufsize]
  IN CASE b.out_pos > bufsize \/ b.frozen -> [ok |-> FALSE, buf |-> b, env |-> e]
       [] ~r.ok -> [ok |-> FALSE, buf |-> b, env |-> e2]
       [] OTHER -> [ok |-> TRUE, env |-> e2,
                    buf |-> [b EXCEPT !.pkt = [r.pkt EXCEPT !.data_start = hdr],
                                      !.out_buf_max = bufsize]]

(***************************************************************************)
(* tds_realloc_socket(tds, bufsize): raise bufsize to 512; refuse (NULL,  *)
(* nothing changed) when out_pos > bufsize or the session is frozen; set  *)
(* conn->env.block_size; grow the send packet to SMP header + bufsize +   *)
(* TDS_ADDITIONAL_SPACE (NULL on failure, block_size already set); set    *)
(* data_start to the header length, out_buf_max = bufsize and make the    *)
(* packet current.  `e` is the connection's env and mars flag.            *)
(***************************************************************************)
tds_realloc_socket(b, e, bufsize0, ok) ==
  LET bufsize == IF bufsize0 < 512 THEN 512 ELSE bufsize0
      hdr     == IF e.mars THEN SMP_HEADER_SIZE ELSE 0
      r       == tds_realloc_packet(b.pkt, hdr + bufsize + TDS_ADDITIONAL_SPACE, ok)
      e2      == [e EXCEPT !.block_size = bufsize]
  IN CASE b.out_pos > bufsize \/ b.frozen -> [ok |-> FALSE, buf |-> b, env |-> e]
       [] ~r.ok -> [ok |-> FALSE, buf |-> b, env |-> e2]
       [] OTHER -> [ok |-> TRUE, env |-> e2,
                    buf |-> [b EXCEPT !.pkt = [r.pkt EXCEPT !.data_start = hdr],
                                      !.out_buf_max = bufsize]]

-----------------------------------------------------------------------------
Init ==
  /\ C!Init
  /\ env = [block_size |-> 0, mars |-> FALSE]
  /\ bufs = [s \in Sockets |-> NoBuf]

(* a session its owner can use *)
Usable(s) == ~fault /\ s \in sock.live /\ sock.attached[s]

(***************************************************************************)
(* tds_alloc_socket(context, bufsize): tds_init_connection sets           *)
(* env.block_size = bufsize (conn->mars is 0 in the calloc'ed connection) *)
(* and the base socket gets the buffers of tds_init_socket(bufsize).      *)
(***************************************************************************)
AllocSocket(s) ==
  \E bufsize \in BlockSizes :
    /\ C!AllocSocket(s)
    /\ IF s \in sock'.live
       THEN /\ env' = [block_size |-> bufsize, mars |-> FALSE]
            /\ bufs' = [bufs EXCEPT ![s] = tds_init_socket(bufsize)]
       ELSE UNCHANGED <<env, bufs>>

(* tds_alloc_additional_socket(conn): returns NULL unless conn->mars *)
AllocAdditionalSocket(s) ==
  /\ env.mars
  /\ C!AllocAdditionalSocket(s)
  /\ bufs' = IF s \in sock'.live
             THEN [bufs EXCEPT ![s] = AdditionalSocketBuf(env.block_size)]
             ELSE bufs
  /\ UNCHANGED env

(* tds_free_socket: Connection's steps, then the packet chains are freed *)
FreeSocket(s) ==
  /\ C!FreeSocket(s)
  /\ bufs' = [bufs EXCEPT ![s] = NoBuf]
  /\ UNCHANGED env

(* the prelogin reply turns on MARS: conn->mars = 1 *)
NegotiateMars ==
  /\ ~fault /\ conn.state = "live" /\ ~env.mars
  /\ env' = [env EXCEPT !.mars = TRUE]
  /\ UNCHANGED <<conn, sock, fault, bufs>>

(* a packet-size ENVCHANGE read on session s: tds_realloc_socket(tds, size) *)
ReallocSocket(s) ==
  /\ Usable(s)
  /\ \E size \in EnvPacketSizes, ok \in IF PacketFails THEN BOOLEAN ELSE {TRUE} :
       LET r == tds_realloc_socket(bufs[s], env, size, ok)
       IN /\ bufs' = [bufs EXCEPT ![s] = r.buf]
          /\ env' = r.env
  /\ UNCHANGED <<conn, sock, fault>>

(* tds_put_n and friends: bytes go to out_buf while out_pos <= out_buf_max *)
PutBytes(s) ==
  /\ Usable(s)
  /\ \E w \in WritePositions :
       /\ bufs[s].out_pos < w /\ w <= bufs[s].out_buf_max
       /\ bufs' = [bufs EXCEPT ![s].out_pos = w]
  /\ UNCHANGED <<conn, sock, fault, env>>

(* tds_flush_packet: the packet goes out (or, frozen, onto the chain, with *)
(* a new packet of the same capacity) and tds_init_write_buf resets out_pos *)
Flush(s) ==
  /\ Usable(s)
  /\ bufs' = [bufs EXCEPT ![s].out_pos = WRITE_BUF_START]
  /\ UNCHANGED <<conn, sock, fault, env>>

(* tds_freeze / tds_freeze_close: packets are held back for a length prefix *)
Freeze(s) ==
  /\ Usable(s) /\ ~bufs[s].frozen
  /\ bufs' = [bufs EXCEPT ![s].frozen = TRUE]
  /\ UNCHANGED <<conn, sock, fault, env>>

Unfreeze(s) ==
  /\ Usable(s) /\ bufs[s].frozen
  /\ bufs' = [bufs EXCEPT ![s].frozen = FALSE]
  /\ UNCHANGED <<conn, sock, fault, env>>

Next ==
  \/ \E s \in Sockets :
       \/ AllocSocket(s) \/ AllocAdditionalSocket(s) \/ FreeSocket(s)
       \/ ReallocSocket(s) \/ PutBytes(s) \/ Flush(s) \/ Freeze(s) \/ Unfreeze(s)
  \/ NegotiateMars

Spec == Init /\ [][Next]_vars

-----------------------------------------------------------------------------
TypeOK ==
  /\ C!TypeOK
  /\ env \in [block_size: Nat, mars: BOOLEAN]
  /\ bufs \in [Sockets -> SessBuf]

(* Connection's properties, over the composed behaviours *)
SlotTableConsistent == C!SlotTableConsistent
ConnectionOutlivesSessions == C!ConnectionOutlivesSessions
NoNullDereference == C!NoNullDereference

(***************************************************************************)
(* Every live session's pending output fits its buffer, and the buffer    *)
(* fits its packet: out_pos <= out_buf_max, and data_start + out_buf_max + *)
(* TDS_ADDITIONAL_SPACE <= capacity.  Breaks if tds_realloc_socket shrinks *)
(* out_buf_max under pending output, or sizes the packet without the SMP  *)
(* header that data_start now skips, or a secondary session is laid out   *)
(* past the packet tds_alloc_additional_socket allocated.                 *)
(***************************************************************************)
OutputFitsBuffer ==
  \A s \in sock.live :
    /\ bufs[s].out_pos <= bufs[s].out_buf_max
    /\ bufs[s].pkt.data_start + bufs[s].out_buf_max + TDS_ADDITIONAL_SPACE
         <= bufs[s].pkt.capacity

====
