------------------------------- MODULE CtBulk -------------------------------
(***************************************************************************)
(* The CT-Library chain a bulk copy sits at the end of: a context with its *)
(* locale (cs_ctx_alloc), a login initialised from that locale            *)
(* (ct_con_alloc), a connection opened with the login (ct_connect) and    *)
(* the bulk-copy descriptor of that connection (blk_alloc and the blk_*   *)
(* calls of Blk).  Each layer is released only after the one above it:    *)
(* blk_drop, ct_close, ct_con_drop, cs_ctx_drop.                          *)
(***************************************************************************)
EXTENDS Blk, LoginContext

VARIABLE
  connected  \* the connection of the login is open

ctvars == <<vars, lvars, connected>>

CtInit == Init /\ LInit /\ connected = FALSE

(***************************************************************************)
(* ct_connect: tds_connect_and_login refuses a login whose                 *)
(* valid_configuration is not set; the network is not modelled.           *)
(***************************************************************************)
CtConnect ==
  /\ ~connected /\ login.live /\ login.valid
  /\ connected' = TRUE
  /\ UNCHANGED <<vars, lvars>>

(* ct_close: the descriptor of the connection was dropped before *)
CtClose ==
  /\ connected /\ ~blk.allocated
  /\ connected' = FALSE
  /\ UNCHANGED <<vars, lvars>>

CtNext ==
  \/ (CsCtxAlloc \/ CtConAlloc \/ CsCtxDrop) /\ UNCHANGED <<vars, connected>>
  \/ ~connected /\ CtConDrop /\ UNCHANGED <<vars, connected>>
  \/ CtConnect \/ CtClose
  \/ connected /\ BlkAlloc /\ UNCHANGED <<lvars, connected>>
  \/ BlkOps /\ UNCHANGED <<lvars, connected>>

CtSpec == CtInit /\ [][CtNext]_ctvars
====
