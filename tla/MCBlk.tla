------------------------------- MODULE MCBlk -------------------------------
(* Model values for Blk: which of the calls outside src/ may fail. *)
EXTENDS Blk

(* every call may fail except tds_bcp_start's restart in blk_done *)
MCFailingNoRestart ==
  {"alloc", "tablename", "bcp_init", "start_copy_in", "send_record",
   "bcp_done", "query"}

(* only tds_bcp_start's restart in blk_done may fail *)
MCFailingRestart == {"bcp_start"}

(* nothing fails: the calling sequence alone *)
MCNoFailures == {}
====
