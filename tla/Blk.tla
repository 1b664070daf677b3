-------------------------------- MODULE Blk --------------------------------
(***************************************************************************)
(* The CT-Library bulk-copy descriptor (src/ctlib/blk.c) over its          *)
(* TDSBCPINFO (tds_alloc_bcpinfo / tds_deinit_bcpinfo / tds_free_bcpinfo   *)
(* in src/tds/mem.c), for one descriptor of one connection.                *)
(*                                                                         *)
(* The descriptor's state: whether it exists, direction, table name set,  *)
(* whether bindinfo (the column descriptions tds_bcp_init fetches) is      *)
(* allocated, which columns are bound, bind_count, xfer_init, the identity *)
(* and hint properties.  The server side keeps whether a bulk copy is in   *)
(* progress and how many rows of the current batch were sent.             *)
(*                                                                         *)
(* tds_bcp_init, tds_bcp_start_copy_in, tds_bcp_send_record, tds_bcp_done, *)
(* tds_bcp_start and the bulk-out query live outside src/ and are modelled *)
(* from the specification: each succeeds or fails (FailingCalls), and the  *)
(* copy is in progress between a successful start and a done.             *)
(*                                                                         *)
(* The caller is the application through CT-Library.  With ContractOnly   *)
(* it calls blk_bind, blk_describe and blk_rowxfer only after a blk_init   *)
(* that succeeded and before blk_done(CS_BLK_ALL) or blk_drop (caller_ok), *)
(* otherwise in any order.                                                 *)
(***************************************************************************)
EXTENDS Integers

CONSTANTS
  NumCols,       \* columns of the target table
  MaxCount,      \* largest datafmt->count an application binds with
  MaxRows,       \* rows a batch may hold in a run
  FailingCalls,  \* calls that may fail in a run (see Calls)
  ContractOnly   \* the application keeps to the calling sequence above

CS_UNUSED == -99999
Cols == 1 .. NumCols
Calls == {"alloc", "tablename", "bcp_init", "start_copy_in", "send_record",
          "bcp_done", "bcp_start", "query"}

ASSUME NumCols \in Nat \ {0} /\ MaxCount \in Nat \ {0} /\ MaxRows \in Nat
       /\ FailingCalls \subseteq Calls /\ ContractOnly \in BOOLEAN

Outcomes(call) == IF call \in FailingCalls THEN BOOLEAN ELSE {TRUE}

VARIABLES
  blk,        \* the descriptor (CS_BLKDESC / TDSBCPINFO)
  server,     \* [copying: a bulk copy is in progress, sent: rows sent in this batch]
  caller_ok,  \* the application's blk_init succeeded and the descriptor is not done
  fault       \* a NULL pointer was dereferenced

vars == <<blk, server, caller_ok, fault>>

BlkState ==
  [allocated: BOOLEAN, direction: {"none", "in", "out"}, table: BOOLEAN,
   bindinfo: BOOLEAN, bound: [Cols -> BOOLEAN],
   bind_count: {CS_UNUSED} \cup 0 .. MaxCount, xfer_init: BOOLEAN,
   identity: BOOLEAN, hint: BOOLEAN]

Unbound == [c \in Cols |-> FALSE]

(* tds_alloc_bcpinfo: calloc, so direction 0, bind_count 0, no bindinfo *)
tds_alloc_bcpinfo ==
  [allocated |-> TRUE, direction |-> "none", table |-> FALSE, bindinfo |-> FALSE,
   bound |-> Unbound, bind_count |-> 0, xfer_init |-> FALSE,
   identity |-> FALSE, hint |-> FALSE]

(* tds_deinit_bcpinfo: free hint, table name, insert statement and bindinfo *)
tds_deinit_bcpinfo(b) ==
  [b EXCEPT !.hint = FALSE, !.table = FALSE, !.bindinfo = FALSE, !.bound = Unbound]

(* tds_free_bcpinfo: deinit, then free the descriptor *)
tds_free_bcpinfo(b) == [tds_deinit_bcpinfo(b) EXCEPT !.allocated = FALSE]

(* bindinfo->num_cols or bindinfo->columns[] would be read through NULL *)
NullBindinfo(b) == ~b.bindinfo

(***************************************************************************)
(* The CT-Library functions are transformers of a "world" record: the     *)
(* descriptor, the server side, the fault flag and the CS_RETCODE of the  *)
(* call.                                                                   *)
(***************************************************************************)
Mem == [blk |-> blk, server |-> server, fault |-> fault, ret |-> "none"]

Apply(w) == /\ blk' = w.blk
            /\ server' = w.server
            /\ fault' = w.fault

Ret(w, r) == [w EXCEPT !.ret = r]
Crash(w) == [w EXCEPT !.fault = TRUE, !.ret = "crash"]


(* Defect variant: the failure of tds_bcp_init is not reported. *)
blk_init_ignore_bcp_init(w, dir, named, copy_ok, init_ok) ==
  LET d == tds_deinit_bcpinfo(w.blk)
  IN IF dir = "none" \/ ~named THEN Ret(w, "fail")
     ELSE IF ~copy_ok THEN Ret([w EXCEPT !.blk = d], "fail")
     ELSE Ret([w EXCEPT !.blk = [d EXCEPT !.table = TRUE, !.direction = dir,
                                  !.bind_count = CS_UNUSED, !.xfer_init = FALSE,
                                  !.bindinfo = init_ok]], "succeed")

(***************************************************************************)
(* blk_init(direction, tablename): a bad direction ("none" stands for any *)
(* value other than CS_BLK_IN / CS_BLK_OUT) or a NULL or negative-length  *)
(* name fails before anything changes.  Otherwise the old bcpinfo is      *)
(* deinitialised and the name copied; a failed copy returns with          *)
(* direction, bind_count and xfer_init as they were.  Then the flags are  *)
(* reset and tds_bcp_init fetches the column descriptions into bindinfo   *)
(* (left NULL when it fails).                                              *)
(***************************************************************************)
blk_init(w, dir, named, copy_ok, init_ok) ==
  LET d == tds_deinit_bcpinfo(w.blk)
  IN IF dir = "none" \/ ~named THEN Ret(w, "fail")
     ELSE IF ~copy_ok THEN Ret([w EXCEPT !.blk = d], "fail")
     ELSE Ret([w EXCEPT !.blk = [d EXCEPT !.table = TRUE, !.direction = dir,
                                  !.bind_count = CS_UNUSED, !.xfer_init = FALSE,
                                  !.bindinfo = init_ok]],
              IF init_ok THEN "succeed" ELSE "fail")

(* Defect variant: clearing all bindings starts at the second column. *)
blk_bind_clear_all_from_one(w, item, shape, count) ==
  LET b  == w.blk
      bc == IF count = 0 THEN 1 ELSE count
  IN CASE item = CS_UNUSED /\ shape = "clear" /\ NullBindinfo(b) -> Crash(w)
       [] item = CS_UNUSED /\ shape = "clear" ->
            Ret([w EXCEPT !.blk.bind_count = CS_UNUSED,
                          !.blk.bound = [c \in Cols |-> c = 1 /\ @[c]]], "succeed")
       [] item = CS_UNUSED -> Ret(w, "succeed")
       [] NullBindinfo(b) -> Crash(w)
       [] item \notin Cols \/ shape = "nofmt" -> Ret(w, "fail")
       [] shape = "clear" -> Ret([w EXCEPT !.blk.bound[item] = FALSE], "succeed")
       [] b.bind_count # CS_UNUSED /\ b.bind_count # bc -> Ret(w, "fail")
       [] OTHER -> Ret([w EXCEPT !.blk.bind_count = bc, !.blk.bound[item] = TRUE], "succeed")

(***************************************************************************)
(* blk_bind(item, datafmt, buffer, datalen, indicator).  shape "clear":   *)
(* all four pointers NULL; "fmt": datafmt given; "nofmt": datafmt NULL    *)
(* but some other pointer given.  item CS_UNUSED with "clear" resets      *)
(* bind_count and unbinds every column of bindinfo; with anything else it *)
(* does nothing.  Any other item is range-checked against                 *)
(* bindinfo->num_cols.  The first binding fixes bind_count (count 0       *)
(* meaning 1); a later one with another count fails.                      *)
(***************************************************************************)
blk_bind(w, item, shape, count) ==
  LET b  == w.blk
      bc == IF count = 0 THEN 1 ELSE count
  IN CASE item = CS_UNUSED /\ shape = "clear" /\ NullBindinfo(b) -> Crash(w)
       [] item = CS_UNUSED /\ shape = "clear" ->
            Ret([w EXCEPT !.blk.bind_count = CS_UNUSED, !.blk.bound = Unbound], "succeed")
       [] item = CS_UNUSED -> Ret(w, "succeed")
       [] NullBindinfo(b) -> Crash(w)
       [] item \notin Cols \/ shape = "nofmt" -> Ret(w, "fail")
       [] shape = "clear" -> Ret([w EXCEPT !.blk.bound[item] = FALSE], "succeed")
       [] b.bind_count # CS_UNUSED /\ b.bind_count # bc -> Ret(w, "fail")
       [] OTHER -> Ret([w EXCEPT !.blk.bind_count = bc, !.blk.bound[item] = TRUE], "succeed")

(* blk_describe(item): range-checked against bindinfo->num_cols; reads only *)
blk_describe(w, item) ==
  CASE NullBindinfo(w.blk) -> Crash(w)
    [] item \notin Cols    -> Ret(w, "fail")
    [] OTHER               -> Ret(w, "succeed")

(* blk_props: BLK_IDENTITY sets identity_insert_on, BLK_HINTS the hint *)
blk_props(w, prop, val) ==
  IF prop = "identity" THEN Ret([w EXCEPT !.blk.identity = val], "succeed")
  ELSE Ret([w EXCEPT !.blk.hint = val], "succeed")

(***************************************************************************)
(* blk_done(type).  CS_BLK_BATCH: tds_bcp_done ends the batch, then        *)
(* tds_bcp_start begins the next one; either failing returns CS_FAIL, and  *)
(* xfer_init is left set.  CS_BLK_ALL: tds_bcp_done, then the bcpinfo is   *)
(* deinitialised and direction, bind_count and xfer_init reset.  Any      *)
(* other type does nothing.                                                *)
(***************************************************************************)
blk_done(w, type, done_ok, start_ok) ==
  LET ended == [copying |-> FALSE, sent |-> 0]
  IN CASE type = "batch" /\ done_ok ->
            Ret([w EXCEPT !.server = [ended EXCEPT !.copying = start_ok]],
                IF start_ok THEN "succeed" ELSE "fail")
       [] type = "all" /\ done_ok ->
            Ret([w EXCEPT !.server = ended,
                          !.blk = [tds_deinit_bcpinfo(w.blk) EXCEPT
                                     !.direction = "none", !.bind_count = CS_UNUSED,
                                     !.xfer_init = FALSE]], "succeed")
       [] type \in {"batch", "all"} -> Ret(w, "fail")
       [] OTHER -> Ret(w, "succeed")

(* rows_to_xfer: *row_count, or bind_count when row_count is NULL or 0; *)
(* the loops run max(rows_to_xfer, 0) times (CS_UNUSED is negative)      *)
RowsToXfer(b, row_count) ==
  LET n == IF row_count = 0 THEN b.bind_count ELSE row_count
  IN IF n > 0 THEN n ELSE 0

(* tds_bcp_send_record can succeed for a row only if every column is bound *)
AllBound(b) == \A c \in Cols : b.bound[c]

(* Defect variant: the row loop runs once more than rows_to_xfer. *)
_blk_rowxfer_in_extra_row(w, rows, start_ok, fails) ==
  LET b == w.blk
      started == IF b.xfer_init THEN w
                 ELSE [w EXCEPT !.blk.xfer_init = TRUE, !.server.copying = TRUE]
  IN CASE ~b.xfer_init /\ NullBindinfo(b) -> Crash(w)
       [] ~b.xfer_init /\ ~start_ok -> Ret(w, "fail")
       [] rows > 0 /\ NullBindinfo(b) -> Crash(w)
       [] OTHER -> Ret([started EXCEPT !.server.sent =
                          @ + (IF AllBound(b) THEN rows + 1 - fails ELSE 0)], "succeed")

(* Defect variant: xfer_init is set before the start result is checked. *)
_blk_rowxfer_in_init_on_failure(w, rows, start_ok, fails) ==
  LET b == w.blk
      started == IF b.xfer_init THEN w
                 ELSE [w EXCEPT !.blk.xfer_init = TRUE, !.server.copying = TRUE]
  IN CASE ~b.xfer_init /\ NullBindinfo(b) -> Crash(w)
       [] ~b.xfer_init /\ ~start_ok -> Ret([w EXCEPT !.blk.xfer_init = TRUE], "fail")
       [] rows > 0 /\ NullBindinfo(b) -> Crash(w)
       [] OTHER -> Ret([started EXCEPT !.server.sent =
                          @ + (IF AllBound(b) THEN rows - fails ELSE 0)], "succeed")

(***************************************************************************)
(* _blk_rowxfer_in: the first transfer after blk_init starts the copy      *)
(* (tds_bcp_start_copy_in, which builds the insert statement from          *)
(* bindinfo); a failed start returns CS_FAIL.  Then one tds_bcp_send_record *)
(* per row; `fails` rows fail conversion and are not sent, and the call    *)
(* returns CS_SUCCEED whatever they did.                                   *)
(***************************************************************************)
_blk_rowxfer_in(w, rows, start_ok, fails) ==
  LET b == w.blk
      started == IF b.xfer_init THEN w
                 ELSE [w EXCEPT !.blk.xfer_init = TRUE, !.server.copying = TRUE]
  IN CASE ~b.xfer_init /\ NullBindinfo(b) -> Crash(w)
       [] ~b.xfer_init /\ ~start_ok -> Ret(w, "fail")
       [] rows > 0 /\ NullBindinfo(b) -> Crash(w)
       [] OTHER -> Ret([started EXCEPT !.server.sent =
                          @ + (IF AllBound(b) THEN rows - fails ELSE 0)], "succeed")

(***************************************************************************)
(* _blk_rowxfer_out: the first transfer submits "select * from <table>"   *)
(* and reads up to the first row result (an empty table name makes the    *)
(* query fail at the server); the rows themselves only fill the user's    *)
(* buffers and are abstracted.                                             *)
(***************************************************************************)
_blk_rowxfer_out(w, rows, query_ok) ==
  CASE w.blk.xfer_init            -> Ret(w, "succeed")
    [] query_ok /\ w.blk.table    -> Ret([w EXCEPT !.blk.xfer_init = TRUE], "succeed")
    [] OTHER                      -> Ret(w, "fail")

(* blk_rowxfer / blk_rowxfer_mult: CS_BLK_IN goes in, anything else out *)
blk_rowxfer_mult(w, row_count, start_ok, fails, query_ok) ==
  LET rows == RowsToXfer(w.blk, row_count)
  IN IF w.blk.direction = "in" THEN _blk_rowxfer_in(w, rows, start_ok, fails)
     ELSE _blk_rowxfer_out(w, rows, query_ok)

-----------------------------------------------------------------------------
(* Actions: the application's CT-Library calls on the descriptor. *)

Init ==
  /\ blk = [tds_alloc_bcpinfo EXCEPT !.allocated = FALSE]
  /\ server = [copying |-> FALSE, sent |-> 0]
  /\ caller_ok = FALSE
  /\ fault = FALSE

(* the application may call an operation that needs a successful blk_init *)
MayUse == ContractOnly => caller_ok

Live == ~fault /\ blk.allocated

(* blk_alloc: the connection has a TDS 5.0+ session; the calloc may fail *)
BlkAlloc ==
  /\ ~fault
  /\ ~blk.allocated
  /\ \E ok \in Outcomes("alloc") : blk' = IF ok THEN tds_alloc_bcpinfo ELSE blk
  /\ UNCHANGED <<server, caller_ok, fault>>

BlkInit(dir, named) ==
  /\ Live
  /\ \E copy_ok \in Outcomes("tablename"), init_ok \in Outcomes("bcp_init") :
       LET w == blk_init(Mem, dir, named, copy_ok, init_ok)
       IN Apply(w) /\ caller_ok' = (w.ret = "succeed")

BlkBind(item, shape, count) ==
  /\ Live /\ MayUse
  /\ Apply(blk_bind(Mem, item, shape, count))
  /\ UNCHANGED caller_ok

BlkDescribe(item) ==
  /\ Live /\ MayUse
  /\ Apply(blk_describe(Mem, item))
  /\ UNCHANGED caller_ok

BlkProps(prop, val) ==
  /\ Live
  /\ Apply(blk_props(Mem, prop, val))
  /\ UNCHANGED caller_ok

(* the rows of one call must fit the batch bound MaxRows *)
BlkRowxfer(row_count) ==
  /\ Live /\ MayUse
  /\ server.sent + RowsToXfer(blk, row_count) <= MaxRows
  /\ \E start_ok \in Outcomes("start_copy_in"), query_ok \in Outcomes("query"),
        fails \in IF "send_record" \in FailingCalls
                  THEN 0 .. RowsToXfer(blk, row_count) ELSE {0} :
       Apply(blk_rowxfer_mult(Mem, row_count, start_ok, fails, query_ok))
  /\ UNCHANGED caller_ok

BlkDone(type) ==
  /\ Live
  /\ \E done_ok \in Outcomes("bcp_done"), start_ok \in Outcomes("bcp_start") :
       LET w == blk_done(Mem, type, done_ok, start_ok)
       IN Apply(w) /\ caller_ok' = (caller_ok /\ ~(type = "all" /\ w.ret = "succeed"))

(* blk_drop: tds_free_bcpinfo; a copy in progress is left to the session *)
BlkDrop ==
  /\ Live
  /\ blk' = tds_free_bcpinfo(blk)
  /\ caller_ok' = FALSE
  /\ UNCHANGED <<server, fault>>

(* every call on an allocated descriptor *)
BlkOps ==
  \/ \E dir \in {"in", "out", "none"}, named \in BOOLEAN : BlkInit(dir, named)
  \/ \E item \in {CS_UNUSED, 0} \cup Cols, shape \in {"clear", "fmt", "nofmt"},
        count \in 0 .. MaxCount : BlkBind(item, shape, count)
  \/ \E item \in {0} \cup Cols : BlkDescribe(item)
  \/ \E prop \in {"identity", "hints"}, val \in BOOLEAN : BlkProps(prop, val)
  \/ \E row_count \in 0 .. MaxRows : BlkRowxfer(row_count)
  \/ \E type \in {"batch", "all", "other"} : BlkDone(type)
  \/ BlkDrop

Next == BlkAlloc \/ BlkOps

Spec == Init /\ [][Next]_vars

-----------------------------------------------------------------------------
TypeOK ==
  /\ blk \in BlkState
  /\ server \in [copying: BOOLEAN, sent: 0 .. MaxRows]
  /\ caller_ok \in BOOLEAN
  /\ fault \in BOOLEAN

(***************************************************************************)
(* No call dereferences a NULL bindinfo: blk_bind, blk_describe and       *)
(* blk_rowxfer read bindinfo->num_cols / columns[] unchecked, so this     *)
(* holds only if bindinfo exists whenever the application may make them   *)
(* (after a blk_init that returned CS_SUCCEED, through any number of      *)
(* batches, until blk_done(CS_BLK_ALL)).                                   *)
(***************************************************************************)
NoNullDereference == ~fault

(***************************************************************************)
(* Whenever a column is bound, bind_count holds the row count it was      *)
(* bound with, so blk_rowxfer (row_count NULL) transfers that many rows   *)
(* and never the zero rows CS_UNUSED gives: clearing all bindings,        *)
(* blk_init and blk_done(CS_BLK_ALL) reset bind_count only together with  *)
(* the bindings.                                                           *)
(***************************************************************************)
BoundColumnsHaveRowCount ==
  (\E c \in Cols : blk.bound[c]) => blk.bind_count \in 1 .. MaxCount

(***************************************************************************)
(* _blk_rowxfer_in sends bulk rows only into a copy the server has        *)
(* started: xfer_init, which makes it skip tds_bcp_start_copy_in, must    *)
(* never outlive the copy (blk_done's restart, blk_init, a failed start). *)
(***************************************************************************)
RowsSentOnlyDuringCopy ==
  [][server'.sent > server.sent => server'.copying]_vars

====
