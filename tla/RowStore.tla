------------------------------ MODULE RowStore ------------------------------
(***************************************************************************)
(* The column / row store of a result info (src/tds/mem.c), for the store *)
(* tds->param_info: output parameters are appended one column at a time  *)
(* (tds_alloc_param_result), the last one removed again                   *)
(* (tds_free_param_result), each parameter's data allocated on its own    *)
(* (tds_alloc_param_data), and a row buffer laid out over the columns     *)
(* (tds_alloc_row); and the session's array of compute results           *)
(* tds->comp_info / num_comp_info, grown one entry per compute row format *)
(* (tds_alloc_compute_results).  tds_free_all_results frees both.         *)
(*                                                                         *)
(* A column is abstracted to its row_len (col->funcs->row_len(col)); the  *)
(* row layout is kept as row_size and the offsets of column_data in the   *)
(* row.  The token layer, which calls these functions, is outside src/    *)
(* and modelled from the specification.                                   *)
(***************************************************************************)
EXTENDS Integers, Sequences
LOCAL INSTANCE SequencesExt

CONSTANTS
  RowLens,         \* row_len values a column can have
  MaxCols,         \* bound on the number of parameters
  TDS_ALIGN_SIZE,  \* alignment of column data in a row
  FailingAllocs,   \* allocations that may fail in a run
  CompAddrs,       \* addresses a TDSCOMPUTEINFO may be allocated at
  Garbage,         \* an entry of comp_info that was never written
  ParamValues      \* values the token layer or a facade gives a parameter

Allocs == {"column", "param_info", "columns", "row", "param_data",
           "compute_info", "comp_array"}

ASSUME RowLens \subseteq Nat /\ MaxCols \in Nat /\ TDS_ALIGN_SIZE \in Nat \ {0}
       /\ FailingAllocs \subseteq Allocs /\ Garbage \notin CompAddrs

Outcomes(a) == IF a \in FailingAllocs THEN BOOLEAN ELSE {TRUE}

VARIABLES
  param_info,  \* tds->param_info is non-NULL
  store,       \* the TDSPARAMINFO object
  comp,        \* [arr: tds->comp_info # NULL, slots: its num_comp_info entries]
  comp_live,   \* the TDSCOMPUTEINFO objects allocated
  heap,        \* the blocks of parameter data allocated (see DataBlocks)
  double_free  \* a block of parameter data was freed twice or never allocated

vars == <<param_info, store, comp, comp_live, heap, double_free>>

NoComp == [arr |-> FALSE, slots |-> <<>>]

(***************************************************************************)
(* The value behind a parameter's column_data: none (NULL), plain bytes, a *)
(* TDSBLOB whose textvalue may be set, or a TDS_TVP (SYBMSTABLE) with      *)
(* schema, name, a metadata TDSPARAMINFO and a list of rows, each with a   *)
(* TDSPARAMINFO of its own; a TDSPARAMINFO is the sequence of its columns' *)
(* values.                                                                  *)
(***************************************************************************)
NoData == [kind |-> "none", text |-> FALSE, schema |-> FALSE, name |-> FALSE,
           has_meta |-> FALSE, meta |-> <<>>, rows |-> <<>>]

(***************************************************************************)
(* The blocks a value owns, named by their path from the column: "data"   *)
(* (column_data), "text" (blob->textvalue), "schema", "name", and for a   *)
(* TDSPARAMINFO at prefix p: p.pi (the struct), p.cols (columns array),   *)
(* p.k.col (column k) and the blocks of column k's value under p.k; a TVP *)
(* row r is the block "row", r and its params sit under "row", r, "params". *)
(***************************************************************************)
RECURSIVE DataBlocks(_, _), InfoBlocks(_, _)
DataBlocks(q, v) ==
  IF v.kind = "none" THEN {}
  ELSE {q \o <<"data">>}
       \cup (IF v.kind = "blob" /\ v.text THEN {q \o <<"text">>} ELSE {})
       \cup (IF v.kind = "table"
             THEN (IF v.schema THEN {q \o <<"schema">>} ELSE {})
                  \cup (IF v.name THEN {q \o <<"name">>} ELSE {})
                  \cup (IF v.has_meta THEN InfoBlocks(q \o <<"meta">>, v.meta) ELSE {})
                  \cup UNION {{q \o <<"row", r>>} \cup InfoBlocks(q \o <<"row", r, "params">>, v.rows[r])
                             : r \in DOMAIN v.rows}
             ELSE {})
InfoBlocks(p, cols) ==
  {p \o <<"pi">>} \cup (IF cols = <<>> THEN {} ELSE {p \o <<"cols">>})
  \cup UNION {{p \o <<k, "col">>} \cup DataBlocks(p \o <<k>>, cols[k]) : k \in DOMAIN cols}

StoreState ==
  [exists: BOOLEAN, cols: Seq(RowLens), data: Seq(ParamValues \cup {NoData}), row: BOOLEAN,
   row_free: BOOLEAN, row_size: Nat, offsets: Seq(Nat)]

NoStore == [exists |-> FALSE, cols |-> <<>>, data |-> <<>>, row |-> FALSE,
            row_free |-> FALSE, row_size |-> 0, offsets |-> <<>>]

(* one step of both loops of tds_alloc_row: add row_len, round up *)
AlignUp(r, len) ==
  LET t == r + len + (TDS_ALIGN_SIZE - 1) IN t - (t % TDS_ALIGN_SIZE)

(* the first loop of tds_alloc_row: row_size *)
RECURSIVE RowSizeLoop(_, _)
RowSizeLoop(cols, r) ==
  IF cols = <<>> THEN r ELSE RowSizeLoop(Tail(cols), AlignUp(r, Head(cols)))

(* the second loop: col->column_data = ptr + row_size, column by column *)
RECURSIVE ColumnDataLoop(_, _)
ColumnDataLoop(cols, r) ==
  IF cols = <<>> THEN <<>>
  ELSE <<r>> \o ColumnDataLoop(Tail(cols), AlignUp(r, Head(cols)))

(* Defect variant: the rounding adds TDS_ALIGN_SIZE instead of TDS_ALIGN_SIZE - 1. *)
tds_alloc_row_round_over(st, ok) ==
  LET Up(r, len) == LET t == r + len + TDS_ALIGN_SIZE IN t - (t % TDS_ALIGN_SIZE)
      RECURSIVE Size(_, _), Offs(_, _)
      Size(cs, r) == IF cs = <<>> THEN r ELSE Size(Tail(cs), Up(r, Head(cs)))
      Offs(cs, r) == IF cs = <<>> THEN <<>> ELSE <<r>> \o Offs(Tail(cs), Up(r, Head(cs)))
      sized == [st EXCEPT !.data = [k \in DOMAIN @ |-> NoData], !.row_size = Size(st.cols, 0)]
  IN IF ok THEN [sized EXCEPT !.row = TRUE, !.row_free = TRUE, !.offsets = Offs(st.cols, 0)]
     ELSE [sized EXCEPT !.row = FALSE]

(***************************************************************************)
(* tds_alloc_row: the first loop sets column_data_free = NULL on every    *)
(* column (the columns no longer own their data) and computes row_size;   *)
(* then the row is allocated (current_row is NULL when that fails), then  *)
(* row_free and the column_data of every column are set.                  *)
(***************************************************************************)
tds_alloc_row(st, ok) ==
  LET sized == [st EXCEPT !.data = [k \in DOMAIN @ |-> NoData],
                          !.row_size = RowSizeLoop(st.cols, 0)]
  IN IF ok THEN [sized EXCEPT !.row = TRUE, !.row_free = TRUE,
                              !.offsets = ColumnDataLoop(st.cols, 0)]
     ELSE [sized EXCEPT !.row = FALSE]

(* a fresh TDSPARAMINFO from TEST_MALLOC: calloc'ed, ref_count 1 *)
NewParamInfo == [NoStore EXCEPT !.exists = TRUE]

(* Defect variant: the Cleanup path frees param_info even when it is old_param. *)
tds_alloc_param_result_free_old(st, len, col_ok, info_ok, resize_ok) ==
  CASE st.exists /\ (st.row \/ st.row_free) -> [st |-> st, ok |-> FALSE]
    [] ~col_ok                              -> [st |-> st, ok |-> FALSE]
    [] ~st.exists /\ ~info_ok               -> [st |-> st, ok |-> FALSE]
    [] ~resize_ok                           -> [st |-> NoStore, ok |-> FALSE]
    [] OTHER ->
         LET p == IF st.exists THEN st ELSE NewParamInfo
         IN [st |-> [p EXCEPT !.cols = Append(@, len), !.data = Append(@, NoData)],
             ok |-> TRUE]

(***************************************************************************)
(* tds_alloc_param_result(old_param): refuses a store that has a row;     *)
(* allocates the column, then (old_param NULL) a new TDSPARAMINFO, then   *)
(* grows the columns array by one.  A failure frees what this call        *)
(* allocated and returns NULL, leaving old_param as it was.  `st` is the  *)
(* object old_param points to (exists is FALSE for NULL); the column's    *)
(* row_len stands for the type the token layer reads into it next.        *)
(***************************************************************************)
tds_alloc_param_result(st, len, col_ok, info_ok, resize_ok) ==
  CASE st.exists /\ (st.row \/ st.row_free) -> [st |-> st, ok |-> FALSE]
    [] ~col_ok                              -> [st |-> st, ok |-> FALSE]
    [] ~st.exists /\ ~info_ok               -> [st |-> st, ok |-> FALSE]
    [] ~resize_ok                           -> [st |-> st, ok |-> FALSE]
    [] OTHER ->
         LET p == IF st.exists THEN st ELSE NewParamInfo
         IN [st |-> [p EXCEPT !.cols = Append(@, len), !.data = Append(@, NoData)],
             ok |-> TRUE]

-----------------------------------------------------------------------------
(***************************************************************************)
(* Freeing parameter data.  Each operator gives the blocks one call frees, *)
(* in the order it frees them; q or p is the path of the column or of the  *)
(* TDSPARAMINFO.  The columns of a TVP's metadata and rows are parameters  *)
(* too, so their column_data_free is tds_param_free and the three          *)
(* functions recurse into each other.                                      *)
(***************************************************************************)
RECURSIVE tds_param_free(_, _), tds_deinit_tvp(_, _), TvpRowsLoop(_, _, _),
          tds_free_param_results(_, _), FreeResultsDataLoop(_, _, _)

(* Defect variant: a table-valued parameter is freed like plain data. *)
tds_param_free_no_deinit(q, v) ==
  IF v.kind = "none" THEN <<>>
  ELSE (IF v.kind = "blob" /\ v.text THEN <<q \o <<"text">>>> ELSE <<>>) \o <<q \o <<"data">>>>

(***************************************************************************)
(* tds_param_free(col): nothing when column_data is NULL; a SYBMSTABLE     *)
(* value is deinitialised with tds_deinit_tvp, a blob's textvalue freed;   *)
(* then column_data itself.                                                *)
(***************************************************************************)
tds_param_free(q, v) ==
  IF v.kind = "none" THEN <<>>
  ELSE (CASE v.kind = "table"          -> tds_deinit_tvp(q, v)
          [] v.kind = "blob" /\ v.text -> <<q \o <<"text">>>>
          [] OTHER                     -> <<>>)
       \o <<q \o <<"data">>>>

(***************************************************************************)
(* tds_deinit_tvp(table): free schema and name, tds_free_param_results of  *)
(* the metadata, then for each row tds_free_tvp_row (the row's params) and *)
(* the row itself.                                                          *)
(***************************************************************************)
tds_deinit_tvp(q, t) ==
  (IF t.schema THEN <<q \o <<"schema">>>> ELSE <<>>)
  \o (IF t.name THEN <<q \o <<"name">>>> ELSE <<>>)
  \o (IF t.has_meta THEN tds_free_param_results(q \o <<"meta">>, t.meta) ELSE <<>>)
  \o TvpRowsLoop(q, t.rows, 1)

TvpRowsLoop(q, rows, r) ==
  IF r > Len(rows) THEN <<>>
  ELSE tds_free_param_results(q \o <<"row", r, "params">>, rows[r])
       \o <<q \o <<"row", r>>>>
       \o TvpRowsLoop(q, rows, r + 1)

(* the first loop of tds_free_results: column_data_free of every column *)
FreeResultsDataLoop(p, cols, k) ==
  IF k > Len(cols) THEN <<>>
  ELSE tds_param_free(p \o <<k>>, cols[k]) \o FreeResultsDataLoop(p, cols, k + 1)

(***************************************************************************)
(* tds_free_param_results = tds_free_results on a TDSPARAMINFO whose       *)
(* ref_count is 1 and which has no row: the columns' data, then each      *)
(* column, the columns array and the struct.                               *)
(***************************************************************************)
tds_free_param_results(p, cols) ==
  FreeResultsDataLoop(p, cols, 1)
  \o [k \in 1 .. Len(cols) |-> p \o <<k, "col">>]
  \o (IF cols = <<>> THEN <<>> ELSE <<p \o <<"cols">>>>)
  \o <<p \o <<"pi">>>>

(* Defect variant: the column is freed but num_cols is not decremented. *)
tds_free_param_result_keep_count(st) ==
  IF ~st.exists \/ st.cols = <<>> THEN [st |-> st, frees |-> <<>>]
  ELSE [st |-> [st EXCEPT !.data = SubSeq(@, 1, Len(@) - 1)],
        frees |-> tds_param_free(<<Len(st.cols)>>, st.data[Len(st.cols)])]

(***************************************************************************)
(* tds_free_param_result: no-op when empty; otherwise the last column's    *)
(* data is freed by its column_data_free and the column dropped.           *)
(***************************************************************************)
tds_free_param_result(st) ==
  IF ~st.exists \/ st.cols = <<>> THEN [st |-> st, frees |-> <<>>]
  ELSE [st |-> [st EXCEPT !.cols = SubSeq(@, 1, Len(@) - 1), !.data = SubSeq(@, 1, Len(@) - 1)],
        frees |-> tds_param_free(<<Len(st.cols)>>, st.data[Len(st.cols)])]

(***************************************************************************)
(* tds_alloc_param_data(curparam): the old value is freed by its           *)
(* column_data_free, column_data_free becomes tds_param_free, and          *)
(* row_len bytes are malloc'ed into column_data (NULL when that fails).    *)
(* A blob or table value is zeroed; v is what the caller then stores in   *)
(* it (a facade builds a TVP's metadata and rows with                     *)
(* tds_alloc_param_result and tds_alloc_param_data).                      *)
(***************************************************************************)
tds_alloc_param_data(st, i, v, ok) ==
  [st |-> [st EXCEPT !.data[i] = IF ok THEN v ELSE NoData],
   frees |-> tds_param_free(<<i>>, st.data[i])]

(* Defect variant: a failed resize does not free the new compute info. *)
tds_alloc_compute_results_leak(c, live, a, info_ok, resize_ok) ==
  CASE ~info_ok   -> [comp |-> c, live |-> live, ok |-> FALSE]
    [] ~resize_ok -> [comp |-> c, live |-> live \cup {a}, ok |-> FALSE]
    [] OTHER      -> [comp |-> [arr |-> TRUE, slots |-> Append(c.slots, a)],
                      live |-> live \cup {a}, ok |-> TRUE]

(***************************************************************************)
(* tds_alloc_compute_results: allocate the compute info at `a`            *)
(* (tds_alloc_compute_result frees what it allocated when its column      *)
(* allocations fail), then TDS_RESIZE tds->comp_info to num_comp_info + 1  *)
(* (tds_realloc updates the pointer only on success: on failure the new   *)
(* info is freed and the array kept), store it in the new last entry and  *)
(* count it.  A resize of a NULL array is a fresh malloc, so entries below *)
(* num_comp_info are only written ones if num_comp_info is 0 then.         *)
(***************************************************************************)
tds_alloc_compute_results(c, live, a, info_ok, resize_ok) ==
  LET old == IF c.arr THEN c.slots ELSE [i \in 1 .. Len(c.slots) |-> Garbage]
  IN CASE ~info_ok   -> [comp |-> c, live |-> live, ok |-> FALSE]
       [] ~resize_ok -> [comp |-> c, live |-> live, ok |-> FALSE]
       [] OTHER      -> [comp |-> [arr |-> TRUE, slots |-> Append(old, a)],
                         live |-> live \cup {a}, ok |-> TRUE]

(* tds_free_compute_results: NULL the array and zero the count first, free *)
(* every non-NULL entry, and free the array when the count was non-zero.  *)
tds_free_compute_results(c, live) ==
  [comp |-> NoComp,
   live |-> live \ {c.slots[i] : i \in DOMAIN c.slots}]

-----------------------------------------------------------------------------
(* Actions of the token layer on tds->param_info and tds->comp_info. *)

Init ==
  /\ param_info = FALSE
  /\ store = NoStore
  /\ comp = NoComp
  /\ comp_live = {}
  /\ heap = {}
  /\ double_free = FALSE

(* free(): the blocks `frees` go back to the heap, `allocs` are taken *)
FreeBlocks(frees, allocs) ==
  /\ double_free' = (double_free \/ ~IsInjective(frees) \/ ~(ToSet(frees) \subseteq heap))
  /\ heap' = (heap \ ToSet(frees)) \cup allocs

(* a parameter token: tds->param_info = tds_alloc_param_result(...) unless NULL *)
AppendParam(len) ==
  /\ Len(store.cols) < MaxCols
  /\ \E col_ok \in Outcomes("column"), info_ok \in Outcomes("param_info"),
        resize_ok \in Outcomes("columns") :
       LET r == tds_alloc_param_result(store, len, col_ok, info_ok, resize_ok)
       IN /\ store' = r.st
          /\ param_info' = (r.ok \/ param_info)
  /\ UNCHANGED <<comp, comp_live, heap, double_free>>

(* the parameter's value v: tds_alloc_param_data(curparam), then filled *)
ParamData(i, v) ==
  /\ store.exists /\ ~store.row_free
  /\ \E ok \in Outcomes("param_data") :
       LET r == tds_alloc_param_data(store, i, v, ok)
       IN /\ store' = r.st
          /\ FreeBlocks(r.frees, DataBlocks(<<i>>, r.st.data[i]))
  /\ UNCHANGED <<param_info, comp, comp_live>>

(* reading the parameter failed: tds_free_param_result(param_info) *)
DropLastParam ==
  /\ store.exists /\ ~store.row_free
  /\ LET r == tds_free_param_result(store)
     IN store' = r.st /\ FreeBlocks(r.frees, {})
  /\ UNCHANGED <<param_info, comp, comp_live>>

(***************************************************************************)
(* a parameter row (TDS 5 params): tds_alloc_row(param_info) once, on the *)
(* columns a parameter format token described, which carry no data yet.    *)
(***************************************************************************)
AllocRow ==
  /\ store.exists /\ ~store.row_free
  /\ \A i \in DOMAIN store.data : store.data[i] = NoData
  /\ \E ok \in Outcomes("row") : store' = tds_alloc_row(store, ok)
  /\ UNCHANGED <<param_info, comp, comp_live, heap, double_free>>

(* a compute row format: tds_alloc_compute_results(tds, ...) *)
AllocCompute ==
  \E a \in CompAddrs \ comp_live, info_ok \in Outcomes("compute_info"),
    resize_ok \in Outcomes("comp_array") :
      LET r == tds_alloc_compute_results(comp, comp_live, a, info_ok, resize_ok)
      IN /\ comp' = r.comp
         /\ comp_live' = r.live
         /\ UNCHANGED <<param_info, store, heap, double_free>>

(***************************************************************************)
(* tds_free_all_results, on the parts of the session kept here:           *)
(* tds_free_param_results(tds->param_info), tds->param_info = NULL, and   *)
(* tds_free_compute_results(tds).                                          *)
(***************************************************************************)
FreeAllResults ==
  LET r == tds_free_compute_results(comp, comp_live)
  IN /\ FreeBlocks(IF store.exists THEN FreeResultsDataLoop(<<>>, store.data, 1) ELSE <<>>, {})
     /\ store' = NoStore
     /\ param_info' = FALSE
     /\ comp' = r.comp
     /\ comp_live' = r.live

Next ==
  \/ \E len \in RowLens : AppendParam(len)
  \/ \E i \in 1 .. MaxCols, v \in ParamValues : i \in DOMAIN store.cols /\ ParamData(i, v)
  \/ DropLastParam
  \/ AllocRow
  \/ AllocCompute
  \/ FreeAllResults

Spec == Init /\ [][Next]_vars

-----------------------------------------------------------------------------
TypeOK ==
  /\ param_info \in BOOLEAN
  /\ store \in StoreState
  /\ Len(store.data) = Len(store.cols)
  /\ comp \in [arr: BOOLEAN, slots: Seq(CompAddrs \cup {Garbage})]
  /\ comp_live \subseteq CompAddrs
  /\ double_free \in BOOLEAN

(***************************************************************************)
(* tds->param_info points to the parameter store exactly while it exists: *)
(* a failed tds_alloc_param_result neither frees the caller's store       *)
(* (dangling tds->param_info) nor leaves a store it created allocated.    *)
(***************************************************************************)
ParamInfoOwned == param_info = store.exists

(* Reference layout: each column takes its row_len rounded up to the alignment. *)
Pad(len) == ((len + TDS_ALIGN_SIZE - 1) \div TDS_ALIGN_SIZE) * TDS_ALIGN_SIZE
PaddedSum(cols) == FoldLeft(LAMBDA acc, len : acc + Pad(len), 0, cols)

(***************************************************************************)
(* The row tds_alloc_row lays out is the closed form: column i starts at  *)
(* the padded sum of the columns before it and row_size is the padded sum *)
(* of all (specification 8: the same sizes and offsets on every run).     *)
(***************************************************************************)
RowLayoutMatchesReference ==
  store.row =>
    /\ store.row_size = PaddedSum(store.cols)
    /\ store.offsets = [i \in 1 .. Len(store.cols) |-> PaddedSum(SubSeq(store.cols, 1, i - 1))]

(***************************************************************************)
(* tds->comp_info holds exactly the allocated compute infos, each once,   *)
(* and num_comp_info entries that were all written: the array is non-NULL *)
(* exactly when num_comp_info > 0 (tds_free_compute_results frees it only *)
(* then), no entry is uninitialised or freed, and a failed grow neither    *)
(* leaks the new info nor loses the old ones.                              *)
(***************************************************************************)
(***************************************************************************)
(* Every block of parameter data is freed exactly once: the blocks        *)
(* allocated are exactly those the store's columns own through            *)
(* column_data_free, so tds_free_param_result, tds_alloc_param_data and   *)
(* tds_free_all_results free a table-valued parameter's schema, name,     *)
(* metadata and rows (tds_param_free -> tds_deinit_tvp ->                 *)
(* tds_free_param_results -> tds_param_free) and a blob's textvalue, and   *)
(* nothing is freed twice.                                                 *)
(***************************************************************************)
ParamDataOwned ==
  /\ ~double_free
  /\ heap = UNION {DataBlocks(<<i>>, store.data[i]) : i \in DOMAIN store.data}

CompInfoOwned ==
  /\ comp.arr = (comp.slots # <<>>)
  /\ \A i \in DOMAIN comp.slots : comp.slots[i] \in comp_live
  /\ \A i, j \in DOMAIN comp.slots : i # j => comp.slots[i] # comp.slots[j]
  /\ comp_live = {comp.slots[i] : i \in DOMAIN comp.slots}
====
