----------------------------- MODULE MCRowStore -----------------------------
(* Model values for RowStore. *)
EXTENDS RowStore

(* row_len values: empty, below, at and above the alignment *)
MCRowLens == {0, 1, 4, 5}

MCAllAllocs == {"column", "param_info", "columns", "row", "param_data",
                "compute_info", "comp_array"}

CONSTANTS a1, a2

(* two compute info addresses: the array grows to two entries *)
MCCompAddrs == {a1, a2}

(* parameter values: a blob with its textvalue, and a TVP with schema and *)
(* name, one metadata column and one row of one blob column               *)
MCBlob == [NoData EXCEPT !.kind = "blob", !.text = TRUE]
MCTvp == [NoData EXCEPT !.kind = "table", !.schema = TRUE, !.name = TRUE,
                        !.has_meta = TRUE, !.meta = <<NoData>>, !.rows = <<<<MCBlob>>>>]
MCParamValues == {MCBlob, MCTvp}
====
