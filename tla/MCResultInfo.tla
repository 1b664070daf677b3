--------------------------- MODULE MCResultInfo ---------------------------
(* Model-checking instance of ResultInfo: two sessions, three result      *)
(* addresses (reused after free, as malloc does) and four owning fields. *)
EXTENDS ResultInfo

CONSTANTS s1, s2, r1, r2, r3, h1, h2, h3, h4

MCSessions == {s1, s2}
MCResults  == {r1, r2, r3}
MCHolders  == {h1, h2, h3, h4}

=============================================================================
