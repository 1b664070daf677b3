---------------------------- MODULE MCRegistry ----------------------------
(* Model-checking instance of Registry.  inc_num takes 3 values and the   *)
(* id loop makes 2 tries, so a generated id can collide with a listed one, *)
(* be retried, and the retries run out; the caller may also pass an id    *)
(* that tds_get_dynid produces.                                           *)
EXTENDS Registry

CONSTANTS d1, d2, c1, c2, u1, u2, n1, hd1, hd2, hc1, hc2

MCDyns == {d1, d2}
MCCursors == {c1, c2}
MCUserIds == {u1}
MCLongUserIds == {u1, u2}
MCCursorNames == {n1}
MCDynHandles == {hd1, hd2}
MCCursorHandles == {hc1, hc2}
\* all ids fit in TDS_MAX_DYNID_LEN: strlcpy copies them unchanged
ShortIds == [i \in (0 .. 2) \cup {u1} |-> i]
\* u2 is longer than TDS_MAX_DYNID_LEN - 1 and shares its stored prefix with u1
LongIds == [i \in (0 .. 2) \cup {u1, u2} |-> IF i = u2 THEN u1 ELSE i]
=============================================================================
