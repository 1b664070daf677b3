------------------------------ MODULE MCTdsMem ------------------------------
(* TdsMem with two sessions, one result info, one statement and one       *)
(* cursor address, one facade field of each, the session fields res_info *)
(* and comp_info, and a slot array of one slot per chunk so that a second *)
(* session grows it.                                                      *)
EXTENDS TdsMem

CONSTANTS p1, p2, r1, d1, c1, n1, hd1, hc1

MCSockets == {p1, p2}
MCResults == {r1}
MCSynFailure == {"syn"}
MCTwoSessFields == {"res", "comp"}
MCTruncate == [i \in 0 .. 1 |-> i]
====
