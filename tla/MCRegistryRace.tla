--------------------------- MODULE MCRegistryRace ---------------------------
(* Model-checking instance of RegistryRace: two threads driving two        *)
(* sessions of one connection, two addresses for statements.               *)
EXTENDS RegistryRace

CONSTANTS t1, t2, d1, d2

MCThreads == {t1, t2}
MCDyns == {d1, d2}
=============================================================================
