------------------------------ MODULE MCCtBulk ------------------------------
(* Model values for CtBulk: the failing calls of MCBlk and of the setup. *)
EXTENDS MCBlk, CtBulk

(* every step of context and login setup may fail *)
MCSetupFailures == SetupSteps
====
