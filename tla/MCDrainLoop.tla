---------------------------- MODULE MCDrainLoop ----------------------------
(* Small instances of DrainLoop for TLC. *)
EXTENDS DrainLoop

CONSTANTS c1, c2
=============================================================================
