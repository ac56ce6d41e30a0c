--------------------------- MODULE MCTurnTaskRegistry ---------------------------
(* Instances of TurnTaskRegistry for TLC. *)
EXTENDS TurnTaskRegistry

CONSTANTS t1, c1, c2
=================================================================================
