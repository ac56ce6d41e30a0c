-------------------------- MODULE MCExecutiveJournal --------------------------
(* Instances of ExecutiveJournal for TLC. *)
EXTENDS ExecutiveJournal

CONSTANTS w1, w2, c1, c2, c3
===============================================================================
