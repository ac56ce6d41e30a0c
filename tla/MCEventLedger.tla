---------------------------- MODULE MCEventLedger ----------------------------
(* Instances of EventLedger for TLC. *)
EXTENDS EventLedger, TLC

CONSTANTS u1, u2, w1, o1, o2

MCSymmetry == Permutations(Observers) \cup Permutations(Turns)
==============================================================================
