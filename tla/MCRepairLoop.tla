----------------------------- MODULE MCRepairLoop -----------------------------
(* Instances of RepairLoop for TLC. *)
EXTENDS RepairLoop

D(id, kind, target) == [id |-> id, kind |-> kind, target |-> target]

MCUnavailable == D(0, "unavailable", TRUE)

\* Two diagnostics in the target, and one elsewhere under the name of two kinds.
MCDiagnostics ==
    {D(1, "a", TRUE), D(2, "a", TRUE), D(3, "a", FALSE), D(3, "b", FALSE), MCUnavailable}
===============================================================================
