------------------------- MODULE MCCapabilityDispatch -------------------------
(* Instances of CapabilityDispatch for TLC. *)
EXTENDS CapabilityDispatch, TLC

CONSTANTS g, t, c1, c2

MCNow == {1}

\* A task of which execution and compensation are gated.
MCGatedShape == {
    [rollback |-> "capability",
     pending |-> {<<"execution", "authority">>, <<"rollback", "approval">>}]}

MCSymmetry == Permutations(Callers)
===============================================================================
