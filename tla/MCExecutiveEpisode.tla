-------------------------- MODULE MCExecutiveEpisode --------------------------
(* Instances of ExecutiveEpisode for TLC. *)
EXTENDS ExecutiveEpisode, TLC

MCTimes == {1, 2}

\* A task that asks for nothing, and one that needs authority and approval.
MCGatedShapes == {
    [rollback |-> "none", pending |-> {}],
    [rollback |-> "none",
     pending |-> {<<"execution", "authority">>, <<"execution", "approval">>}]}

\* A task that runs freely and whose rollback needs authority.
MCRollbackShapes == {
    [rollback |-> "capability", pending |-> {<<"rollback", "authority">>}]}

MCSymmetry == Permutations(Tasks) \cup Permutations(Goals)
===============================================================================
