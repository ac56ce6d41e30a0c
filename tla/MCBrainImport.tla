----------------------------- MODULE MCBrainImport -----------------------------
(* Instances of BrainImport for TLC. *)
EXTENDS BrainImport, TLC

CONSTANTS big, empty, x1, x2, x3, y1

MCBrain == x1 :> big @@ x2 :> big @@ x3 :> big @@ y1 :> empty

MCSections == big :> 2 @@ empty :> 0

\* The first section is a concept graph in JSON, the second one a profile.
MCSkippable == big :> {2} @@ empty :> {}

MCSymmetry == Permutations({x1, x2, x3})
==============================================================================
