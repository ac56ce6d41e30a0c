--------------------------- MODULE MCWorkspacePatch ---------------------------
(* Instances of WorkspacePatch for TLC. *)
EXTENDS WorkspacePatch, TLC

CONSTANTS t1, t2, a, b, c

\* Two transactions planned on the same paths, with operations of each kind.
MCRivals == t1 :> << [path |-> a, kind |-> "replace"],
                     [path |-> b, kind |-> "create"],
                     [path |-> c, kind |-> "delete"] >>
         @@ t2 :> << [path |-> a, kind |-> "delete"],
                     [path |-> b, kind |-> "create"] >>
===============================================================================
