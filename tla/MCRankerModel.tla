----------------------------- MODULE MCRankerModel -----------------------------
(* Instances of RankerModel for TLC. *)
EXTENDS RankerModel, TLC

CONSTANTS i1, i2, ev, pr, im, le, foreign

MCKind ==
    i1 :> "init" @@ i2 :> "init" @@ ev :> "evaluate" @@ pr :> "promote"
    @@ im :> "import" @@ le :> "learn"
==============================================================================
