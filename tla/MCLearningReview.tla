---------------------------- MODULE MCLearningReview ----------------------------
(* Instances of LearningReview for TLC. *)
EXTENDS LearningReview, TLC

CONSTANTS s1, s2, bad, p1, p2, p3, r1, r2, r3

\* The first source has more spans than the limit, the second one as many.
MCSpans == s1 :> {p1, p2, p3} @@ s2 :> {p1, p2} @@ bad :> {p1}

MCSymmetry == Permutations({r1, r2, r3})
=================================================================================
