\* Three reviews of two held sources and one that is rejected, fetched and fed at any time.
CONSTANTS
    s1 = s1
    s2 = s2
    bad = bad
    p1 = p1
    p2 = p2
    p3 = p3
    r1 = r1
    r2 = r2
    r3 = r3
    NoSource = NoSource
    Sources = {s1, s2, bad}
    Spans <- MCSpans
    Limit = 2
    Authorities = {"owner", "automatic", "review"}
    Malformed = {bad}
    Reviews = {r1, r2, r3}
SYMMETRY MCSymmetry
SPECIFICATION ReviewSpec
INVARIANTS
    LearnedWasConfirmed
    ConfirmedIsLearned
PROPERTIES
    DecisionStands
