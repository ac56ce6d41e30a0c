\* Two inits, an evaluation, a promotion, an import and a turn overlap; each may die.
CONSTANTS
    i1 = i1
    i2 = i2
    ev = ev
    pr = pr
    im = im
    le = le
    None = None
    Foreign = foreign
    foreign = foreign
    Jobs = {i1, i2, ev, pr, im, le}
    Kind <- MCKind
SPECIFICATION Spec
INVARIANTS
    ApprovedIsEvaluated
    OneActive
PROPERTIES
    EveryCommandEnds
