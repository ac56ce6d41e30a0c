\* Two callers of the same task, each dying, retrying and calling again.
CONSTANTS
    c1 = c1
    c2 = c2
    g = g
    t = t
    Callers = {c1, c2}
    Goal = g
    Task = t
    NoGoal = NoGoal
    Times <- MCNow
    TaskShapes <- MCGatedShape
SYMMETRY MCSymmetry
SPECIFICATION Spec
INVARIANTS
    DispatchedBeforeInvoked
    SuccessIsReal
    NeverReinvoked
    ReportedIsDurable
