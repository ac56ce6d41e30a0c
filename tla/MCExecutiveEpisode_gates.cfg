\* Two tasks in up to two goals, gated by decisions that expire.
CONSTANTS
    g1 = g1
    g2 = g2
    t1 = t1
    t2 = t2
    Goals = {g1, g2}
    Tasks = {t1, t2}
    NoGoal = NoGoal
    Times <- MCTimes
    TaskShapes <- MCGatedShapes
SYMMETRY MCSymmetry
SPECIFICATION Spec
\* A closed episode accepts no command: the machine really stops.
CHECK_DEADLOCK FALSE
INVARIANTS
    AttemptsAuthorized
    DependenciesFirst
PROPERTIES
    NoWorkAfterConclusion
