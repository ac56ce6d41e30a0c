\* Two tasks of one goal that can be rolled back under a decision that expires.
CONSTANTS
    g1 = g1
    t1 = t1
    t2 = t2
    Goals = {g1}
    Tasks = {t1, t2}
    NoGoal = NoGoal
    Times <- MCTimes
    TaskShapes <- MCRollbackShapes
SYMMETRY MCSymmetry
SPECIFICATION Spec
\* A closed episode accepts no command: the machine really stops.
CHECK_DEADLOCK FALSE
INVARIANTS
    StatusMatchesAttempt
    LearningMatchesAttempts
PROPERTIES
    ImplementsSaga
