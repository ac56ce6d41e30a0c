\* Two requests with the same content run at once.
CONSTANTS
    c1 = c1
    c2 = c2
    g = g
    t = t
    Callers = {c1, c2}
    Goal = g
    Task = t
    NoGoal = NoGoal
    Times <- MCNow
    TaskShapes <- MCGatedShape
SPECIFICATION Spec
INVARIANTS
    InvokedOnce
