\* Two turns and an ingestor of one kernel, which adds to a turn's buffer or commits
\* its own events together; two probes observe; every call may fail.
CONSTANTS
    u1 = u1
    u2 = u2
    w1 = w1
    o1 = o1
    o2 = o2
    None = None
    Turns = {u1, u2}
    Writers = {w1}
    Linked = {}
    Sharing = {w1}
    Bracketed = {w1}
    Observers = {o1, o2}
    MaxTime = 2
    MaxRank = 1
    Window = 2
    FullScanOnStart = FALSE
SYMMETRY MCSymmetry
SPECIFICATION Spec
INVARIANTS
    TypeOK
    ChainHasNoGap
    NothingLost
    NoFalseAlarm
