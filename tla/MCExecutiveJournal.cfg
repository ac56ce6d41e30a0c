\* Two writers, three commands of up to two events, one retry.
CONSTANTS
    w1 = w1
    w2 = w2
    c1 = c1
    c2 = c2
    c3 = c3
    Writers = {w1, w2}
    Commands = {c1, c2, c3}
    MaxConflictRetries = 1
    MaxEvents = 2
    NoWriter = NoWriter
    NoCommand = NoCommand
SPECIFICATION FairSpec
INVARIANTS
    SerialLog
    AcknowledgedIsDurable
PROPERTIES
    ExhaustedMeansContention
    EveryDispatchEnds
