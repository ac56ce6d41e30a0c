\* A turn that two clients follow, lose and follow again, among other turns.
CONSTANTS
    t1 = t1
    c1 = c1
    c2 = c2
    Stream = Stream
    None = None
    Tasks = {t1}
    Clients = {c1, c2}
    Capacity = 1
    MaxOthers = 1
    MaxFrames = 3
SPECIFICATION FairSpec
\* A turn that is over and evicted is not created again: the model really stops.
CHECK_DEADLOCK FALSE
INVARIANTS
    FollowersAreCurrent
    VerdictsAgree
    DurableVerdictStands
PROPERTIES
    StreamsEnd
