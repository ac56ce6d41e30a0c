\* Two transactions and an editor on the same paths; any call fails, any
\* process dies.
CONSTANTS
    t1 = t1
    t2 = t2
    a = a
    b = b
    c = c
    Absent = Absent
    Base = Base
    Edited = Edited
    Txns = {t1, t2}
    Files = {a, b, c}
    Present = {a, c}
    Plan <- MCRivals
    MaxEdits = 1
SPECIFICATION FairSpec
\* Every transaction ends and nothing starts another: the model really stops.
CHECK_DEADLOCK FALSE
INVARIANTS
    TypeOK
    AllOrReported
    BaseStaysOnDisk
    NoResidue
    CreationsStand
PROPERTIES
    EveryTransactionEnds
