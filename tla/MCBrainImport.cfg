\* Three imports of one brain, retried or at once, and one of another, empty brain.
CONSTANTS
    big = big
    empty = empty
    x1 = x1
    x2 = x2
    x3 = x3
    y1 = y1
    NoBrain = NoBrain
    Brains = {big, empty}
    Imports = {x1, x2, x3, y1}
    Brain <- MCBrain
    Sections <- MCSections
    Skippable <- MCSkippable
    Invalid = {}
SYMMETRY MCSymmetry
SPECIFICATION ImportSpec
INVARIANTS
    MarkerIsActive
    ReadyIsWhole
    RetrySucceeds
