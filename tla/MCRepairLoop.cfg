\* A TypeScript workspace: two hypotheses, one of them a code action, the least ceiling, somebody else's edit.
CONSTANTS
    Hypotheses = {h1, h2}
    CodeActions = {h2}
    Diagnostics <- MCDiagnostics
    Unavailable <- MCUnavailable
    Verifier = "tsc"
    Ceiling = 4
    MaxWall = 1
    Other = other
    Lost = lost
    None = None
SPECIFICATION Spec
INVARIANTS
    ReturnedIsApplied
    RepairsConverge
PROPERTIES
    NoPatchTwice
