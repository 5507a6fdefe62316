CONSTANTS
    m = m
    e = e
    n = n
    Number = n
    None = None
    Words <- MCWords
    Commands <- MCCommands
    Modules <- MCModules

SPECIFICATION FairSpec

INVARIANTS
    ExitTellsVerdict
    VerdictEarned

PROPERTIES
    ProcessEnds
