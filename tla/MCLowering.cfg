CONSTANTS
    x = x
    p = p
    z = z
    MaxSafe = 7
    MaxNodes = 6
    Literals = {1, 3, 8}
    Names <- MCNames
    Scopes <- MCScopes
    Round <- MCRound

SPECIFICATION Spec

INVARIANTS
    TypeOK
    IntervalSound
    LoweringFaithful

\* Compilation ends.
CHECK_DEADLOCK FALSE
