CONSTANTS
    None = None
    MaxBits = 2
    MaxSafe = 3
    Numbers <- MCNumbers
    Strings = {"x", "y", "z"}
    Refinements <- MCRefinements
    Unions <- MCUnions
    Keys <- MCKeys
    MaxNodes = 5

SPECIFICATION Spec

INVARIANTS
    LimitsExact
    RefusesExactlyEmpty
    DrawnFaithful

\* Translation ends.
CHECK_DEADLOCK FALSE
