\* Batches of two, at most four assertions: two full batches, or one and a half.
CONSTANTS
    u = u
    v = v
    MaxAssertions = 4
    BatchSize = 2
    Worlds <- MCWorlds
    Programs <- MCPrograms

SPECIFICATION FairSpec

INVARIANTS
    TypeOK
    QueryExact
    VerdictJustified
    ErrorJustified

PROPERTIES
    ImplementsVerdict
    Termination
