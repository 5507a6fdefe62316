CONSTANTS
    j1 = j1
    j2 = j2
    j3 = j3
    c1 = c1
    c2 = c2
    None = None
    Jobs <- MCJobs
    Unbounded <- MCUnbounded
    Closers <- MCClosers

SPECIFICATION FairSpec

INVARIANTS
    TypeOK
    Serialized
    ThreadsOutliveJobs

PROPERTIES
    ClosedAdmitsNothing
    ChainedSolved
    CloseTerminates
    ImplementsQueue

\* All calls made and answered: nothing is left to do.
CHECK_DEADLOCK FALSE
