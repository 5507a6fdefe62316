CONSTANTS
    j1 = j1
    j2 = j2
    j3 = j3
    c1 = c1
    c2 = c2
    None = None
    Jobs <- MCJobs
    Unbounded <- MCUnbounded
    Closers <- MCClosers

SPECIFICATION FairSpec

INVARIANTS
    CloseCleansUp

CHECK_DEADLOCK FALSE
