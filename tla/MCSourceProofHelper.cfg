CONSTANTS
    None = None
    MaxBits = 2
    MaxSafe = 3
    FailureTag = "E"
    Options <- MCOptions
    Declarations <- MCDeclarations
    ProofModules <- MCHelperModules
    SourceFiles <- MCNamedFiles
    Intervals <- MCIntervals
    Candidates <- MCCandidates
    Probe <- MCProbe

SPECIFICATION SourceSpec

INVARIANTS
    IdentityFailsClosed

\* Compilation ends.
CHECK_DEADLOCK FALSE
