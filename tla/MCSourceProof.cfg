CONSTANTS
    None = None
    MaxBits = 2
    MaxSafe = 3
    FailureTag = "E"
    Options <- MCOptions
    Declarations <- MCDeclarations
    ProofModules <- MCProofModules
    SourceFiles <- MCSourceFiles
    Intervals <- MCIntervals
    Candidates <- MCCandidates
    Probe <- MCProbe

SPECIFICATION SourceSpec

INVARIANTS
    IdentityHolds
    InputsAgree
    OutcomeExact
    NamesTold

\* Compilation ends.
CHECK_DEADLOCK FALSE
