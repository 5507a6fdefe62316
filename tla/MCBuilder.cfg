CONSTANTS
    main = main
    child = child
    a = a
    None = None
    MaxBits = 3
    MaxSafe = 7
    Fibers <- MCFibers
    Main = main
    Schemas <- MCSchemas
    MaxVariables = 2
    MaxConditions = 1

SPECIFICATION Spec

INVARIANTS
    TypeOK
    SymbolsDenote
    ProgramClosed
    ProgramConstrained
    InputsAccepted

\* Every fiber ends.
CHECK_DEADLOCK FALSE
