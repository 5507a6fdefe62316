CONSTANTS
    a = a
    b = b
    MaxNodes = 6
    Inputs <- MCInputs
    Strings <- MCStrings
    Conditions <- MCConditions
    Payloads <- MCPayloads
    Signatures <- MCSignatures

SPECIFICATION Spec

INVARIANTS
    TypeOK
    OutcomesExact
    FailuresDeclared

\* Lowering ends.
CHECK_DEADLOCK FALSE
