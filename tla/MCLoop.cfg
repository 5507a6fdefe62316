CONSTANTS
    MaxSafe = 7
    MaxIterations = 3
    Round <- MCRound
    Loops <- MCLoops

SPECIFICATION FairLoopSpec

INVARIANTS
    LoopTypeOK
    UnrollingExact
    AcceptsExactly

PROPERTIES
    LoopEnds

\* Compilation and the loop end.
CHECK_DEADLOCK FALSE
