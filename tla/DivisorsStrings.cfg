\* div, eq, if, eq over leaves: x, x, div, x, lt, a, b, if, a, eq.
CONSTANT MaxNodes = 10

SPECIFICATION CollectorSpec

INVARIANTS
    CollectsEveryDivisor

CHECK_DEADLOCK FALSE
