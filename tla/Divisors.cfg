\* Eleven nodes: one more than an equality of Strings with a divisor inside a
\* conditional needs; divisors inside divisors come with fewer.
CONSTANT MaxNodes = 11

SPECIFICATION CollectorSpec

INVARIANTS
    CollectsOutsideStrings

\* The expression is as large as it may get.
CHECK_DEADLOCK FALSE
