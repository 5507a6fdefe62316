------------------------------ MODULE MCSolve ------------------------------
(***************************************************************************)
(* Small programs for Solve: two worlds, batches of two, up to four        *)
(* assertions, so that a call has full batches, a last batch of one, and   *)
(* proofs, refutations and errors in either of them.                       *)
(***************************************************************************)
EXTENDS Solve

CONSTANTS u, v, MaxAssertions

MCWorlds == {u, v}

Plain(holds) == [holds |-> holds, divisors |-> {}, compiles |-> TRUE]

MCExpressions == {
    Plain({u, v}),
    Plain({v}),
    [holds |-> {u}, divisors |-> {{}}, compiles |-> TRUE],
    [holds |-> {u, v}, divisors |-> {{}, {v}}, compiles |-> TRUE]}

Unknown == [holds |-> {u}, divisors |-> {}, compiles |-> FALSE]

UnknownDivisor == [holds |-> {v}, divisors |-> {{}}, compiles |-> FALSE]

MCAssumptions == {
    {},
    {Plain({u})},
    {Plain({u}), Plain({v})},
    {[holds |-> {u, v}, divisors |-> {{}}, compiles |-> TRUE]},
    {Unknown}}

SequencesUpTo(S, n) == UNION {[1..k -> S] : k \in 0..n}

MCPrograms ==
    [registers: {TRUE},
     bounds: {{v}, {u, v}},
     assumptions: MCAssumptions,
     assertions: SequencesUpTo(MCExpressions, MaxAssertions)]
    \cup
    [registers: {TRUE, FALSE},
     bounds: {{u, v}},
     assumptions: {{}},
     assertions: SequencesUpTo({Plain({u}), Unknown, UnknownDivisor}, MaxAssertions - 1)]
=============================================================================
