-------------------------------- MODULE Loop --------------------------------
(***************************************************************************)
(* Unrolling a counted loop at compile time (loopSpecification and the     *)
(* ForStatement case of compileStatements), next to the same loop run by a *)
(* JavaScript engine, whose counter is a double.                           *)
(*                                                                         *)
(* The compiler counts in bigints, never rounds and takes the direction of *)
(* the loop from its step; the engine rounds and evaluates the condition.  *)
(***************************************************************************)
EXTENDS Doubles, Sequences

CONSTANTS
    MaxIterations,  \* 32 in the code
    Loops           \* the loops a source may contain

\* let i = start; i < end (<= if inclusive, > or >= if descending); i += step
LoopSpecification ==
    [start: Int, end: Int, step: Int, ascending: BOOLEAN, inclusive: BOOLEAN]

ASSUME LoopAssumption ==
    /\ MaxIterations \in Nat
    /\ Loops \subseteq LoopSpecification

VARIABLES
    spec,       \* the loop
    pc,         \* "parsed", "unrolling", "accepted" or "rejected"
    value,      \* the induction value about to be tested
    iterations, \* the induction values unrolled so far
    counter,    \* the engine's counter
    ran         \* the counters the engine has run the body with

loopVars == <<spec, pc, value, iterations, counter, ran>>

\* The compiler takes the direction from the sign of the step.
Test(v) ==
    IF spec.step > 0
      THEN IF spec.inclusive THEN v <= spec.end ELSE v < spec.end
      ELSE IF spec.inclusive THEN v >= spec.end ELSE v > spec.end

\* The condition as it is written, which the engine evaluates.
Continues(v) ==
    IF spec.ascending
      THEN IF spec.inclusive THEN v <= spec.end ELSE v < spec.end
      ELSE IF spec.inclusive THEN v >= spec.end ELSE v > spec.end

\* Mutant of Canonical: a step against the condition is let through.
CanonicalAnyDirection(s) == Safe(s.start) /\ Safe(s.end) /\ Safe(s.step) /\ s.step # 0

\* What loopSpecification lets through, literalInteger's check included.
Canonical(s) ==
    /\ Safe(s.start) /\ Safe(s.end) /\ Safe(s.step)
    /\ s.step # 0
    /\ s.ascending <=> s.step > 0

\* A loop is never unrolled beyond the limit.
LoopTypeOK ==
    /\ spec \in Loops
    /\ pc \in {"parsed", "unrolling", "accepted", "rejected"}
    /\ value \in Int
    /\ iterations \in Seq(Int)
    /\ Len(iterations) <= MaxIterations
    /\ counter \in Int
    /\ ran \in Seq(Int)

LoopInit ==
    /\ spec \in Loops
    /\ pc = "parsed"
    /\ value = spec.start
    /\ iterations = << >>
    /\ counter = spec.start
    /\ ran = << >>

Specify ==
    /\ pc = "parsed"
    /\ pc' = IF Canonical(spec) THEN "unrolling" ELSE "rejected"
    /\ UNCHANGED <<spec, value, iterations, counter, ran>>

\* Mutant of Unrollable: no limit on the iterations.
UnrollableWithoutLimit == Safe(value) /\ Safe(value + spec.step)

\* Mutant of Unrollable: one iteration too few.
UnrollableOneFewer ==
    /\ Len(iterations) + 1 # MaxIterations
    /\ Safe(value)
    /\ Safe(value + spec.step)

Unrollable ==
    /\ Len(iterations) # MaxIterations
    /\ Safe(value)
    /\ Safe(value + spec.step)

Unroll ==
    /\ pc = "unrolling"
    /\ Test(value)
    /\ IF Unrollable
         THEN /\ iterations' = Append(iterations, value)
              /\ value' = value + spec.step
              /\ UNCHANGED pc
         ELSE /\ pc' = "rejected"
              /\ UNCHANGED <<iterations, value>>
    /\ UNCHANGED <<spec, counter, ran>>

Accept ==
    /\ pc = "unrolling"
    /\ ~Test(value)
    /\ pc' = "accepted"
    /\ UNCHANGED <<spec, value, iterations, counter, ran>>

(***************************************************************************)
(* The engine runs the body once more and updates its counter.  Only what  *)
(* it does with accepted loops matters; the last guard is a bound that an  *)
(* engine in step with the compiler never meets.                           *)
(***************************************************************************)
Run ==
    /\ pc = "accepted"
    /\ Continues(counter)
    /\ Len(ran) <= MaxIterations
    /\ ran' = Append(ran, counter)
    /\ counter' = Round(counter + spec.step)
    /\ UNCHANGED <<spec, pc, value, iterations>>

LoopNext == Specify \/ Unroll \/ Accept \/ Run

LoopSpec == LoopInit /\ [][LoopNext]_loopVars

\* The compiler and the engine keep running.
FairLoopSpec == LoopSpec /\ WF_loopVars(LoopNext)

-----------------------------------------------------------------------------
(* Properties.                                                             *)

(***************************************************************************)
(* The engine runs an accepted loop with the induction values the compiler *)
(* substituted, in that order, and leaves it after the last of them.       *)
(***************************************************************************)
UnrollingExact ==
    pc = "accepted" =>
        /\ Len(ran) <= Len(iterations)
        /\ \A k \in 1..Len(ran) : ran[k] = iterations[k]
        /\ Continues(counter) <=> Len(ran) < Len(iterations)

\* How often a loop runs, in closed form.
Count ==
    LET distance == IF spec.step > 0 THEN spec.end - spec.start
                                     ELSE spec.start - spec.end
        span     == IF spec.inclusive THEN distance + 1 ELSE distance
        stride   == IF spec.step > 0 THEN spec.step ELSE -spec.step
    IN  IF span <= 0 THEN 0 ELSE (span + stride - 1) \div stride

(***************************************************************************)
(* A loop is accepted exactly when it is canonical, runs no more often than*)
(* the limit and leaves its counter safe: neither limit is off by one.     *)
(***************************************************************************)
AcceptsExactly ==
    LET acceptable == /\ Canonical(spec)
                      /\ Count <= MaxIterations
                      /\ Count > 0 => Safe(spec.start + Count * spec.step)
    IN  /\ pc = "accepted" => acceptable /\ Len(iterations) = Count
        /\ pc = "rejected" => ~acceptable

(***************************************************************************)
(* An accepted loop ends in the engine as well: it neither runs away from  *)
(* its bound nor stops moving where doubles become sparse.                 *)
(***************************************************************************)
LoopEnds == pc = "accepted" ~> ~Continues(counter)
=============================================================================
