------------------------------ MODULE Program ------------------------------
(***************************************************************************)
(* The verification program the frontends hand to a backend: the immutable *)
(* IR of packages/core, and what its verdict is supposed to mean.          *)
(*                                                                         *)
(* A formula is abstracted to the set of worlds in which it holds.  A world*)
(* fixes a value for every registered variable and, because SMT-LIB leaves *)
(* x div 0 unspecified, one interpretation of division by zero.            *)
(***************************************************************************)
EXTENDS Integers, Sequences

CONSTANTS
    Worlds,     \* every valuation of the registered variables
    Programs    \* the verification programs a backend may be given

(***************************************************************************)
(* A boolean expression, as far as a backend can tell expressions apart:   *)
(*   holds     the worlds in which it is true                              *)
(*   divisors  per divisor the collectors find, the worlds where it is 0   *)
(*   compiles  it mentions only registered variables, at their sorts       *)
(***************************************************************************)
Expression == [holds: SUBSET Worlds,
               divisors: SUBSET SUBSET Worlds,
               compiles: BOOLEAN]

(***************************************************************************)
(*   registers  the variables have distinct ids, known sorts, sane bounds  *)
(*   bounds     the worlds inside the bounds of every integer variable     *)
(***************************************************************************)
VerificationProgram == [registers: BOOLEAN,
                        bounds: SUBSET Worlds,
                        assumptions: SUBSET Expression,
                        assertions: Seq(Expression)]

ASSUME ProgramsAssumption == Programs \subseteq VerificationProgram

Assertions(p) == DOMAIN p.assertions

-----------------------------------------------------------------------------
(* What a verdict means.                                                   *)

\* The worlds a proof talks about: inside all bounds, under all assumptions.
Feasible(p) == {w \in p.bounds : \A a \in p.assumptions : w \in a.holds}

\* No divisor of the expression is zero in a feasible world.
Defined(p, e) == \A zeros \in e.divisors : zeros \cap Feasible(p) = {}

Proved(p, e) == Feasible(p) \subseteq e.holds

\* The programs a verdict may be given for.
Meaningful(p) ==
    /\ p.registers
    /\ p.assertions # << >>
    /\ \A a \in p.assumptions : a.compiles /\ a.divisors = {}
    /\ Feasible(p) # {}
    /\ \A i \in Assertions(p) :
          p.assertions[i].compiles /\ Defined(p, p.assertions[i])

-----------------------------------------------------------------------------
(* Outcomes and results, as packages/core declares them.                   *)

AssertionVerified(i) == [kind |-> "AssertionVerified", assertion |-> i]

AssertionFailed(i, w) ==
    [kind |-> "AssertionFailed", assertion |-> i, counterexample |-> w]

Outcome == [kind: {"AssertionVerified"}, assertion: Nat]
           \cup [kind: {"AssertionFailed"}, assertion: Nat,
                 counterexample: Worlds]

Pending == [kind |-> "Pending", assertions |-> << >>]

Error == [kind |-> "Error", assertions |-> << >>]

Result == [kind: {"Pending", "Error", "Verified", "Failed"},
           assertions: Seq(Outcome)]

\* The outcome o tells the truth about assertion i of program p.
Truthful(p, i, o) ==
    \/ o = AssertionVerified(i) /\ Proved(p, p.assertions[i])
    \/ \E w \in Feasible(p) \ p.assertions[i].holds : o = AssertionFailed(i, w)

Refuted(o) == o.kind = "AssertionFailed"
=============================================================================
