------------------------------ MODULE Lowering ------------------------------
(***************************************************************************)
(* compileExpression of packages/typescript: the lowering of one source    *)
(* expression to a term, bottom up, with the interval analysis that keeps  *)
(* arithmetic inside JavaScript's safe integers.                           *)
(*                                                                         *)
(* The source tree is chosen as it is compiled: each step is the return of *)
(* one compile function, and the stack holds the terms its callers still   *)
(* wait to combine.  Beside the interval the code computes, a term carries *)
(* what its expression is worth, for one choice of the inputs, to the      *)
(* solver (smt) and to a JavaScript engine running the source (js).        *)
(***************************************************************************)
EXTENDS Doubles, Sequences

CONSTANTS
    Literals,   \* values of numeric literals, some not safe
    Names,      \* identifiers a source may mention
    Scopes,     \* the scopes an expression may be compiled in
    MaxNodes    \* bound on the nodes of the expression

IntTerm(minimum, maximum, smt, js) ==
    [sort |-> "Int", minimum |-> minimum, maximum |-> maximum, smt |-> smt, js |-> js]

BoolTerm(smt, js) == [sort |-> "Bool", smt |-> smt, js |-> js]

Term == [sort: {"Int"}, minimum: Int, maximum: Int, smt: Int, js: Int]
        \cup [sort: {"Bool"}, smt: BOOLEAN, js: BOOLEAN]

\* An input inside its declared domain, the same to the solver and the engine.
Input == {t \in Term :
            /\ t.smt = t.js
            /\ t.sort = "Int" => /\ Safe(t.minimum) /\ Safe(t.maximum)
                                 /\ t.minimum <= t.smt /\ t.smt <= t.maximum}

Unbound == [sort |-> "Unbound"]

ASSUME LoweringAssumption ==
    /\ MaxNodes \in Nat
    /\ Literals \subseteq Int
    /\ \A scope \in Scopes : \A x \in Names : scope[x] = Unbound \/ scope[x] \in Input

VARIABLES
    inputs,     \* the scope: the term of every bound identifier
    stack,      \* the terms compiled and not yet combined
    rejected,   \* whether report() has thrown
    nodes       \* how many nodes have been compiled

vars == <<inputs, stack, rejected, nodes>>

\* Only terms of sort Int or Bool are ever compiled.
TypeOK ==
    /\ inputs \in Scopes
    /\ stack \in Seq(Term)
    /\ rejected \in BOOLEAN
    /\ nodes \in 0..MaxNodes

Init ==
    /\ inputs \in Scopes
    /\ stack = << >>
    /\ rejected = FALSE
    /\ nodes = 0

-----------------------------------------------------------------------------
(* One node: it consumes the n terms of its operands and leaves its own.   *)

\* The k-th of the last n terms.
Operand(n, k) == stack[Len(stack) - n + k]

Compile(n) ==
    /\ ~rejected
    /\ nodes < MaxNodes
    /\ Len(stack) >= n
    /\ nodes' = nodes + 1
    /\ UNCHANGED inputs

Leave(n, term) ==
    /\ stack' = Append(SubSeq(stack, 1, Len(stack) - n), term)
    /\ UNCHANGED rejected

Report == rejected' = TRUE /\ UNCHANGED stack

\* Mutant of LeaveIfSafe: only the upper bound is checked.
LeaveIfNotAbove(n, term) ==
    IF term.maximum <= MaxSafe THEN Leave(n, term) ELSE Report

\* checkSafeRange, on the interval of the term about to be returned
LeaveIfSafe(n, term) ==
    IF -MaxSafe <= term.minimum /\ term.maximum <= MaxSafe
      THEN Leave(n, term)
      ELSE Report

NumericLiteral(v) ==
    /\ Compile(0)
    /\ IF Safe(v) THEN Leave(0, IntTerm(v, v, v, v)) ELSE Report

BooleanLiteral(b) == Compile(0) /\ Leave(0, BoolTerm(b, b))

\* Mutant of Identifier: an unbound name is not reported.
IdentifierUnresolved(x) == Compile(0) /\ Leave(0, inputs[x])

Identifier(x) ==
    /\ Compile(0)
    /\ IF inputs[x] = Unbound THEN Report ELSE Leave(0, inputs[x])

\* Any other syntax.
Unsupported == Compile(0) /\ Report

LogicalNot ==
    /\ Compile(1)
    /\ LET t == Operand(1, 1)
       IN  IF t.sort = "Bool" THEN Leave(1, BoolTerm(~t.smt, ~t.js)) ELSE Report

UnaryPlus ==
    /\ Compile(1)
    /\ IF Operand(1, 1).sort = "Int" THEN Leave(1, Operand(1, 1)) ELSE Report

\* Lowered to 0 - x.
UnaryMinus ==
    /\ Compile(1)
    /\ LET t == Operand(1, 1)
       IN  IF t.sort = "Int"
             THEN LeaveIfSafe(1, IntTerm(-t.maximum, -t.minimum, 0 - t.smt, Round(-t.js)))
             ELSE Report

Conjunction ==
    /\ Compile(2)
    /\ LET l == Operand(2, 1)
           r == Operand(2, 2)
       IN  IF l.sort = "Bool" /\ r.sort = "Bool"
             THEN Leave(2, BoolTerm(l.smt /\ r.smt, IF l.js THEN r.js ELSE FALSE))
             ELSE Report

Disjunction ==
    /\ Compile(2)
    /\ LET l == Operand(2, 1)
           r == Operand(2, 2)
       IN  IF l.sort = "Bool" /\ r.sort = "Bool"
             THEN Leave(2, BoolTerm(l.smt \/ r.smt, IF l.js THEN TRUE ELSE r.js))
             ELSE Report

-----------------------------------------------------------------------------
(* Arithmetic and comparison, of two numeric operands.                     *)

Add(l, r) == IntTerm(l.minimum + r.minimum, l.maximum + r.maximum,
                     l.smt + r.smt, Round(l.js + r.js))

\* Mutant of Sub: the interval is combined as Add does.
SubLikeAdd(l, r) == IntTerm(l.minimum - r.minimum, l.maximum - r.maximum,
                            l.smt - r.smt, Round(l.js - r.js))

Sub(l, r) == IntTerm(l.minimum - r.maximum, l.maximum - r.minimum,
                     l.smt - r.smt, Round(l.js - r.js))

Products(l, r) == {l.minimum * r.minimum, l.minimum * r.maximum,
                   l.maximum * r.minimum, l.maximum * r.maximum}

Least(S) == CHOOSE m \in S : \A k \in S : m <= k

Greatest(S) == CHOOSE m \in S : \A k \in S : k <= m

Mul(l, r) == IntTerm(Least(Products(l, r)), Greatest(Products(l, r)),
                     l.smt * r.smt, Round(l.js * r.js))

Arithmetic ==
    /\ Compile(2)
    /\ LET l == Operand(2, 1)
           r == Operand(2, 2)
       IN  IF l.sort = "Int" /\ r.sort = "Int"
             THEN \E term \in {Add(l, r), Sub(l, r), Mul(l, r)} : LeaveIfSafe(2, term)
             ELSE Report

Comparisons(l, r) ==
    {BoolTerm(l.smt < r.smt, l.js < r.js), BoolTerm(l.smt <= r.smt, l.js <= r.js),
     BoolTerm(l.smt > r.smt, l.js > r.js), BoolTerm(l.smt >= r.smt, l.js >= r.js),
     BoolTerm(l.smt = r.smt, l.js = r.js), BoolTerm(l.smt # r.smt, l.js # r.js)}

Comparison ==
    /\ Compile(2)
    /\ LET l == Operand(2, 1)
           r == Operand(2, 2)
       IN  IF l.sort = "Int" /\ r.sort = "Int"
             THEN \E term \in Comparisons(l, r) : Leave(2, term)
             ELSE Report

(***************************************************************************)
(* compileConditional and mergeConditional, which statements use as well.  *)
(***************************************************************************)
LowerOf(x, y) == IF x < y THEN x ELSE y

UpperOf(x, y) == IF x > y THEN x ELSE y

Merge(c, t, f) ==
    IF t.sort = "Int"
      THEN IntTerm(LowerOf(t.minimum, f.minimum), UpperOf(t.maximum, f.maximum),
                   IF c.smt THEN t.smt ELSE f.smt, IF c.js THEN t.js ELSE f.js)
      ELSE BoolTerm(IF c.smt THEN t.smt ELSE f.smt, IF c.js THEN t.js ELSE f.js)

Conditional ==
    /\ Compile(3)
    /\ LET c == Operand(3, 1)
           t == Operand(3, 2)
           f == Operand(3, 3)
       IN  IF c.sort = "Bool" /\ t.sort = f.sort
             THEN IF t.sort = "Int" THEN LeaveIfSafe(3, Merge(c, t, f))
                                    ELSE Leave(3, Merge(c, t, f))
             ELSE Report

Next ==
    \/ \E v \in Literals : NumericLiteral(v)
    \/ \E b \in BOOLEAN : BooleanLiteral(b)
    \/ \E x \in Names : Identifier(x)
    \/ Unsupported
    \/ LogicalNot \/ UnaryPlus \/ UnaryMinus
    \/ Conjunction \/ Disjunction
    \/ Arithmetic \/ Comparison
    \/ Conditional

Spec == Init /\ [][Next]_vars

-----------------------------------------------------------------------------
(* Properties.                                                             *)

(***************************************************************************)
(* The interval of every accepted numeric term encloses its value and lies *)
(* within the safe integers.                                               *)
(***************************************************************************)
IntervalSound ==
    \A i \in 1..Len(stack) :
        LET t == stack[i]
        IN  t.sort = "Int" => /\ t.minimum <= t.smt /\ t.smt <= t.maximum
                              /\ -MaxSafe <= t.minimum /\ t.maximum <= MaxSafe

(***************************************************************************)
(* Every accepted term means to the solver what the source means to a      *)
(* JavaScript engine: no arithmetic step was rounded on the way, however   *)
(* the operations are nested.                                              *)
(***************************************************************************)
LoweringFaithful == \A i \in 1..Len(stack) : stack[i].smt = stack[i].js
=============================================================================
