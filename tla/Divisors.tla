------------------------------ MODULE Divisors ------------------------------
(***************************************************************************)
(* collectIntDivisors and collectBoolDivisors of packages/z3, over the     *)
(* expressions the symbolic API can build.                                 *)
(*                                                                         *)
(* An expression is built bottom up, each step one constructor; the stack  *)
(* holds the expressions not yet used.  Of an expression only this is kept:*)
(*   sort       Bool, Int or String                                        *)
(*   occurring  the divisors anywhere in it, so in its translation to Z3   *)
(*   collected  the divisors the collector of its sort returns for it      *)
(*   hidden     the divisors that occur in a String subexpression          *)
(* A divisor is named by the number of the Div or Mod node it belongs to.  *)
(***************************************************************************)
EXTENDS Naturals, Sequences

CONSTANT MaxNodes       \* bound on the nodes of the expression

ASSUME MaxNodesAssumption == MaxNodes \in Nat

Sorts == {"Bool", "Int", "String"}

VARIABLES stack, nodes

collectorVars == <<stack, nodes>>

CollectorInit == stack = << >> /\ nodes = 0

-----------------------------------------------------------------------------

\* The k-th of the last n expressions.
Operand(n, k) == stack[Len(stack) - n + k]

Operands(n) == {Operand(n, k) : k \in 1..n}

Occurring(E) == UNION {e.occurring : e \in E}

Collected(E) == UNION {e.collected : e \in E}

Hidden(E) == UNION {e.hidden : e \in E}

Build(n, e) ==
    /\ nodes < MaxNodes
    /\ nodes' = nodes + 1
    /\ stack' = Append(SubSeq(stack, 1, Len(stack) - n), e)

\* A node whose collector descends into all of its operands.
Visited(sort, E) ==
    [sort |-> sort, occurring |-> Occurring(E),
     collected |-> Collected(E), hidden |-> Hidden(E)]

HasOperands(n, sort) ==
    /\ Len(stack) >= n
    /\ \A e \in Operands(n) : e.sort = sort

\* A literal or a variable.
Leaf(sort) == Build(0, Visited(sort, {}))

\* Add, Sub, Mul
Arithmetic == HasOperands(2, "Int") /\ Build(2, Visited("Int", Operands(2)))

\* Mutant of Division: the collector stops at the divisor.
DivisionNotDescended ==
    /\ HasOperands(2, "Int")
    /\ Build(2, [Visited("Int", Operands(2)) EXCEPT
                    !.occurring = @ \cup {nodes + 1},
                    !.collected = {nodes + 1}])

\* Div, Mod: the right operand is a divisor.
Division ==
    /\ HasOperands(2, "Int")
    /\ Build(2, [Visited("Int", Operands(2)) EXCEPT
                    !.occurring = @ \cup {nodes + 1},
                    !.collected = @ \cup {nodes + 1}])

Not == HasOperands(1, "Bool") /\ Build(1, Visited("Bool", Operands(1)))

\* And, Or
Logical == HasOperands(2, "Bool") /\ Build(2, Visited("Bool", Operands(2)))

\* Lt, Lte, Gt, Gte
Comparison == HasOperands(2, "Int") /\ Build(2, Visited("Bool", Operands(2)))

(***************************************************************************)
(* Equal, NotEqual.  The collector descends at sorts Bool and Int.  There  *)
(* is no collector for String expressions.                                 *)
(***************************************************************************)
Equality ==
    \E sort \in Sorts :
        /\ HasOperands(2, sort)
        /\ Build(2, [Visited("Bool", Operands(2)) EXCEPT
                        !.collected = IF sort = "String" THEN {} ELSE @])

(***************************************************************************)
(* If, at any sort.  Nothing collects from a String conditional, so its    *)
(* "collected" is never looked at; its divisors are hidden from here on.   *)
(***************************************************************************)
Conditional ==
    \E sort \in Sorts :
        /\ Len(stack) >= 3
        /\ Operand(3, 1).sort = "Bool"
        /\ Operand(3, 2).sort = sort /\ Operand(3, 3).sort = sort
        /\ Build(3, [Visited(sort, Operands(3)) EXCEPT
                        !.collected = IF sort = "String" THEN {} ELSE @,
                        !.hidden = IF sort = "String" THEN Occurring(Operands(3)) ELSE @])

CollectorNext ==
    \/ \E sort \in Sorts : Leaf(sort)
    \/ Arithmetic \/ Division
    \/ Not \/ Logical \/ Comparison \/ Equality
    \/ Conditional

CollectorSpec == CollectorInit /\ [][CollectorNext]_collectorVars

-----------------------------------------------------------------------------
(* Properties.                                                             *)

Expressions == {stack[i] : i \in 1..Len(stack)}

(***************************************************************************)
(* What the code does: the collectors of Bool and Int expressions return   *)
(* the divisors that occur in them, all but those inside a String.         *)
(***************************************************************************)
CollectsOutsideStrings ==
    \A e \in Expressions : e.collected = e.occurring \ e.hidden

(***************************************************************************)
(* What docs/soundness.md says of div and mod: "they are only allowed in   *)
(* assertions when every divisor is nonzero under all assumptions, and are *)
(* rejected inside assumptions".  Both checks see collected divisors only. *)
(***************************************************************************)
CollectsEveryDivisor ==
    \A e \in Expressions : e.sort = "Bool" => e.collected = e.occurring
=============================================================================
