------------------------------- MODULE Syntax -------------------------------
(***************************************************************************)
(* The bodies of source functions, and the values they compute with.       *)
(*                                                                         *)
(* Expressions are names, the equality of two integers, conditionals and   *)
(* calls of Effect.succeed and Effect.fail: module Lowering has arithmetic *)
(* and the safe-integer intervals.  A loop is given by the induction values*)
(* it runs with, which module Loop accounts for.                           *)
(***************************************************************************)
EXTENDS Integers, Sequences

CONSTANTS
    Names,          \* the identifiers a function may use
    Expressions,    \* the expressions of the functions, with their parts
    Lists,          \* their lists of statements, with the lists inside them
    Height(_),      \* the height of an expression
    Size(_),        \* the number of statements a list stands for
    MaxSize         \* a bound of both

-----------------------------------------------------------------------------
(* Expressions.                                                            *)

Name(n) == [kind |-> "Name", name |-> n]

Equal(l, r) == [kind |-> "Equal", left |-> l, right |-> r]

Choose(c, t, f) == [kind |-> "Choose", condition |-> c, whenTrue |-> t, whenFalse |-> f]

Succeed(e) == [kind |-> "Succeed", payload |-> e]

Fail(tag) == [kind |-> "Fail", tag |-> tag]

Subexpressions(parts, e) ==
    \A part \in parts : part \in Expressions /\ Height(part) < Height(e)

IsExpression(e) ==
    \/ e.kind = "Name" /\ e.name \in Names
    \/ e.kind = "Equal" /\ Subexpressions({e.left, e.right}, e)
    \/ e.kind = "Choose" /\ Subexpressions({e.condition, e.whenTrue, e.whenFalse}, e)
    \/ e.kind = "Succeed" /\ Subexpressions({e.payload}, e)
    \/ e.kind = "Fail"

-----------------------------------------------------------------------------
(* Statements.                                                             *)

Const(n, e) == [kind |-> "Const", name |-> n, initializer |-> e]

Return(e) == [kind |-> "Return", expression |-> e]

Block(body) == [kind |-> "Block", body |-> body]

\* Without an else branch, orElse is empty.
If(c, then, orElse) ==
    [kind |-> "If", condition |-> c, then |-> then, orElse |-> orElse]

For(n, iterations, body) ==
    [kind |-> "For", name |-> n, iterations |-> iterations, body |-> body]

Unsupported == [kind |-> "Unsupported"]

Declared(statements) ==
    {statements[k].name : k \in {j \in DOMAIN statements : statements[j].kind = "Const"}}

\* The statements after the first iteration of the loop they begin with.
AfterIteration(statements) ==
    LET loop == Head(statements)
    IN  <<For(loop.name, Tail(loop.iterations), loop.body)>> \o Tail(statements)

Sublists(parts, list) == \A part \in parts : part \in Lists /\ Size(part) < Size(list)

\* What a list begins with.
IsStatement(s, list) ==
    \/ s.kind = "Const" /\ s.name \in Names /\ s.initializer \in Expressions
    \/ s.kind = "Return" /\ s.expression \in Expressions
    \/ s.kind = "Unsupported"
    \/ s.kind = "Block" /\ Sublists({s.body}, list)
    \/ s.kind = "If" /\ s.condition \in Expressions /\ Sublists({s.then, s.orElse}, list)
    \/ /\ s.kind = "For" /\ s.name \in Names /\ s.iterations \in Seq(Int)
       /\ s.iterations # << >> => Sublists({s.body, AfterIteration(list)}, list)

StatementsOf(lists) == UNION {{list[k] : k \in DOMAIN list} : list \in lists}

\* Source text is finite: its parts are smaller than the whole.
ASSUME SyntaxAssumption ==
    /\ MaxSize \in Nat
    /\ \A e \in Expressions : IsExpression(e) /\ Height(e) \in 0..MaxSize
    /\ Lists \subseteq Seq(StatementsOf(Lists))
    /\ \A list \in Lists :
          /\ Size(list) \in 0..MaxSize
          /\ list # << >> => Sublists({Tail(list)}, list) /\ IsStatement(Head(list), list)

-----------------------------------------------------------------------------
(* Values.                                                                 *)

Number(n) == <<"number", n>>

Boolean(b) == <<"boolean", b>>

Succeeds(value) == <<"succeeds", value>>

Fails(tag) == <<"fails", tag>>

Holds(value) == value = Boolean(TRUE)

Bind(scope, n, value) == [scope EXCEPT ![n] = value]
=============================================================================
