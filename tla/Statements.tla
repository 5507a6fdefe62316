----------------------------- MODULE Statements -----------------------------
(***************************************************************************)
(* compileStatements of packages/typescript: a function body becomes one   *)
(* term by passing every statement the term of what follows it.            *)
(***************************************************************************)
EXTENDS Syntax

CONSTANTS
    Parameters,     \* the sort of each parameter of the function, by name
    Valuations,     \* the arguments it may be called with, by name
    SuccessSort,    \* the sort of the success type it declares, if it returns an Effect
    ErrorTags       \* the members of the error type it declares

Universe(sort) == IF sort = "Int" THEN {"number"} \X Int ELSE {"boolean"} \X BOOLEAN

Effects == ({"succeeds"} \X Universe(SuccessSort)) \cup ({"fails"} \X ErrorTags)

ASSUME SignatureAssumption ==
    /\ DOMAIN Parameters \subseteq Names
    /\ \A n \in DOMAIN Parameters : Parameters[n] \in {"Int", "Bool"}
    /\ \A v \in Valuations :
          /\ DOMAIN v = DOMAIN Parameters
          /\ \A n \in DOMAIN v : v[n] \in Universe(Parameters[n])
    /\ SuccessSort \in {"Int", "Bool"}

-----------------------------------------------------------------------------
(* Terms: a value for every valuation, or no term at all.                  *)

Term(sort, value) == [sort |-> sort, value |-> value]

Terms ==
    [sort : {"Int"}, value : [Valuations -> Universe("Int")]]
    \cup [sort : {"Bool"}, value : [Valuations -> Universe("Bool")]]
    \cup [sort : {"Effect"}, value : [Valuations -> Effects]]

Undefined == [sort |-> "undefined"]

Rejected == [sort |-> "rejected"]

Results == Terms \cup {Undefined, Rejected}

IsTerm(t) == t.sort \in {"Int", "Bool", "Effect"}

Literal(n) == Term("Int", [v \in Valuations |-> Number(n)])

Equate(l, r) ==
    IF l.sort = "Int" /\ r.sort = "Int"
      THEN Term("Bool", [v \in Valuations |-> Boolean(l.value[v] = r.value[v])])
      ELSE Rejected

\* requireBool, the check for incomplete paths and mergeConditional
Merge(c, t, f) ==
    IF c.sort = "Bool" /\ IsTerm(t) /\ t.sort = f.sort
      THEN Term(t.sort, [v \in Valuations |-> IF Holds(c.value[v]) THEN t.value[v] ELSE f.value[v]])
      ELSE Rejected

-----------------------------------------------------------------------------
(* A scope has a term for each name declared so far.                       *)

Scopes == [Names -> Terms \cup {Undefined}]

InputScope ==
    [n \in Names |->
        IF n \in DOMAIN Parameters
          THEN Term(Parameters[n], [v \in Valuations |-> v[n]])
          ELSE Undefined]

\* The term of an expression, from the terms of its parts.
ExpressionFrom(term, e, scope) ==
    CASE e.kind = "Name" -> IF scope[e.name] = Undefined THEN Rejected ELSE scope[e.name]
      [] e.kind = "Equal" -> Equate(term[e.left], term[e.right])
      [] e.kind = "Choose" -> Merge(term[e.condition], term[e.whenTrue], term[e.whenFalse])
      [] e.kind \in {"Succeed", "Fail"} -> Rejected

CompileExpression(e, scope) ==
    LET term[s \in Expressions] == ExpressionFrom(term, s, scope) IN term[e]

(***************************************************************************)
(* compileStatements.  The fallback is the term of what runs after these   *)
(* statements, Undefined at the end of the function.  A rejection is an    *)
(* exception, so it wins even where its term would not be used.  Nothing is*)
(* compiled after a return.                                                *)
(***************************************************************************)
Unless(rest, term) == IF rest = Rejected THEN Rejected ELSE term

\* Mutant of FirstIteration: every iteration sees the last induction value.
LastIteration(loop) == Literal(loop.iterations[Len(loop.iterations)])

FirstIteration(loop) == Literal(Head(loop.iterations))

\* The term of a list of statements, from the terms of shorter ones.
StatementsFrom(compile, statements, scope, fallback, loopDepth) ==
    LET s == Head(statements)
        After(names) == compile[<<Tail(statements), names, fallback, loopDepth>>]
        Inner(body) == compile[<<body, scope, After(scope), loopDepth>>]
        \* The iterations are unrolled last one first: each falls through to the next.
        later == compile[<<AfterIteration(statements), scope, fallback, loopDepth>>]
        iteration == compile[<<s.body, Bind(scope, s.name, FirstIteration(s)), later, 1>>]
        local == CompileExpression(s.initializer, scope)
    IN  IF statements = << >>
          THEN fallback
          ELSE CASE s.kind = "Const" ->
                      IF scope[s.name] # Undefined \/ local = Rejected
                        THEN Rejected
                        ELSE After(Bind(scope, s.name, local))
                 [] s.kind = "Return" -> CompileExpression(s.expression, scope)
                 [] s.kind = "Unsupported" -> Rejected
                 [] s.kind = "Block" -> Unless(After(scope), Inner(s.body))
                 [] s.kind = "If" ->
                      Unless(After(scope), Merge(CompileExpression(s.condition, scope),
                                                 Inner(s.then), Inner(s.orElse)))
                 [] s.kind = "For" ->
                      IF loopDepth > 0 \/ scope[s.name] # Undefined THEN Rejected
                      ELSE IF s.iterations = << >> THEN After(scope)
                      ELSE Unless(later, IF IsTerm(iteration) THEN iteration ELSE Rejected)

CompileStatements(statements, scope, fallback, loopDepth) ==
    LET compile[w \in Lists \X Scopes \X Results \X (0..1)] ==
            StatementsFrom(compile, w[1], w[2], w[3], w[4])
    IN  compile[<<statements, scope, fallback, loopDepth>>]

CompileFunctionBody(body) ==
    LET result == CompileStatements(body, InputScope, Undefined, 0)
    IN  IF IsTerm(result) THEN result ELSE Rejected
=============================================================================
