-------------------------- MODULE EffectStatements --------------------------
(***************************************************************************)
(* lowerEffectStatements of packages/typescript: the second walker, for    *)
(* bodies that return an Effect.  A local holds a plain term or an Effect; *)
(* plain expressions see the plain ones only.  Module EffectOutcome has    *)
(* what becomes of the Effect in the program.                              *)
(***************************************************************************)
EXTENDS Statements

\* effectExpressionInputs
Plain(scope) ==
    [n \in Names |-> IF scope[n].sort = "Effect" THEN Undefined ELSE scope[n]]

Successful(payload) ==
    IF payload.sort = SuccessSort
      THEN Term("Effect", [v \in Valuations |-> Succeeds(payload.value[v])])
      ELSE Rejected

Failing(tag) ==
    IF tag \in ErrorTags THEN Term("Effect", [v \in Valuations |-> Fails(tag)]) ELSE Rejected

\* The Effect of an expression, from the Effects of its parts.
EffectFrom(effect, e, scope) ==
    CASE e.kind = "Name" ->
           IF scope[e.name].sort = "Effect" THEN scope[e.name] ELSE Rejected
      [] e.kind = "Choose" ->
           Merge(CompileExpression(e.condition, Plain(scope)),
                 effect[e.whenTrue], effect[e.whenFalse])
      [] e.kind = "Succeed" -> Successful(CompileExpression(e.payload, Plain(scope)))
      [] e.kind = "Fail" -> Failing(e.tag)
      [] e.kind = "Equal" -> Rejected

LowerEffectExpression(e, scope) ==
    LET effect[s \in Expressions] == EffectFrom(effect, s, scope) IN effect[e]

\* An initializer is tried as an Effect, and as a plain expression after that.
LowerInitializer(e, scope) ==
    LET effect == LowerEffectExpression(e, scope)
    IN  IF effect = Rejected THEN CompileExpression(e, Plain(scope)) ELSE effect

\* The Effect of a list of statements, from the Effects of shorter ones.
EffectStatementsFrom(lower, statements, scope, fallback) ==
    LET s == Head(statements)
        After(names) == lower[<<Tail(statements), names, fallback>>]
        Inner(body) == lower[<<body, scope, After(scope)>>]
        local == LowerInitializer(s.initializer, scope)
    IN  IF statements = << >>
          THEN fallback
          ELSE CASE s.kind = "Const" ->
                      IF scope[s.name] # Undefined \/ local = Rejected
                        THEN Rejected
                        ELSE After(Bind(scope, s.name, local))
                 [] s.kind = "Return" -> LowerEffectExpression(s.expression, scope)
                 [] s.kind \in {"Unsupported", "For"} -> Rejected
                 [] s.kind = "Block" -> Unless(After(scope), Inner(s.body))
                 [] s.kind = "If" ->
                      Unless(After(scope), Merge(CompileExpression(s.condition, Plain(scope)),
                                                 Inner(s.then), Inner(s.orElse)))

LowerEffectStatements(statements, scope, fallback) ==
    LET lower[w \in Lists \X Scopes \X Results] ==
            EffectStatementsFrom(lower, w[1], w[2], w[3])
    IN  lower[<<statements, scope, fallback>>]

LowerEffectBody(body) ==
    LET lowered == LowerEffectStatements(body, InputScope, Undefined)
    IN  IF IsTerm(lowered) THEN lowered ELSE Rejected
=============================================================================
