------------------------------- MODULE Engine -------------------------------
(***************************************************************************)
(* The reference for function bodies: a call of a function, run as a       *)
(* JavaScript engine runs it, a statement at a time.                       *)
(***************************************************************************)
EXTENDS Syntax

VARIABLES
    frames,     \* the blocks being run, innermost last: the statements each has
                \* left, and its variables
    outcome     \* what the call ends with

engine == <<frames, outcome>>

(***************************************************************************)
(* A variable holds <<value>>, or nothing before its declaration has run;  *)
(* an expression that reads such a variable throws.                        *)
(***************************************************************************)
Dead == << >>

\* <<value>>, or Dead when the evaluation throws; value has those of the parts.
ValueFrom(value, e, env) ==
    CASE e.kind = "Name" -> env[e.name]
      [] e.kind = "Equal" ->
           IF value[e.left] = Dead \/ value[e.right] = Dead
             THEN Dead
             ELSE <<Boolean(value[e.left][1] = value[e.right][1])>>
      [] e.kind = "Choose" ->
           IF value[e.condition] = Dead THEN Dead
           ELSE IF Holds(value[e.condition][1]) THEN value[e.whenTrue]
           ELSE value[e.whenFalse]
      [] e.kind = "Succeed" ->
           IF value[e.payload] = Dead THEN Dead ELSE <<Succeeds(value[e.payload][1])>>
      [] e.kind = "Fail" -> <<Fails(e.tag)>>

Evaluate(e, env) ==
    LET value[s \in Expressions] == ValueFrom(value, s, env) IN value[e]

None == [kind |-> "none"]

Normal == [kind |-> "normal"]

Throws == [kind |-> "throws"]

Returns(value) == [kind |-> "returns", value |-> value]

-----------------------------------------------------------------------------
(* Every list of statements is a block; its constants exist from its start.*)

Frame(statements, env) ==
    [statements |-> statements,
     env |-> [n \in Names |-> IF n \in Declared(statements) THEN Dead ELSE env[n]]]

Call(body, arguments) ==
    /\ frames = << >>
    /\ outcome = None
    /\ frames' = <<Frame(body, [n \in Names |->
                     IF n \in DOMAIN arguments THEN <<arguments[n]>> ELSE Dead])>>
    /\ UNCHANGED outcome

Top == frames[Len(frames)]

Statement == Head(Top.statements)

At(kind) == frames # << >> /\ Top.statements # << >> /\ Statement.kind = kind

\* The innermost block goes on with these statements and these variables.
GoOn(statements, env) ==
    [frames EXCEPT ![Len(frames)] = [statements |-> statements, env |-> env]]

Ends(end) == frames' = << >> /\ outcome' = end

\* e is evaluated; the call ends if that throws.
With(e, Do(_)) ==
    LET r == Evaluate(e, Top.env) IN IF r = Dead THEN Ends(Throws) ELSE Do(r[1])

Declare ==
    /\ At("Const")
    /\ LET Set(v) == /\ frames' = GoOn(Tail(Top.statements), Bind(Top.env, Statement.name, <<v>>))
                     /\ UNCHANGED outcome
       IN  With(Statement.initializer, Set)

\* A statement outside the language may end the call in any way: it throws.
LeaveFunction ==
    /\ frames # << >>
    /\ Top.statements # << >>
    /\ Statement.kind \in {"Return", "Unsupported"}
    /\ LET Leave(v) == Ends(Returns(v))
       IN  IF Statement.kind = "Return"
             THEN With(Statement.expression, Leave)
             ELSE Ends(Throws)

EnterBlock ==
    /\ At("Block")
    /\ frames' = Append(GoOn(Tail(Top.statements), Top.env), Frame(Statement.body, Top.env))
    /\ UNCHANGED outcome

Branch ==
    /\ At("If")
    /\ LET Take(c) ==
             /\ frames' = Append(GoOn(Tail(Top.statements), Top.env),
                            Frame(IF Holds(c) THEN Statement.then ELSE Statement.orElse, Top.env))
             /\ UNCHANGED outcome
       IN  With(Statement.condition, Take)

Iterate ==
    /\ At("For")
    /\ Statement.iterations # << >>
    /\ frames' = Append(GoOn(AfterIteration(Top.statements), Top.env),
                        Frame(Statement.body,
                              Bind(Top.env, Statement.name,
                                   <<Number(Head(Statement.iterations))>>)))
    /\ UNCHANGED outcome

LeaveLoop ==
    /\ At("For")
    /\ Statement.iterations = << >>
    /\ frames' = GoOn(Tail(Top.statements), Top.env)
    /\ UNCHANGED outcome

\* The end of a block, or of the function.
LeaveBlock ==
    /\ frames # << >>
    /\ Top.statements = << >>
    /\ IF Len(frames) = 1
         THEN Ends(Normal)
         ELSE frames' = SubSeq(frames, 1, Len(frames) - 1) /\ UNCHANGED outcome

Step ==
    \/ Declare
    \/ LeaveFunction
    \/ EnterBlock
    \/ Branch
    \/ Iterate
    \/ LeaveLoop
    \/ LeaveBlock
=============================================================================
