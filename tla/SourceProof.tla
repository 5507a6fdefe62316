---------------------------- MODULE SourceProof ----------------------------
(***************************************************************************)
(* Proofs about a source function: what Verify.sourceFunction and          *)
(* sourceEffectFunction record, how the TypeScript frontend finds the      *)
(* function (module Identity), matches the record with its declaration, and*)
(* the program it assembles once the body is compiled.  isValidSourceInputs*)
(* answers for the same record which arguments are within the proof.       *)
(*                                                                         *)
(* The body is compiled by Lowering, Loop, Statements and EffectOutcome;   *)
(* here it is a function of the named parameters with an interval around   *)
(* its values, and for an Effect the arguments on which it fails.          *)
(***************************************************************************)
EXTENDS ProofBuilder, Identity, FiniteSets

CONSTANTS
    Options,        \* what a proof may be declared with
    Declarations,   \* the functions its source file may declare
    ProofModules,   \* the modules the proof may be exported from
    SourceFiles,    \* the statements that may declare the name in the source file
    Intervals,      \* the intervals a compiled body may come with
    FailureTag,     \* the tag an Effect fails with
    Candidates,     \* the arguments isValidSourceInputs may be asked about
    Probe           \* the integers a world may give a variable

(***************************************************************************)
(* Options:       kind, sourceFile (empty or not), domains (one request per*)
(*                input) and resultSort, None if left out                  *)
(* Declarations:  parameters (a name and a form: "number", "boolean" or    *)
(*                anything else), returns, and whether it is generic or    *)
(*                async; for an Effect, returns is its success type        *)
(***************************************************************************)
Requests == UNION {{o.domains[i] : i \in DOMAIN o.domains} : o \in Options}

\* Inputs are numbers and booleans; an invalid domain throws where it is made.
ASSUME OptionsAssumption ==
    /\ \A o \in Options : o.domains \in Seq(Requests)
    /\ \A request \in Requests : /\ IsRequest(request)
                                 /\ Valid(request)
                                 /\ request.kind # "string"

ASSUME DeclarationsAssumption ==
    \A d \in Declarations :
        d.parameters = [k \in 1..Len(d.parameters) |-> d.parameters[k]]

\* A world gives a bounded variable any integer within its bounds.
ASSUME ProbeAssumption ==
    /\ Probe \subseteq Int
    /\ \A interval \in Intervals : /\ interval \in Int \X Int
                                   /\ interval[1]..interval[2] \subseteq Probe
    /\ \A request \in Requests :
          LET domain == DomainOf(request)
          IN  domain.minimum # None /\ domain.maximum # None =>
                 domain.minimum..domain.maximum \subseteq Probe

\* JavaScript values, told apart by their type.
Number(n) == <<"number", n>>

Boolean(b) == <<"boolean", b>>

Text(s) == <<"string", s>>

IsValue(v) == \/ v[1] = "number" /\ v[2] \in Int /\ v = Number(v[2])
              \/ v \in {Boolean(b) : b \in BOOLEAN}
              \/ v[1] = "string"

ASSUME CandidatesAssumption ==
    \A candidate \in Candidates :
        /\ candidate = [k \in 1..Len(candidate) |-> candidate[k]]
        /\ \A k \in 1..Len(candidate) : IsValue(candidate[k])

ASSUME SourceFilesAssumption ==
    \A statements \in SourceFiles :
        /\ WellTyped(statements)
        /\ \A k \in DOMAIN statements :
              statements[k].exported \in {"no", "name", "default"}

VARIABLES
    options, declaration,
    pc,             \* where the construction or the compilation is
    proof,          \* the SourceProof or SourceEffectProof
    typedBy,        \* history: the files the call that made it was typed by
    target,         \* history: the statement found, and what the name denotes
    inputs,         \* signature.inputs: the variable of each parameter name
    parameterNames, \* signature.parameterNames: the name of each variable id
    body,           \* the compiled body
    compiled        \* the program compileSourceProof returns

found == <<typedBy, target>>

sourceVars == <<options, declaration, pc, proof, found, inputs, parameterNames, body, compiled>>

NameOf(text) == <<text>>

OutcomeNames == {NameOf(text) : text \in {"result", "successValue", "outcomeTag", "failureTag"}}

ASSUME NamesAssumption == None \notin OutcomeNames

\* The map f, with the key x set to y.
With(f, x, y) == [z \in DOMAIN f \cup {x} |-> IF z = x THEN y ELSE f[z]]

IsEffect == options.kind = "SourceEffectProof"

-----------------------------------------------------------------------------
(* Construction.                                                           *)

\* The builder, once the first k inputs are allocated.
InputsAllocated[k \in 0..Len(options.domains)] ==
    IF k = 0 THEN NewBuilder
    ELSE LET b == InputsAllocated[k - 1]
         IN  Allocate(b, Generated(Len(b.variables)), DomainOf(options.domains[k]))

AllocateInputs == InputsAllocated[Len(options.domains)]

ResultSort == IF options.resultSort = None THEN "Int" ELSE options.resultSort

ResultDomain ==
    DomainOf(IF ResultSort = "Bool" THEN BooleanRequest ELSE IntegerRequest(None, None))

AllSymbols(b) ==
    {Symbol(b.variables[i].id, b.variables[i].sort) : i \in DOMAIN b.variables}

SourceFunction ==
    LET b == Allocate(AllocateInputs, NameOf("result"), ResultDomain)
        id == AllocateInputs.nextVariableId
    IN  [resultVariableId |-> id,
         resultSort |-> ResultSort,
         reserved |-> {id},
         program |-> ToProgram(AddAssertion(b, Condition(AllSymbols(b))))]

SourceEffectFunction ==
    LET b == Allocate(Allocate(AllocateInputs, NameOf("successValue"), ResultDomain),
                      NameOf("outcomeTag"), DomainOf(StringRequest))
        c == Allocate(b, NameOf("failureTag"), DomainOf(StringRequest))
        id == AllocateInputs.nextVariableId
    IN  [resultVariableId |-> id,
         tagVariableId |-> id + 1,
         failureTagVariableId |-> id + 2,
         resultSort |-> ResultSort,
         reserved |-> {id, id + 1, id + 2},
         program |-> ToProgram(AddAssertion(c, Condition(AllSymbols(c))))]

InputPositions ==
    {i \in DOMAIN proof.program.variables :
        proof.program.variables[i].id \notin proof.reserved}

InputVariables ==
    [k \in 1..Cardinality(InputPositions) |->
        proof.program.variables[CHOOSE i \in InputPositions :
            Cardinality({j \in InputPositions : j < i}) = k - 1]]

-----------------------------------------------------------------------------
(* isValidSourceInputs: primitive types and bounds, before the function is *)
(* loaded.  A domain without both bounds has no valid input.               *)

\* Mutant of AcceptsValue: the upper bound is exclusive.
AcceptsValueBelow(variable, value) ==
    IF variable.sort = "Bool"
      THEN value[1] = "boolean"
      ELSE /\ value[1] = "number"
           /\ -MaxSafe <= value[2] /\ value[2] <= MaxSafe
           /\ variable.minimum # None /\ variable.minimum <= value[2]
           /\ variable.maximum # None /\ value[2] < variable.maximum

AcceptsValue(variable, value) ==
    IF variable.sort = "Bool"
      THEN value[1] = "boolean"
      ELSE /\ value[1] = "number"
           /\ -MaxSafe <= value[2] /\ value[2] <= MaxSafe
           /\ variable.minimum # None /\ variable.minimum <= value[2]
           /\ variable.maximum # None /\ value[2] <= variable.maximum

IsValidSourceInputs(candidate) ==
    LET variables == InputVariables
    IN  /\ Len(candidate) = Len(variables)
        /\ \A k \in DOMAIN candidate : AcceptsValue(variables[k], candidate[k])

-----------------------------------------------------------------------------
(* Compilation.                                                            *)

NoProof == [reserved |-> {}, program |-> NoProgram]

SourceInit ==
    /\ options \in Options
    /\ declaration \in Declarations
    /\ pc = "Declare"
    /\ proof = NoProof
    /\ typedBy = [files |-> Unresolved, inPlace |-> FALSE]
    /\ target = [found |-> 0, byDefault |-> FALSE, denoted |-> {}]
    /\ inputs = << >>
    /\ parameterNames = << >>
    /\ body = None
    /\ compiled = NoProgram

Throw ==
    /\ pc' = "Thrown"
    /\ UNCHANGED <<options, declaration, proof, found, inputs, parameterNames, body, compiled>>

Declare ==
    /\ pc = "Declare"
    /\ \/ options.sourceFile = "" /\ Throw
       \/ /\ options.sourceFile # ""
          /\ proof' = IF IsEffect THEN SourceEffectFunction ELSE SourceFunction
          /\ pc' = "Identify"
          /\ UNCHANGED <<options, declaration, found, inputs, parameterNames, body, compiled>>

\* assertSourceModuleMatches
Identify(module) ==
    /\ pc = "Identify"
    /\ IF SourceModuleMatches(module, options.sourceFile)
         THEN /\ pc' = "Find"
              /\ typedBy' = [files |-> module.made.files, inPlace |-> MadeInPlace(module)]
              /\ UNCHANGED <<options, declaration, proof, target, inputs, parameterNames,
                             body, compiled>>
         ELSE Throw

Found(statements, k) ==
    /\ pc' = "Signature"
    /\ target' = [found |-> k, byDefault |-> statements[k].exported = "default",
                  denoted |-> Denoted(statements)]
    /\ UNCHANGED <<options, declaration, proof, typedBy, inputs, parameterNames, body,
                   compiled>>

\* Mutant of FindTarget: overloads, which have no body, are passed over.
FindTargetImplementation(statements) ==
    LET bodies == {k \in ExportedCandidates(statements) : statements[k].body}
    IN  /\ pc = "Find"
        /\ \/ \E k \in bodies : bodies = {k} /\ Found(statements, k)
           \/ (\A k \in bodies : bodies # {k}) /\ Throw

\* findTarget and functionBody
FindTarget(statements) ==
    LET targets == {k \in DOMAIN statements : /\ ExportedCandidates(statements) = {k}
                                              /\ statements[k].body}
    IN  /\ pc = "Find"
        /\ \/ \E k \in targets : Found(statements, k)
           \/ targets = {} /\ Throw

\* validateFunctionType, or effectTypeSignature, which lets generics pass.
TypeSupported ==
    /\ declaration.returns \in {"Int", "Bool"}
    /\ declaration.modifier # "async"
    /\ declaration.modifier = "generic" => IsEffect

\* validateSignature, or validateEffectSignature, up to its parameters.
CheckSignature ==
    /\ pc = "Signature"
    /\ IF /\ TypeSupported
          /\ proof.resultSort = declaration.returns
          /\ Len(InputVariables) = Len(declaration.parameters)
         THEN /\ pc' = "Parameters"
              /\ UNCHANGED <<options, declaration, proof, found, inputs, parameterNames,
                             body, compiled>>
         ELSE Throw

\* Mutant of Reserved: only the outcome of an Effect has reserved names.
ReservedEffect ==
    IF IsEffect THEN {NameOf("successValue"), NameOf("outcomeTag"), NameOf("failureTag")}
                ELSE {}

Reserved ==
    IF IsEffect THEN {NameOf("result"), NameOf("successValue"), NameOf("outcomeTag"),
                      NameOf("failureTag")}
                ELSE {NameOf("result")}

\* inputTerm: the domain has the sort of the parameter, and is finite.
InputTerm(parameter, variable) ==
    /\ variable.sort = (IF parameter.form = "boolean" THEN "Bool" ELSE "Int")
    /\ variable.sort = "Int" => variable.minimum # None /\ variable.maximum # None

\* The parameter takes the variable, unless its form or name is refused.
Bind(parameter, variable, taken) ==
    IF /\ parameter.form \in {"number", "boolean"}
       /\ parameter.name \notin taken
       /\ InputTerm(parameter, variable)
      THEN /\ inputs' = With(inputs, parameter.name, variable)
           /\ parameterNames' = With(parameterNames, variable.id, parameter.name)
           /\ UNCHANGED <<options, declaration, pc, proof, found, body, compiled>>
      ELSE Throw

\* Mutant of BindParameter: the domains are consumed from the last.
BindParameterBackwards ==
    /\ pc = "Parameters"
    /\ LET k == Cardinality(DOMAIN parameterNames) + 1
       IN  /\ k \in DOMAIN declaration.parameters
           /\ Bind(declaration.parameters[k],
                   InputVariables[Len(InputVariables) + 1 - k], Reserved \cup DOMAIN inputs)

BindParameter ==
    /\ pc = "Parameters"
    /\ LET k == Cardinality(DOMAIN parameterNames) + 1
       IN  /\ k \in DOMAIN declaration.parameters
           /\ Bind(declaration.parameters[k], InputVariables[k],
                   Reserved \cup DOMAIN inputs)

SignatureValid ==
    /\ pc = "Parameters"
    /\ Cardinality(DOMAIN parameterNames) = Len(declaration.parameters)
    /\ pc' = "Body"
    /\ UNCHANGED <<options, declaration, proof, found, inputs, parameterNames, body, compiled>>

\* The values a parameter can have.
ValuesIn(variable) ==
    IF variable.sort = "Bool"
      THEN {Boolean(b) : b \in BOOLEAN}
      ELSE {Number(n) : n \in variable.minimum .. variable.maximum}

Environments ==
    {env \in [DOMAIN inputs -> UNION {ValuesIn(inputs[x]) : x \in DOMAIN inputs}] :
        \A x \in DOMAIN inputs : env[x] \in ValuesIn(inputs[x])}

\* A body worth value[env], within its interval, that fails on some.
Bodies ==
    [sort: {"Bool"}, bounds: {<<None, None>>},
     value: [Environments -> {Boolean(b) : b \in BOOLEAN}],
     fails: IF IsEffect THEN SUBSET Environments ELSE {{}}]
    \cup UNION {[sort: {"Int"}, bounds: {interval},
                 value: [Environments -> {Number(n) : n \in interval[1]..interval[2]}],
                 fails: IF IsEffect THEN SUBSET Environments ELSE {{}}]
                : interval \in Intervals}

\* compileFunctionBody, or the lowering of an Effect body.
CompileBody(b) ==
    /\ pc = "Body"
    /\ IF b.sort = declaration.returns
         THEN /\ body' = b
              /\ pc' = "Assemble"
              /\ UNCHANGED <<options, declaration, proof, found, inputs, parameterNames, compiled>>
         ELSE Throw

\* The inputs take the names of the parameters, the result the body's bounds.
Renamed(v) ==
    IF v.id \in DOMAIN parameterNames THEN [v EXCEPT !.name = parameterNames[v.id]]
    ELSE IF v.id = proof.resultVariableId
      THEN [v EXCEPT !.minimum = body.bounds[1], !.maximum = body.bounds[2]]
    ELSE v

Assemble ==
    /\ pc = "Assemble"
    /\ compiled' = [proof.program EXCEPT !.variables = [i \in DOMAIN @ |-> Renamed(@[i])]]
    /\ pc' = "Compiled"
    /\ UNCHANGED <<options, declaration, proof, found, inputs, parameterNames, body>>

SourceNext ==
    \/ Declare
    \/ \E module \in ProofModules : Identify(module)
    \/ \E statements \in SourceFiles : FindTarget(statements)
    \/ CheckSignature
    \/ BindParameter
    \/ SignatureValid
    \/ \E b \in Bodies : CompileBody(b)
    \/ Assemble

SourceSpec == SourceInit /\ [][SourceNext]_sourceVars

-----------------------------------------------------------------------------
(* What the program says.  A world gives every variable id a value.        *)

WorldValues(v) ==
    CASE v.sort = "Bool"   -> {Boolean(b) : b \in BOOLEAN}
      [] v.sort = "Int"    -> {Number(n) : n \in {m \in Probe :
                                  /\ v.minimum = None \/ v.minimum <= m
                                  /\ v.maximum = None \/ m <= v.maximum}}
      [] v.sort = "String" -> {Text(s) : s \in {"Success", "Failure", "", FailureTag}}

WithValuesOf(worlds, v) == {With(w, v.id, x) : w \in worlds, x \in WorldValues(v)}

\* The worlds, as far as the first k variables.
WorldsUpTo[k \in 0..Len(compiled.variables)] ==
    IF k = 0 THEN {<< >>} ELSE WithValuesOf(WorldsUpTo[k - 1], compiled.variables[k])

Worlds == WorldsUpTo[Len(compiled.variables)]

BoundHolds(a, w) ==
    \A s \in a.symbols : IF a.kind = "Gte" THEN w[s.id][2] >= a.allows
                                           ELSE w[s.id][2] <= a.allows

EnvironmentOf(w) == [x \in DOMAIN inputs |-> w[inputs[x].id]]

\* resultEquality, or the tag, failure-tag and active-payload equalities.
BodyHolds(w) ==
    LET env == EnvironmentOf(w)
    IN  IF IsEffect
          THEN /\ w[proof.tagVariableId] = Text(IF env \in body.fails THEN "Failure"
                                                                     ELSE "Success")
               /\ w[proof.failureTagVariableId] = Text(IF env \in body.fails THEN FailureTag
                                                                            ELSE "")
               /\ env \notin body.fails => w[proof.resultVariableId] = body.value[env]
          ELSE w[proof.resultVariableId] = body.value[env]

Feasible ==
    {w \in Worlds : BodyHolds(w) /\ \A a \in compiled.assumptions : BoundHolds(a, w)}

Arguments(w) == LET vs == InputVariables IN [k \in DOMAIN vs |-> w[vs[k].id]]

\* What the assertion of the proof can see of a world.
Observed(w) ==
    IF IsEffect /\ w[proof.tagVariableId] # Text("Success")
      THEN w[proof.failureTagVariableId]
      ELSE w[proof.resultVariableId]

\* The declared function, called by a JavaScript engine.
Passed(arguments) ==
    [x \in DOMAIN inputs |->
        arguments[CHOOSE k \in DOMAIN arguments : declaration.parameters[k].name = x]]

Call(arguments) ==
    IF Passed(arguments) \in body.fails THEN Text(FailureTag)
                                        ELSE body.value[Passed(arguments)]

-----------------------------------------------------------------------------
(* Properties.                                                             *)

(***************************************************************************)
(* The function a program is compiled from is the one the proof was typed  *)
(* by, as far as the two checks reach.  A proof made in the initializer of *)
(* its export, whichever of the calls there makes it, was typed by the     *)
(* module of the compiled file; of a proof a helper makes nothing is said. *)
(* A function found, overloaded, exported by a list or next to namesakes,  *)
(* is all that the name denotes in that module; of one exported as default *)
(* nothing is said.                                                        *)
(***************************************************************************)
IdentityHolds ==
    pc = "Compiled" =>
        /\ typedBy.inPlace => typedBy.files = {options.sourceFile}
        /\ ~target.byDefault => target.denoted = {target.found}

(***************************************************************************)
(* docs/soundness.md, of the module and the function a proof was typed by: *)
(* "Missing, ambiguous, unresolved, or mismatched identity fails closed."  *)
(* The code does not keep this for the two cases IdentityHolds leaves out. *)
(***************************************************************************)
IdentityFailsClosed ==
    pc = "Compiled" =>
        /\ typedBy.files = {options.sourceFile}
        /\ target.denoted = {target.found}

(***************************************************************************)
(* The arguments isValidSourceInputs accepts are those the program ranges  *)
(* over: nothing a proof covers is refused, and nothing is accepted for    *)
(* which the program has no world, however the interval of the body, the   *)
(* declared domains and the assumptions of the builder overlap.            *)
(***************************************************************************)
InputsAgree ==
    pc = "Compiled" =>
        LET covered == {Arguments(w) : w \in Feasible}
        IN  /\ \A candidate \in Candidates :
                  IsValidSourceInputs(candidate) <=> candidate \in covered
            /\ covered # {}

(***************************************************************************)
(* For each of them the assertion sees exactly what the function does with *)
(* these arguments: the domains, declared by position, meet the parameters,*)
(* known by name, in the right order.                                      *)
(***************************************************************************)
OutcomeExact ==
    pc = "Compiled" => \A w \in Feasible : Observed(w) = Call(Arguments(w))

(***************************************************************************)
(* A counterexample names the inputs as the source does, and no two        *)
(* variables by the same name.                                             *)
(***************************************************************************)
NamesTold ==
    pc = "Compiled" =>
        /\ \A i, j \in DOMAIN compiled.variables :
              compiled.variables[i].name = compiled.variables[j].name => i = j
        /\ \A k \in DOMAIN declaration.parameters :
              compiled.variables[k].name = declaration.parameters[k].name
=============================================================================
