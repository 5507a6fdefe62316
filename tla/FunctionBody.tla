---------------------------- MODULE FunctionBody ----------------------------
(***************************************************************************)
(* A source function, compiled by the walker its proof asks for and called *)
(* in a JavaScript engine.                                                 *)
(***************************************************************************)
EXTENDS EffectStatements, Engine

CONSTANTS
    Sources,        \* bodies of functions that return a value
    EffectSources   \* bodies of functions that return an Effect

ASSUME SourceAssumption ==
    /\ Sources \subseteq Lists
    /\ EffectSources \subseteq Lists

VARIABLES
    source,     \* the kind of its proof and the body of the function
    compiled,   \* what the compiler makes of it
    input       \* the arguments of the call

function == <<source, compiled, input>>

vars == <<function, engine>>

Init ==
    /\ source \in [kind: {"SourceProof"}, body: Sources]
                  \cup [kind: {"SourceEffectProof"}, body: EffectSources]
    /\ compiled = Undefined
    /\ input \in Valuations
    /\ frames = << >>
    /\ outcome = None

Compile(Walker(_)) ==
    /\ compiled = Undefined
    /\ compiled' = Walker(source.body)
    /\ UNCHANGED <<source, input, engine>>

CompileSourceProof ==
    /\ source.kind = "SourceProof"
    /\ Compile(CompileFunctionBody)

CompileSourceEffectProof ==
    /\ source.kind = "SourceEffectProof"
    /\ Compile(LowerEffectBody)

CallSource ==
    /\ IsTerm(compiled)
    /\ Call(source.body, input)
    /\ UNCHANGED function

StepSource ==
    /\ Step
    /\ UNCHANGED function

Next == CompileSourceProof \/ CompileSourceEffectProof \/ CallSource \/ StepSource

Spec == Init /\ [][Next]_vars

-----------------------------------------------------------------------------
(* Properties.                                                             *)

(***************************************************************************)
(* Both walkers stop at a return, so that a constant declared behind it in *)
(* the same list is seen by the engine alone, which has the names of the   *)
(* block dead from its start.  The functions here have none.               *)
(***************************************************************************)
NoLateConst(list) ==
    \A j, k \in DOMAIN list : j < k /\ list[j].kind = "Return" => list[k].kind # "Const"

NothingBehindReturn == \A list \in Lists : NoLateConst(list)

(***************************************************************************)
(* Whatever paths it takes, early returns before, in and after a loop and  *)
(* nested blocks included, a call of an accepted function returns the value*)
(* or the Effect of the term the compiler made of it: it never throws, runs*)
(* off its end, or fails with another tag.                                 *)
(***************************************************************************)
PathsAgree ==
    IsTerm(compiled) /\ outcome # None => outcome = Returns(compiled.value[input])
=============================================================================
