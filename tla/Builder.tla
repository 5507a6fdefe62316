------------------------------ MODULE Builder ------------------------------
(***************************************************************************)
(* compileProof: the Effect program of one proof runs against a fresh      *)
(* builder, and the builder is copied into the immutable program.          *)
(*                                                                         *)
(* The proof is user code: it may fork fibers, recover from a duplicate    *)
(* name, suspend on a promise, and share its symbols between fibers.  Every*)
(* builder call is one Effect.sync, so fibers interleave between calls;    *)
(* an input drawn from a schema takes several.  runSyncExit runs all of it *)
(* in one turn, so that a suspended fiber resumes only after the copy.     *)
(***************************************************************************)
EXTENDS ProofBuilder, FiniteSets

CONSTANTS
    Fibers,         \* the fibers of the proof
    Main,           \* the one runSyncExit waits for
    Schemas,        \* the inputs a proof may ask for at once: sequences of leaves
    MaxVariables,   \* bound on the variables
    MaxConditions   \* bound on the user's assumptions and on the assertions

(***************************************************************************)
(* A leaf is one variable: the name asked for, its domain, and the values  *)
(* a union of literals leaves (or None).  Verify.any asks for a single one;*)
(* anySchema for those of its plan, depth first.                           *)
(***************************************************************************)
Leaf(name, request, choice) == [name |-> name, request |-> request, choice |-> choice]

Leaves == UNION {{schema[i] : i \in DOMAIN schema} : schema \in Schemas}

ASSUME FibersAssumption == Main \in Fibers

ASSUME SchemasAssumption ==
    /\ \A schema \in Schemas : schema \in Seq(Leaves) /\ schema # << >>
    /\ \A leaf \in Leaves : IsRequest(leaf.request)

VARIABLES
    builder,    \* the records of ProofBuilder
    status,     \* what each fiber is doing
    todo,       \* the leaves a fiber still has to allocate
    choosing,   \* the symbol a fiber has yet to constrain to its choice
    drawn,      \* the symbols of an input not yet returned to user code
    handed,     \* those returned, with their leaf and name: user code has them
    phase,      \* what compileProof has answered
    program     \* the program it returned

vars == <<builder, status, todo, choosing, drawn, handed, phase, program>>

fiberVars == <<status, todo, choosing, drawn>>

\* Only a running fiber is in the middle of an input.
TypeOK ==
    /\ builder.nextVariableId \in Nat
    /\ status \in [Fibers -> {"Unborn", "Running", "Suspended", "Ended", "Died"}]
    /\ \A f \in Fibers :
          /\ todo[f] \in Seq(Leaves)
          /\ status[f] # "Running" =>
                todo[f] = << >> /\ choosing[f] = None /\ drawn[f] = {}
    /\ phase \in {"Running", "Compiled", "ProofCompileError"}

Init ==
    /\ builder = NewBuilder
    /\ status = [f \in Fibers |-> IF f = Main THEN "Running" ELSE "Unborn"]
    /\ todo = [f \in Fibers |-> << >>]
    /\ choosing = [f \in Fibers |-> None]
    /\ drawn = [f \in Fibers |-> {}]
    /\ handed = {}
    /\ phase = "Running"
    /\ program = NoProgram

-----------------------------------------------------------------------------
(* Drawing an input.                                                       *)

\* The fiber is in user code.
AtUserCode(f) == status[f] = "Running" /\ todo[f] = << >> /\ choosing[f] = None

Ask(f, schema) ==
    /\ AtUserCode(f)
    /\ Len(builder.variables) + Len(schema) <= MaxVariables
    /\ todo' = [todo EXCEPT ![f] = schema]
    /\ UNCHANGED <<builder, status, choosing, drawn, handed, phase, program>>

Drawn(leaf) ==
    [symbol |-> NextSymbol(builder, DomainOf(leaf.request)),
     name   |-> NameFor(builder, leaf.name),
     leaf   |-> leaf]

\* The leaves left are rest, and draws is what the fiber holds: return them
\* to user code when none is left.
Deliver(f, rest, draws) ==
    /\ todo' = [todo EXCEPT ![f] = rest]
    /\ IF rest = << >>
         THEN handed' = handed \cup draws /\ drawn' = [drawn EXCEPT ![f] = {}]
         ELSE drawn' = [drawn EXCEPT ![f] = draws] /\ UNCHANGED handed

Throws(leaf) == ~Valid(leaf.request) \/ Duplicate(builder, leaf.name)

\* Mutant of AllocateLeaf: a choice is returned before it is constrained.
AllocateLeafEarly(f) ==
    /\ status[f] = "Running"
    /\ todo[f] # << >>
    /\ choosing[f] = None
    /\ LET leaf == Head(todo[f])
       IN  /\ ~Throws(leaf)
           /\ builder' = Allocate(builder, leaf.name, DomainOf(leaf.request))
           /\ handed' = handed \cup {Drawn(leaf)}
           /\ IF leaf.choice = None
                THEN Deliver(f, Tail(todo[f]), drawn[f] \cup {Drawn(leaf)}) /\ UNCHANGED choosing
                ELSE /\ choosing' = [choosing EXCEPT ![f] = Drawn(leaf)]
                     /\ UNCHANGED <<todo, drawn>>
    /\ UNCHANGED <<status, phase, program>>

AllocateLeaf(f) ==
    /\ status[f] = "Running"
    /\ todo[f] # << >>
    /\ choosing[f] = None
    /\ LET leaf == Head(todo[f])
       IN  /\ ~Throws(leaf)
           /\ builder' = Allocate(builder, leaf.name, DomainOf(leaf.request))
           /\ IF leaf.choice = None
                THEN /\ Deliver(f, Tail(todo[f]), drawn[f] \cup {Drawn(leaf)})
                     /\ UNCHANGED choosing
                ELSE /\ choosing' = [choosing EXCEPT ![f] = Drawn(leaf)]
                     /\ UNCHANGED <<todo, drawn, handed>>
    /\ UNCHANGED <<status, phase, program>>

\* The assume that follows the allocation of a choice.
ConstrainChoice(f) ==
    /\ status[f] = "Running"
    /\ choosing[f] # None
    /\ builder' = AddAssumption(builder, OneOf(choosing[f].symbol, choosing[f].leaf.choice))
    /\ choosing' = [choosing EXCEPT ![f] = None]
    /\ Deliver(f, Tail(todo[f]), drawn[f] \cup {choosing[f]})
    /\ UNCHANGED <<status, phase, program>>

-----------------------------------------------------------------------------
(* Fibers.                                                                 *)

\* Mutant of Stop: an interrupted fiber is left in the middle of its input.
StopAlone(f, how, interrupted) ==
    /\ interrupted # {} => f = Main
    /\ \A g \in interrupted : g # Main /\ status[g] \in {"Running", "Suspended"}
    /\ status' = [g \in Fibers |-> CASE g = f -> how
                                     [] g \in interrupted -> "Ended"
                                     [] OTHER -> status[g]]
    /\ todo' = [todo EXCEPT ![f] = << >>]
    /\ choosing' = [choosing EXCEPT ![f] = None]
    /\ drawn' = [drawn EXCEPT ![f] = {}]

\* The end of a fiber; the children of Main that are not daemons go with it.
Stop(f, how, interrupted) ==
    /\ interrupted # {} => f = Main
    /\ \A g \in interrupted : g # Main /\ status[g] \in {"Running", "Suspended"}
    /\ status' = [g \in Fibers |-> CASE g = f -> how
                                     [] g \in interrupted -> "Ended"
                                     [] OTHER -> status[g]]
    /\ todo' = [g \in Fibers |-> IF g \in interrupted \cup {f} THEN << >> ELSE todo[g]]
    /\ choosing' = [g \in Fibers |-> IF g \in interrupted \cup {f} THEN None ELSE choosing[g]]
    /\ drawn' = [g \in Fibers |-> IF g \in interrupted \cup {f} THEN {} ELSE drawn[g]]

\* A throw is a defect: the fiber dies of it, or user code recovers.  What
\* the input had already registered stays registered.
DefectKills(f, interrupted) ==
    /\ status[f] = "Running"
    /\ todo[f] # << >>
    /\ choosing[f] = None
    /\ Throws(Head(todo[f]))
    /\ Stop(f, "Died", interrupted)
    /\ UNCHANGED <<builder, handed, phase, program>>

DefectRecovered(f) ==
    /\ status[f] = "Running"
    /\ todo[f] # << >>
    /\ choosing[f] = None
    /\ Throws(Head(todo[f]))
    /\ todo' = [todo EXCEPT ![f] = << >>]
    /\ drawn' = [drawn EXCEPT ![f] = {}]
    /\ UNCHANGED <<builder, status, choosing, handed, phase, program>>

Symbols == {d.symbol : d \in handed}

Assume(f, symbols) ==
    /\ AtUserCode(f)
    /\ Cardinality({a \in builder.assumptions : a.kind = "Condition"}) < MaxConditions
    /\ builder' = AddAssumption(builder, Condition(symbols))
    /\ UNCHANGED <<fiberVars, handed, phase, program>>

Assert(f, symbols) ==
    /\ AtUserCode(f)
    /\ Len(builder.assertions) < MaxConditions
    /\ builder' = AddAssertion(builder, Condition(symbols))
    /\ UNCHANGED <<fiberVars, handed, phase, program>>

Fork(f, g) ==
    /\ AtUserCode(f)
    /\ status[g] = "Unborn"
    /\ status' = [status EXCEPT ![g] = "Running"]
    /\ UNCHANGED <<builder, todo, choosing, drawn, handed, phase, program>>

Suspend(f) ==
    /\ phase = "Running"
    /\ AtUserCode(f)
    /\ status' = [status EXCEPT ![f] = "Suspended"]
    /\ UNCHANGED <<builder, todo, choosing, drawn, handed, phase, program>>

\* Timers and promises wait for the turn of runSyncExit to be over.
Resume(f) ==
    /\ phase # "Running"
    /\ status[f] = "Suspended"
    /\ status' = [status EXCEPT ![f] = "Running"]
    /\ UNCHANGED <<builder, todo, choosing, drawn, handed, phase, program>>

End(f, interrupted) ==
    /\ AtUserCode(f)
    /\ Stop(f, "Ended", interrupted)
    /\ UNCHANGED <<builder, handed, phase, program>>

-----------------------------------------------------------------------------
(* runSyncExit has run every fiber that could run.                         *)
Compile ==
    /\ phase = "Running"
    /\ \A f \in Fibers : status[f] # "Running"
    /\ IF status[Main] = "Ended"
         THEN phase' = "Compiled" /\ program' = ToProgram(builder)
         ELSE phase' = "ProofCompileError" /\ UNCHANGED program
    /\ UNCHANGED <<builder, fiberVars, handed>>

Next ==
    \/ \E f \in Fibers :
          \/ \E schema \in Schemas : Ask(f, schema)
          \/ AllocateLeaf(f)
          \/ ConstrainChoice(f)
          \/ DefectRecovered(f)
          \/ \E symbols \in SUBSET Symbols : Assume(f, symbols) \/ Assert(f, symbols)
          \/ \E g \in Fibers : Fork(f, g)
          \/ Suspend(f)
          \/ Resume(f)
          \/ \E interrupted \in SUBSET Fibers :
                DefectKills(f, interrupted) \/ End(f, interrupted)
    \/ Compile

Spec == Init /\ [][Next]_vars

-----------------------------------------------------------------------------
(* Properties.                                                             *)

(***************************************************************************)
(* A symbol user code holds denotes the variable that was allocated for it,*)
(* of its sort, under the name it asked for or the one generated, and no   *)
(* other input has that name: duplicate names, recovered or not, generated *)
(* or not, and inputs abandoned half way, never shift an id.               *)
(***************************************************************************)
NamesDistinct ==
    \A i, j \in DOMAIN builder.variables :
        builder.variables[i].name = builder.variables[j].name => i = j

Denotes(d) ==
    \E i \in DOMAIN builder.variables :
        /\ builder.variables[i].id = d.symbol.id
        /\ builder.variables[i].sort = d.symbol.sort
        /\ builder.variables[i].name = d.name
        /\ \A j \in DOMAIN builder.variables :
              builder.variables[j].id = d.symbol.id => j = i

SymbolsDenote == NamesDistinct /\ \A d \in handed : Denotes(d)

(***************************************************************************)
(* The program is closed: what its formulas mention is one of its inputs,  *)
(* at its sort, although fibers wrote to the builder in any order and some *)
(* go on writing to it after the copy.                                     *)
(***************************************************************************)
Registered(p) == {Symbol(p.variables[i].id, p.variables[i].sort) : i \in DOMAIN p.variables}

ProgramClosed == phase = "Compiled" => Mentioned(program) \subseteq Registered(program)

(***************************************************************************)
(* What a formula of the proof mentions is constrained as it was declared: *)
(* the bounds of its domain, and its choice of literals, are among the     *)
(* assumptions of the program, even when the fiber that drew the input was *)
(* interrupted.                                                            *)
(***************************************************************************)
Constraints(d) ==
    BoundConditions(d.symbol, DomainOf(d.leaf.request))
    \cup (IF d.leaf.choice = None THEN {} ELSE {OneOf(d.symbol, d.leaf.choice)})

UserConditions(p) ==
    {a \in p.assumptions : a.kind = "Condition"}
    \cup {p.assertions[i].expression : i \in DOMAIN p.assertions}

ProgramConstrained ==
    phase = "Compiled" =>
        \A c \in UserConditions(program) : \A d \in handed :
            d.symbol \in c.symbols => Constraints(d) \subseteq program.assumptions

(***************************************************************************)
(* No proof's inputs are refused by the backend: the domains packages/core *)
(* lets through are those registerVariables lets through.                  *)
(***************************************************************************)
InputsAccepted == Accepts(builder.variables)
=============================================================================
