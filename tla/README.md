# Formal models of Effect Verifier

TLA+ models of the packages of this repository: the proof builder, the Schema and
TypeScript frontends, the Z3 backend and the command line. TLC checks each model on small instances;
the central safety properties are proved with TLAPS for every value of the
constants. `PROJECT.json` lists the runs, the source lines behind every
definition, the hazards of the code and what covers each.

Effect Verifier turns a proof (an Effect program over symbolic values, or a
TypeScript function with a postcondition) into a small IR and asks Z3 about it.
What matters is that a `Verified` verdict is never wrong: not because of how the
queries are batched, how an expression was lowered, which input was bounded how,
what another caller of the same backend does, or how the process exits.

## Inventory

| Part | Code | State | Operations | Hard behaviour | What makes it correct |
|---|---|---|---|---|---|
| Symbolic builder | `core/src/verify.ts` 28-118, 284-322, 590-629 | variables, assumptions, assertions, names, next id | any, anyString, assume, assert, compileProof | fibers inside a proof, defects the proof recovers from, symbols of another proof | fresh ids, unique names, bounds among the assumptions |
| Source proof specifications | `core/src/verify.ts` 324-585 | a frozen program with distinguished variables | sourceFunction, sourceEffectFunction, isValidSourceInputs | nothing concurrent | result and tags are variables of the right sort, at known ids |
| Domains | `core/src/domain.ts` | none | integer, uint, int, boolean | width limits | bounds are safe and ordered |
| Symbolic expressions | `core/src/expr.ts`, `symbolic.ts` | none | constructors, formatExpr | shared subterms | sorts agree |
| Program and results | `core/src/program.ts` | immutable IR | - | - | a verdict has one outcome per assertion |
| Backend: queue and lifecycle | `z3/src/index.ts` 142-187 | `closed`, `tail`, worker threads | verify, runExclusive, close | concurrent callers, Effects run later than built, close racing with verify, failing jobs | one solve at a time, in order; threads outlive admitted jobs |
| Backend: one verification | `z3/src/index.ts` 195-547 | solver frames, outcomes | checkAssumptions, checkAssertions, batches, single checks | unknown, worker failure, decode failure between any two pushes and pops | a verdict is justified by the queries behind it |
| Backend: divisors | `z3/src/index.ts` 50-115 | - | collectIntDivisors, collectBoolDivisors | recursion across three sorts | every divisor is found |
| Backend: translation | `z3/src/index.ts` 553-782 | - | compile methods, decodeCounterexample | - | one Z3 term per constructor |
| Frontend: expressions | `typescript/src/index.ts` 294-631 | - | compileExpression | interval limits | a term means what the engine computes |
| Frontend: loops | `typescript/src/index.ts` 633-781, 887-956 | - | loopSpecification, unrolling | limits 32 and 2^53 - 1 | unrolled values are the engine's |
| Frontend: statements | `typescript/src/index.ts` 783-976 | scopes | compileStatements | early returns through continuations | every path agrees with the engine |
| Frontend: Effects | `typescript/src/index.ts` 1302-2031 | - | lowerEffectExpression, lowerEffectStatements, compileSourceEffectProof | three variables encode one outcome | the outcome is exactly determined |
| Frontend: signatures, identity | `typescript/src/index.ts` 82-291, 978-1185, 1313-1533 | - | validateSignature, findTarget, assertSourceModuleMatches | aliases, overloads, several calls in one initializer | the proof is about the function it was typed by |
| Schema frontend | `schema/src/index.ts` | - | planFromAst, effectForPlan | exclusive and nested bounds | the plan admits the decoded values and, where a bound is given, no others |
| Command line | `cli/src/index.ts` | `process.exitCode`, handles | run, finish | host code shares the process | the exit status tells the verdict |
| Lint rules, examples, benchmarks, tests | `tools`, `examples`, `benchmarks`, `tests` | - | - | - | not part of a verification |

How they interact: a frontend returns an immutable `VerificationProgram`; the
command line (or an application) passes it to `backend.verify`, which queues one
`solve` per call on a promise chain; `solve` talks to one Z3 solver through
awaited checks. Nothing flows back except the result, so the components meet at
the program and at the verdict, and these two are what `Program` and `Verdict`
define.

## Modules

| Module | Models | Kind |
|---|---|---|
| `Program` | the IR, outcomes and results; what a verdict means | vocabulary |
| `Verdict` | the promise of a backend about one program | abstract specification |
| `Solve` | one call of `solve()` | implements `Verdict` |
| `SerialQueue` | the promise of a backend to its callers | abstract specification |
| `Backend` | `verify`, `runExclusive`, `close` | implements `SerialQueue` |
| `Divisors` | the divisor collectors | state machine over expressions |
| `Lowering` | `compileExpression` with intervals | state machine over expressions |
| `Doubles` | JavaScript numbers as the TypeScript frontend relies on them | assumptions on constants |
| `Loop` | counted loops, compiled and run | two counters side by side |
| `Syntax` | the statements and expressions of function bodies, their values | vocabulary |
| `Engine` | a JavaScript engine running a function body | reference, a statement at a time |
| `Statements` | `compileStatements` | recursive functions |
| `EffectStatements` | `lowerEffectStatements` | recursive functions |
| `FunctionBody` | a body compiled by its walker and run by the engine | composes the four above |
| `EffectOutcome` | Effect outcomes and their constraints | state machine over expressions |
| `ProofBuilder` | the class `ProofBuilder`, domains, the copy into a program | operators on builders |
| `Builder` | `compileProof` and the fibers of the proof it runs | state machine over `ProofBuilder` |
| `SchemaPlan` | `planFromAst`, `effectForPlan` | state machine over schemas and `ProofBuilder` |
| `Identity` | which function a source proof is about | operators |
| `SourceProof` | source proofs from declaration to program | composes `ProofBuilder` and `Identity` |
| `Cli` | one run of `effect-verify` | state machine |
| `SolveProofs` | theorems about `Solve` | proofs |
| `BackendProofs` | about `Backend`, `Divisors` | proofs |
| `LoweringProofs` | about `Lowering`, `Loop` | proofs |
| `EffectOutcomeProofs` | about `EffectOutcome` | proofs |
| `FunctionBodyProofs` | about `FunctionBody` and the modules it composes | proofs |
| `BuilderProofs` | about `ProofBuilder`, `Builder`, `SourceProof`, `Identity` | proofs |
| `SchemaProofs` | about `SchemaPlan` | proofs |
| `CliProofs` | about `Cli` | proofs |
| `MC*` | constants for TLC | instances |

Definitions named "Mutant of ..." are deliberately wrong variants of the
definition that follows them. They are used by no specification; each shows that
some property would notice the corresponding mistake in the code.

Where one module of proofs is about two state machines, the second has a prefix:
`CollectorSpec` in `Divisors`, `LoopSpec` in `Loop`, `SourceSpec` in
`SourceProof`. Recursion in the modules proved about is written as a recursive
function (`PowerOfTwo`, `LeavesDrawn`, both walkers), and what is selected from a sequence as
the set of its positions (`VariableLeaves`): the prover can neither unfold a
RECURSIVE operator nor a fold.

### Program and Verdict

A world gives a value to every variable and one interpretation to division by
zero, which SMT-LIB leaves open. An expression is the set of worlds where it
holds, the zero sets of the divisors that the collectors report, and whether it
compiles. `Meaningful` says which programs deserve a verdict (assertions exist,
assumptions are satisfiable and free of division, no divisor can be zero) and
`Justified` what a verdict claims. Abstracting expressions to sets of worlds
keeps everything `solve` can tell apart: it never looks inside an expression
except to collect divisors and to compile it. A divisor the collectors miss is
outside this abstraction; `Divisors` is about that.

### Solve

Each await of `solver.check()` separates two actions. `stack` holds the frames
of the solver (frame 1: bounds and assumptions), `Push` and `Pop` are the calls
of `solver.push`, `solver.add` and `solver.pop`. The solver answers truthfully
or says "unknown" or rejects. `Throw` is every exception: the inner finally
blocks pop, the outer one releases the solver, so the net effect on the stack
is the empty stack. Batches have `BatchSize` assertions, 64 in the code. What an
expression that does not compile does depends on where it is met: in a batch it
is compiled right after its divisors, alone it is compiled inside the frame of
its own check.

### Backend and SerialQueue

`verify()` and `close()` build Effects, and an Effect may be run later, so each
is two actions: `Verify` then `RunExclusive`, `Close` then `AwaitTail`. A job
points to the tail it was chained to; `Resolved` says when that promise resolves
(also when the job threw). A close that has awaited the tail goes on to
`killThreads` in two steps, `TailAwaited` and `KillThreads`. The jobs of
`Unbounded` are those whose solve may never end. The refinement maps the chained
jobs in order to the queue, the one job solving to the server, and the threads
to `running`.

### Lowering, Loop, FunctionBody, EffectOutcome

The source tree is not an input: it is chosen while it is compiled, bottom up,
each action being the return of one compile function, with the terms still
needed on a stack. Beside the interval the code computes, a term carries its
value to Z3 (exact integers) and to an engine (each operation rounded by
`Round`). In `Loop` the compiler unrolls with exact integers and the sign of the
step (`Test`), the engine counts with `Round` and evaluates the condition as
written (`Continues`). `Statements` and `EffectStatements` have the control
flow: continuations, scopes, shadowing, early returns. A walker is a function on
what it is called with (statements, scope, fallback, loop depth), given by its
rule (`StatementsFrom`): what it makes of a list from what it makes of shorter
ones. The `for` loop that composes the iterations, last one first, is the rule for
a loop with an iteration less (`AfterIteration`). The second is not an
instance of the first, as it is not in the code: its scope holds plain terms and
Effects, an initializer is tried as one and then as the other, conditions see
the plain names only, and there are no loops. `Engine` is a state machine over a
stack of blocks, each with the statements it has left and its variables: one
action per kind of statement, and one for the end of a block. It knows hoisted
constants and their dead zone, evaluates lazily, and ends with a value, an
exception or by running off the end. `FunctionBody` compiles a body with the
walker its kind of proof asks for and calls it in the engine. The functions
themselves are constants: `Syntax` asks that the parts of a list are smaller
than the list (`SyntaxAssumption`), which finite source text is, and bounds
neither nesting nor length; a loop is given by its induction values.
`EffectOutcome` takes conditions and payloads from the expression language and
keeps the triple of terms next to what the Effect does. Outside `Lowering`,
expressions are reduced to what the control needs; the modules compose through
the facts that `Lowering` establishes (terms mean what the source means,
intervals enclose values).

Not told apart: -0 and 0. The engine distinguishes them only under division and
`Object.is`, which the subset does not have.

### ProofBuilder and Builder

A builder is the record of the private fields of the class; a condition keeps
the symbols it mentions and, for a bound or a choice of literals, what it
allows. The proof is user code, so `Builder` lets it do what user code can do
between two builder calls: fork a fiber, suspend on a promise, recover from the
defect of a duplicate name, write conditions over any symbols it was handed,
end. Every builder call is one `Effect.sync`, hence one action; an input drawn
from a schema is several, and another fiber may run between them. `runSyncExit`
runs everything in one turn: `ToProgram` copies the builder when the main fiber
has ended, and fibers that were suspended go on after it. Symbols kept from
another proof are left out: nothing in the code tells them apart, and a symbol
that names no variable is refused by the backend (`RejectProgram` in `Solve`).
The largest safe integer is a constant of its own, assumed to be
`PowerOfTwo[MaxBits] - 1`: that it is so is why 53 bits are the widest domain.

### SchemaPlan

The schema is chosen as it is translated, bottom up, like the expressions of
`Lowering`. A node carries the values it decodes by Effect's predicates, beside
the limits or the plan the code computes; numbers are counted in halves, so that
some are not integers. `rejected` keeps, of what an `UnsupportedSchemaError`
refused, the integers it would have decoded, and whether it is outside the
subset that is modelled. A fractional or unsafe bound is ("overflow, empty
ranges, floats, and unknown refinements are rejected", `docs/soundness.md:9`):
such a refusal does lose integers, 2 and above for `greaterThan(1.5)`, and
`RefusesExactlyEmpty` makes no claim about it. Of chains with safe integer
bounds it says that the empty ones are refused, and no others.

Where a schema sets no bound, neither does the variable: Z3's integers are
unbounded (`z3/src/index.ts:374-379`) while `Schema.Int` decodes safe ones only.
The program then covers more than the schema decodes. `Verified` is the stronger
for it, but a `Failed` verdict may come with a counterexample past the safe
integers, which the schema decodes to nothing; `docs/usage.md:60` says of results
in general that they can exceed the safe range. `DrawnFaithful` says
so: every decoded value is covered, and any other is `Beyond` a missing bound.
Names are sequences of characters, because whether two paths can collide depends
on dots and brackets inside keys. That the JSON Schema annotation of a filter and its
predicate agree is taken from the Effect library.

### Identity and SourceProof

`SourceProof` runs a proof from `sourceFunction` or `sourceEffectFunction`
through `compileSourceProof`: `Identify` and `FindTarget` decide which function
it is about, `CheckSignature` and `BindParameter` pair domains given by position
with parameters known by name, and `Assemble` renames the inputs and bounds the
result. The compiled body is any function of the named parameters within any of
a few intervals, with a set of arguments on which an Effect fails: what
`Lowering`, `FunctionBody` and `EffectOutcome` establish about real bodies.
`isValidSourceInputs` is evaluated on the same record and compared with the
worlds of the program. In `Identity`, what the TypeScript checker resolves (the
callee of a call, the files of a type) is given. A source file is the sequence of
the statements that have to do with the name: overloads, a namesake that is not
exported, one exported by a list, a default export, in any combination that type
checks (`WellTyped`), as the proof was written against it. `Denoted` is what the
name stands for seen from another module, `MadeInPlace` whether a call in the
initializer made the proof; both are recorded when the frontend goes on
(`typedBy`, `target`) and compared with what it compiles.

### Cli

One argument per parsing step. A proof module may fail to load, set
`process.exitCode`, or leave handles behind; compiling, creating the backend and
verifying may each fail. `Held` says whether the event loop stays open.

## Runs

| Run | Instance | Shows |
|---|---|---|
| `solve` | 2 worlds, batches of 2, up to 4 assertions, every kind of assumption | `TypeOK`, `QueryExact`, `VerdictJustified`, `ErrorJustified`, refinement of `Verdict`, `Termination` |
| `backend` | 3 verifications, one of them unbounded, 2 closes | `TypeOK`, `Serialized`, `ThreadsOutliveJobs`, `ClosedAdmitsNothing`, refinement of `SerialQueue`, `ChainedSolved`, `CloseTerminates` |
| `lowering` | 7 is the largest safe integer, 6 nodes, one input of each sort | `TypeOK`, `IntervalSound`, `LoweringFaithful` |
| `divisors` | 11 nodes | `CollectsOutsideStrings` |
| `divisors_strings` | 10 nodes | violated: `CollectsEveryDivisor` |
| `loop` | all loops over -8..8 with steps up to 3, 3 iterations | `LoopTypeOK`, `UnrollingExact`, `AcceptsExactly`, `LoopEnds` |
| `statements` | bodies of three statements, one compound, all 6 calls; for Effects one tag and one undeclared; 537 thousand states | `PathsAgree` |
| `cli` | commands of up to 3 arguments, 16 modules | `ExitTellsVerdict`, `VerdictEarned`, `ProcessEnds` |
| `effect_outcome` | 2 inputs, all conditions, 6 nodes, tags "Success", "Failure", "" and "low" | `TypeOK`, `OutcomesExact`, `FailuresDeclared` |
| `builder` | 2 fibers, 2 variables, 1 assumption and 1 assertion, 3-bit integers, five kinds of input | `TypeOK`, `SymbolsDenote`, `ProgramClosed`, `ProgramConstrained`, `InputsAccepted` |
| `source_proof` | up to 2 inputs over one-bit, half-open and boolean domains; names x, input0, result; up to 2 calls in the initializer and 2 statements of that name | `IdentityHolds`, `InputsAgree`, `OutcomeExact`, `NamesTold` |
| `schema_plan` | up to 5 nodes, safe integers -3..3 and numbers past them | `LimitsExact`, `RefusesExactlyEmpty`, `DrawnFaithful` |

Why the bounds are enough. `solve`: batches of two with four assertions give two
full batches, or a full one and a last batch of one, which are the paths
`checkAssertions` has; two worlds tell proved from refuted and feasible from
not. `backend`: two jobs overlap or do not, the third stands behind both; with
two closes one can find the flag set by the other. `lowering`: six nodes hold a
comparison of two sums or a product of differences, and 8 and 9 are the first
values past the limit and past exactness. `loop`: the range passes both limits
on both sides. `statements`: one compound with nested conditionals contains
every pair of statement kinds in sequence or nested. `builder`: two variables
collide under an explicit and a generated name, and one fiber is in the middle
of an input, or outlives the copy, while the other goes on. `source_proof`: two
inputs can be swapped, share a name with each other, with the result or with a
generated name; 150 thousand states, every small function as the body; two
statements are a function with its overload, or an export next to a namesake.
`schema_plan`: three filters on a number cross, overflow and repeat, and five
nodes hold a record in a tuple, or two fields whose paths collide. `cli`: the third argument
is the first one too many. Where a proof exists (below), the bound matters no
longer.

`CHECK_DEADLOCK FALSE` stands where the system really stops: when all calls are
answered, or the source is compiled. `Solve` and `Cli` end in an explicit
stuttering action instead, so there a deadlock would be found.

Fairness. `Solve` and `Cli`: weak fairness of the next step, because every
await settles (a check answers, or rejects when its worker dies) and JavaScript
between awaits runs on; the unreferenced timer fires. `Backend`: weak fairness
of continuations on resolved promises, of the end of a solve, and of
`killThreads`; no fairness of callers. A solve is certain to end only if
`timeoutMilliseconds` is set or Z3 terminates, so nothing is required of the jobs
in `Unbounded`: when one of them does not end, those behind it and `close()`
wait forever, and `ChainedSolved` and `CloseTerminates` say that nothing else is
held up (the hazard at line 503). `Loop`: the
compiler and the engine keep running.

## Disagreements between code and documentation

1. `docs/soundness.md:39` allows `div` and `mod` "in assertions when every
   divisor is nonzero under all assumptions" and rejects them inside
   assumptions. The collectors never enter a String conditional
   (`z3/src/index.ts:91`), so a division in its condition escapes both checks
   (run `divisors_strings`).

The others have a configuration under which TLC finds the counterexample, kept
beside the runs:

2. `docs/soundness.md:59`: "Node worker threads are cleaned up when the backend
   is closed". After a failed `killThreads` a second `close()` succeeds with the
   threads alive (`MCBackendClose.cfg`, `CloseCleansUp`).
3. `docs/soundness.md:25`: "Local shadowing is rejected rather than resolved".
   Not behind a return: `{ return x; const x = 1; }` with a parameter `x` is
   accepted with the term of the parameter, and the engine finds `x` in its dead
   zone and throws (`MCStatementsDead.cfg`, `PathsAgree`).
4. `docs/architecture.md:70`: exit status "0 when the result is `Verified`". A
   proof module that sets `process.exitCode` decides the status
   (`MCCliExitCode.cfg`, `VerifiedExitsZero`).
5. `docs/soundness.md:41`: "Missing, ambiguous, unresolved, or mismatched
   identity fails closed". `selectedSourceType` counts the calls of the core API
   in the initializer and does not ask which of its parts makes the proof: with
   `cond ? Verify.sourceFunction<A>(...) : helper()` a proof that `helper` made
   for another module passes when its `sourceFile` is that of `A`
   (`MCSourceProofHelper.cfg`, `IdentityFailsClosed`). `IdentityHolds` says of
   the module what remains: a proof made in the initializer of its export.
6. The same sentence, for the function: `exportedCandidates` takes
   `export default function f`, which the module does not export as `f`; next to
   `export { g as f }` the frontend compiles another function than the one
   typed (`MCSourceProofDefault.cfg`, `IdentityFailsClosed`). `IdentityHolds` is
   about every other function that is found.
7. `cli/src/index.ts:175` and `docs/usage.md:45` recommend exporting a proof as
   `default`. For a source proof the frontend looks for an exported variable of
   that name (`typescript/src/index.ts:1090`), which `export default` does not
   declare, so that such a proof always ends in an error: in the model it is a
   proof module without initializers, which `Identify` refuses.

## Proofs

All theorems hold for every value of the constants, under the named assumptions
of each module; TLC evaluates these on each run. None is taken on trust.

- `SolveProofs`. `IInv` says what the stack contains at each `pc` (one frame, or
  one frame and the query in flight), that the outcomes cover exactly the
  assertions before the current one and are truthful, that the divisors of the
  current batch up to the cursor are nonzero, and that the assumptions were
  found satisfiable; `ended` records the answer that ended the call, and where.
  `QueryExact`, `VerdictJustified` and `ErrorJustified` follow; the last counts a
  batch check that rejects among the failures that cost a verdict, and a batch
  answered "unknown" not. `VerdictJustified` alone is not inductive: it says nothing until the
  result is there. `SolveImplementsVerdict` maps every step to `Decide` or a
  stutter. Assumed: `ProgramsAssumption` (programs are well formed) and
  `BatchSize` positive.
- `BackendProofs`. `BInv`: each chained job points to its predecessor in
  `order`, the tail is the last of `order`, only the head of the unsettled ones
  is solving, and while the backend is closed a waiting close waits for the last
  job and one at the threads has seen it settle. Serialization and the life of
  the threads follow; that a closed backend admits nothing needs no invariant,
  as only `runExclusive` extends the chain. `BackendImplementsQueue` is the
  refinement of `SerialQueue`, step by step: the jobs that have begun are a
  prefix of `order` (`BegunIsPrefix`), so the abstract queue is what is left of
  it, `RunExclusive` appends to it, `StartSolve` takes its head, `EndSolve`
  answers, a `KillThreads` that succeeds stops, and all else stutters. Assumed:
  `None` is no job.
  For `Divisors`, `DInv`: the expressions on the stack share no divisor, and
  each is collected but for what it hides. Without the first part the second is
  not inductive: a divisor hidden in one operand could be collected from
  another. Assumed: `MaxNodes` is a number.
- `LoweringProofs`. `LInv`: every term on the stack is exact (smt = js) and
  enclosed in its interval, which is safe. The step for a product needs that a
  product over a box takes its extremes at corners.
  For loops, `CInv`: the unrolled values, followed by the one about to be
  tested, form the progression from `start` by `step`; the engine has run a
  prefix of them and its counter is the next one; a loop being unrolled is
  canonical. The last part is what makes the compiler's test, which takes its
  direction from the step, agree with the condition the engine evaluates.
  `RInv` adds how many values were unrolled: at most the closed form `Count`,
  exactly that many on acceptance, and on rejection one of the three reasons of
  `AcceptsExactly` holds of the loop as a whole (`TestIffBelowCount`,
  `StuckIsUnacceptable`). Assumed: the two assumptions of `Doubles`, `Round`
  being the identity on safe integers, which IEEE 754 doubles satisfy.
- `FunctionBodyProofs`. `IInv` says of a call that every block on the stack has a
  ghost: a scope, a loop depth and a term such that the term is what the walker
  makes of the statements the block has left, in that scope, with the term of
  the block below as what follows them; that the variables of the block hold
  what the scope has for them (`Agrees`); and that the term of the innermost
  block has the value of the term of the whole function. `PathsAgree` alone says
  nothing until the call ends. A step replaces what the innermost block has left
  (`GoesOn`), enters a block (`Enters`) or leaves one (`LeaveBlockStep`), and the
  rule of the walker for that statement gives the new ghosts: what follows an
  `if` is the fallback of either branch, what follows an iteration is the loop
  with an iteration less. That entering a block hides no name in scope is
  `NoShadow`: a list that declares such a name is rejected. It is false behind a
  return, where the walkers do not look, hence the hypothesis
  `NothingBehindReturn` (disagreement 3). The ghosts are quantified in `IInv`,
  over all terms, so that TLC cannot evaluate it; it checks `PathsAgree`.
  Both walkers, expressions and their evaluation are recursive functions, and
  that such a function obeys its rule has to be shown: `Recursion` shows, by
  induction over sets of numbers, that a rule which asks for smaller arguments
  only has a function that obeys it, `SizeInduction` that what holds of a list or
  an expression if it holds of all smaller ones holds of all. Assumed:
  `SyntaxAssumption`, `SignatureAssumption` (arguments and parameters have the
  sorts the signature gives them), `SourceAssumption`.
- `BuilderProofs`. The invariant says that ids are positions, names are distinct
  and recorded, formulas mention recorded variables only, and what user code was
  handed is recorded with its bounds and its choice. Builders only grow, so what
  was recorded of a symbol stays so. `ProgramConstrained` also needs that no
  fiber is between an allocation and its choice when the builder is copied: a
  fiber that is suspended, ended or died is in user code, which is what makes
  the drawing of an input atomic for the copy. That is `TypeOK`.
  `InputsAccepted` needs powers of two: a recursive function has the value its
  equation says only if some function satisfies it, which is shown by induction
  on the set of numbers up to which one does (`DoublesExists`, `DoublesUnique`,
  `PowerOfTwoDef`); that powers grow (`PowerOfTwoGrows`) then bounds every bit
  domain by the widest, hence by the safe integers. Assumed:
  `FibersAssumption`, `SchemasAssumption`, `BuilderAssumption`.
  For source proofs, `SourceInv` follows a proof through the phases: `Shape`, the
  inputs are the first variables of the program, in the order of the domains,
  and the outcome the last; `BoundTo`, the first k parameters are distinct and
  bound to the first k inputs; `Assembled`, the compiled program is the shape
  with the inputs renamed and the outcome constrained. `NamesTold` is read off
  it. `OutcomeExact` and `InputsAgree` need more: a world is determined by the
  values of the inputs, since the body is a function of the parameters, and each
  list of acceptable arguments has such a world. `IdentityTheorem` needs of the
  module that a call which makes the proof is a call of the core API, hence the
  only one (`MadeByTheCall`), and of the file that what shares the name of the
  candidate is an overload of it, hence a candidate too, of which there is only
  one, with a body (`OnlyCandidateDenoted`). It is about all modules and files;
  what `IdentityHolds` leaves out is false (disagreements 5 and 6). Assumed
  besides: the assumptions of `SourceProof` on options, declarations, candidates
  and names, which say what the types of the API say, that source files type
  check (`SourceFilesAssumption`), and that the probe holds the bounded domains.
- `SchemaProofs`. `SInv`: the limits of every node leave the integers it
  decodes, the leaves of every plan are sound and decode something, and no refusal
  of a modelled chain lost an integer.
  It rests on one lemma for a filter from below and one from above
  (`AtLeastExact`, `AtMostExact`): on integers, Effect's predicate and the
  endpoint the code computes say the same, for exclusive bounds too. Limits and
  decoded values are intersections, so the agreement survives any chain of
  filters; limits in order leave an integer, limits out of order none
  (`OrderedIsNonempty`, `UnorderedIsEmpty`). A leaf is sound (`LeafSound`) when
  its domain and choice leave what it decodes and, without a bound, what is past
  the safe integers; a union's range from the least to the greatest of its
  values loses none of them (`MinMaxHalves`), a path and a record around a leaf
  change neither. `DrawnFaithful` adds the drawing (`Drawn`): after k leaves, the
  variables are those of the k leaves that have one, in order, and each
  condition is about one symbol, so that a later leaf leaves what was said of an
  earlier one alone. Assumed: `SchemaAssumption`, `KeysAssumption`,
  `UnionsAssumption`, `BuilderAssumption`, which say what values the constants
  range over.
- `CliProofs`. `EInv`: nothing refused has been parsed, the module is loaded
  after all is parsed, and whatever is compiled was selected without ambiguity;
  `VerdictEarned` follows. `SInv`: a run that printed a verdict is not failing,
  `process.exitCode` tells a failed verdict until `finish` writes what it must,
  and after it the status is what the run told, whether the event loop drains or
  the timer fires. `CliExitTellsVerdict` has the hypothesis that proof modules
  write no error status of their own to `process.exitCode`: with one that does
  the property is false (disagreement 4). Assumed: `CliAssumption`.
- `EffectOutcomeProofs`. `EInv`: every triple on the stack is faithful (its
  variant agrees with the Effect, its active part too, its interval encloses its
  payload). `OutcomesExact` needs a witness world for each input and that no
  other world differs in what the assertion looks at. Assumed: payload intervals
  enclose payloads, which is `IntervalSound` of `Lowering`.

Model-checked only: liveness (`Termination`, `ChainedSolved`, `CloseTerminates`,
`LoopEnds`, `ProcessEnds`), because the prover has no fairness rules. Every
safety property of a passing run has a theorem. The state machines of
`Divisors`, `FunctionBody`, `SchemaPlan`, `SourceProof` and `Cli` have no type
invariant of their own: their values are built by the definitions that read
them, and a mistaken one shows in the properties above.

## Not modelled

Formatting of labels, messages and JSON; what the TypeScript checker resolves
(`sourceFunctionSymbols`, `effectMethodSymbols`, `effectTypeSignature`); file
system and module resolution; Node beyond the event loop being open or not,
hence a proof module that never settles; Z3 itself, which is an oracle, and the
translation of the IR to its terms, one constructor per constructor; guards
against records forged by the host (`isSourceEffectProof`, sparse arrays), which
the types of the models exclude; lint rules, examples, benchmarks.

## Plan

Done, in this order: `Solve` (the verdict), `Backend` (sharing it), `Lowering`,
`Loop` and `Statements` (the meaning of source proofs), `Divisors`,
`EffectOutcome`, `Cli`, `ProofBuilder` and `Builder`, `SourceProof`,
`SchemaPlan`, `Engine`, `EffectStatements` and `FunctionBody`, `Identity`. Every
safety property is proved.

Next:

1. Composition of `Backend` with `Solve`: what callers see, end to end.
2. `SourceProof` over the terms of `EffectOutcome` instead of any function.
3. Loops of `FunctionBody` given by `Loop` instead of by their induction values.
