--------------------------- MODULE MCSourceProof ---------------------------
(***************************************************************************)
(* Up to two inputs over one-bit, half-open and boolean domains, and       *)
(* parameters called x, like a generated input, or like the result.  The   *)
(* declared names and forms agree with the proof or not.  The proof's      *)
(* initializer holds up to two calls, one of which makes it unless a helper*)
(* does; up to two statements of the source file have to do with the name, *)
(* in every way in which the file has no type errors.                      *)
(***************************************************************************)
EXTENDS SourceProof

MCRequests ==
    {IntegerRequest(0, 1), IntegerRequest(None, 1), BooleanRequest}

MCOptions ==
    [kind: {"SourceProof", "SourceEffectProof"}, sourceFile: {"source.ts"},
     domains: UNION {[1..n -> MCRequests] : n \in 0..2}, resultSort: {None, "Bool"}]
    \cup [kind: {"SourceProof"}, sourceFile: {""}, domains: {<< >>}, resultSort: {None}]

MCParameters ==
    [name: {NameOf("x"), Generated(0), NameOf("result")}, form: {"number", "boolean"}]
    \cup [name: {NameOf("x")}, form: {"optional"}]

MCDeclarations ==
    [parameters: UNION {[1..n -> MCParameters] : n \in 0..2},
     returns: {"Int", "Bool"}, modifier: {"none"}]
    \cup [parameters: {<< >>}, returns: {"Int", "Other"}, modifier: {"async", "generic"}]

MCCalls ==
    [callee: {"core"}, files: SUBSET {"source.ts", "other.ts"}]
    \cup [callee: {"namesake", "other"}, files: {{}}]

MCInitializers == UNION {[1..n -> MCCalls] : n \in 0..2}

\* The proof made by a helper, next to a call of the core API that is not run.
MCHelperModules ==
    {[resolves |-> TRUE, initializers |-> <<<<c, d>>>>, made |-> d] :
        c \in {c \in MCCalls : c.callee = "core"}, d \in [callee: {"other"}, files: {{}}]}

MCInPlaceModules ==
    {m \in [resolves: {TRUE}, initializers: {<<i>> : i \in MCInitializers},
             made: {c \in MCCalls : c.callee = "core"}] : MadeInPlace(m)}

MCProofModules ==
    MCInPlaceModules \cup MCHelperModules
    \cup UNION {[resolves: BOOLEAN, initializers: {<< >>, <<<< >>>>, <<<<c>>, <<c>>>>},
                 made: {c}] : c \in {d \in MCCalls : d.callee = "core"}}

\* Only functions have overloads, or are exported as default by their name.
MCStatements ==
    [form: {"function"}, named: {TRUE}, exported: {"no", "name", "default"},
     listed: BOOLEAN, constant: {FALSE}, body: BOOLEAN]
    \cup [form: {"arrow", "other"}, named: {TRUE}, exported: {"no", "name"},
          listed: BOOLEAN, constant: BOOLEAN, body: {TRUE}]
    \cup [form: {"function", "arrow"}, named: {FALSE}, exported: {"no"},
          listed: {TRUE}, constant: {FALSE}, body: {TRUE}]

ByDefault(f) == \E k \in DOMAIN f : f[k].exported = "default"

\* An export under its own name or as default is not listed as well, and comes
\* before one that is.  Next to a default export the name denotes another one:
\* if it denoted none, TypeScript would refuse the proof.
MCSourceFiles ==
    {f \in UNION {[1..n -> {s \in MCStatements : s.exported # "no" => ~s.listed}] :
                      n \in 0..2} :
        /\ WellTyped(f)
        /\ Len(f) = 2 /\ f[1].listed => f[2].exported = "no"
        /\ ByDefault(f) => Denoted(f) # {}}

MCNamedFiles == {f \in MCSourceFiles : ~ByDefault(f)}

MCDefaultFiles == {f \in MCSourceFiles : ByDefault(f)}

MCArguments ==
    {Number(n) : n \in -1..2}
    \cup {Number(MaxSafe + 1), Boolean(FALSE), Boolean(TRUE), Text("1")}

MCCandidates ==
    UNION {[1..n -> MCArguments] : n \in 0..2} \cup {<<Number(0), Number(0), Number(0)>>}

MCProbe == -1..2

MCIntervals == {<<0, 1>>, <<-1, 0>>}
=============================================================================
