---------------------------- MODULE ProofBuilder ----------------------------
(***************************************************************************)
(* packages/core: the domains of symbolic inputs, and the mutable builder  *)
(* that collects a proof's variables, assumptions and assertions.  The     *)
(* operators take a builder and return it changed; the modules that extend *)
(* this one say who calls them and when.                                   *)
(***************************************************************************)
EXTENDS Integers, Sequences

CONSTANTS
    None,       \* null or undefined: no bound, no name, no choice
    MaxBits,    \* the widest bit domain, 53 in the code
    MaxSafe     \* Number.MAX_SAFE_INTEGER

\* 2 ** n
PowerOfTwo[n \in Nat] == IF n = 0 THEN 1 ELSE 2 * PowerOfTwo[n - 1]

ASSUME BuilderAssumption ==
    /\ None \notin Int
    /\ MaxBits \in Nat \ {0}
    /\ MaxSafe \in Nat
    /\ MaxSafe = PowerOfTwo[MaxBits] - 1

Safe(v) == v = None \/ (-MaxSafe <= v /\ v <= MaxSafe)

\* Mutant of Ordered: a range of one integer is taken to be empty.
OrderedStrictly(minimum, maximum) ==
    minimum = None \/ maximum = None \/ minimum < maximum

\* Mutant of Ordered: a range is taken to hold one integer more.
OrderedLoosely(minimum, maximum) ==
    minimum = None \/ maximum = None \/ minimum <= maximum + 1

Ordered(minimum, maximum) == minimum = None \/ maximum = None \/ minimum <= maximum

-----------------------------------------------------------------------------
(* Domains.  A request is what a proof asks for; an invalid one throws.    *)

IntegerRequest(minimum, maximum) ==
    [kind |-> "integer", minimum |-> minimum, maximum |-> maximum]

BitsRequest(kind, bits) == [kind |-> kind, bits |-> bits]

BooleanRequest == [kind |-> "boolean"]

StringRequest == [kind |-> "string"]

\* What the types of the API let a proof ask for, by the kind of request.
IsRequest(request) ==
    CASE request.kind = "integer" ->
            {request.minimum, request.maximum} \subseteq Int \cup {None}
      [] request.kind \in {"uint", "int"} -> request.bits \in Int
      [] OTHER -> request \in {BooleanRequest, StringRequest}

\* Mutant of Valid: a bit domain may be one bit too wide.
ValidUpTo54(request) ==
    CASE request.kind = "integer" ->
            /\ Safe(request.minimum)
            /\ Safe(request.maximum)
            /\ Ordered(request.minimum, request.maximum)
      [] request.kind \in {"uint", "int"} -> request.bits \in 1..(MaxBits + 1)
      [] OTHER -> TRUE

Valid(request) ==
    CASE request.kind = "integer" ->
            /\ Safe(request.minimum)
            /\ Safe(request.maximum)
            /\ Ordered(request.minimum, request.maximum)
      [] request.kind \in {"uint", "int"} -> request.bits \in 1..MaxBits
      [] OTHER -> TRUE

Domain(sort, minimum, maximum) ==
    [sort |-> sort, minimum |-> minimum, maximum |-> maximum]

DomainOf(request) ==
    CASE request.kind = "integer" -> Domain("Int", request.minimum, request.maximum)
      [] request.kind = "uint"    -> Domain("Int", 0, PowerOfTwo[request.bits] - 1)
      [] request.kind = "int"     -> Domain("Int", -PowerOfTwo[request.bits - 1],
                                                   PowerOfTwo[request.bits - 1] - 1)
      [] request.kind = "boolean" -> Domain("Bool", None, None)
      [] request.kind = "string"  -> Domain("String", None, None)

-----------------------------------------------------------------------------
(* Symbols, and the conditions built from them.  A condition is reduced to *)
(* the symbols it mentions and, for the three kinds the library builds     *)
(* itself, the values it allows.                                           *)

Symbol(id, sort) == [id |-> id, sort |-> sort]

Gte(symbol, bound) == [kind |-> "Gte", symbols |-> {symbol}, allows |-> bound]

Lte(symbol, bound) == [kind |-> "Lte", symbols |-> {symbol}, allows |-> bound]

OneOf(symbol, values) == [kind |-> "OneOf", symbols |-> {symbol}, allows |-> values]

Condition(symbols) == [kind |-> "Condition", symbols |-> symbols, allows |-> None]

\* What allocateInteger assumes about the value it returns.
BoundConditions(symbol, domain) ==
    (IF domain.minimum = None THEN {} ELSE {Gte(symbol, domain.minimum)})
    \cup (IF domain.maximum = None THEN {} ELSE {Lte(symbol, domain.maximum)})

-----------------------------------------------------------------------------
(* The builder.                                                            *)

NewBuilder == [variables |-> << >>, assumptions |-> {}, assertions |-> << >>,
               names |-> {}, nextVariableId |-> 0]

\* The name input<id>.
Generated(id) == <<"input", id>>

NameFor(b, requested) ==
    IF requested = None THEN Generated(b.nextVariableId) ELSE requested

\* Mutant of Duplicate: only a name the proof gave is looked up.
DuplicateRequested(b, requested) == requested # None /\ requested \in b.names

\* registerVariable throws, before it changes anything.
Duplicate(b, requested) == NameFor(b, requested) \in b.names

RegisterVariable(b, requested, domain) ==
    [b EXCEPT
        !.variables = Append(@, [id      |-> b.nextVariableId,
                                 name    |-> NameFor(b, requested),
                                 sort    |-> domain.sort,
                                 minimum |-> domain.minimum,
                                 maximum |-> domain.maximum]),
        !.names = @ \cup {NameFor(b, requested)},
        !.nextVariableId = @ + 1]

\* The symbol the next allocation returns.
NextSymbol(b, domain) == Symbol(b.nextVariableId, domain.sort)

AddAssumption(b, condition) == [b EXCEPT !.assumptions = @ \cup {condition}]

AddAssertion(b, condition) ==
    [b EXCEPT !.assertions = Append(@, [id |-> Len(@), expression |-> condition])]

Allocate(b, requested, domain) ==
    [RegisterVariable(b, requested, domain) EXCEPT
        !.assumptions = @ \cup BoundConditions(NextSymbol(b, domain), domain)]

\* Mutant of ToProgram: inputs no assertion mentions are left out.
ToProgramUsed(b) ==
    [variables   |-> SelectSeq(b.variables,
                        LAMBDA v : \E i \in DOMAIN b.assertions :
                            Symbol(v.id, v.sort) \in b.assertions[i].expression.symbols),
     assumptions |-> b.assumptions,
     assertions  |-> b.assertions]

ToProgram(b) == [variables   |-> b.variables,
                 assumptions |-> b.assumptions,
                 assertions  |-> b.assertions]

NoProgram == ToProgram(NewBuilder)

Mentioned(program) ==
    UNION ({a.symbols : a \in program.assumptions}
           \cup {program.assertions[i].expression.symbols : i \in DOMAIN program.assertions})

-----------------------------------------------------------------------------
(* registerVariables of the Z3 backend, which trusts no frontend: distinct *)
(* ids, bounds on integers only, safe and in order.                        *)
Accepts(variables) ==
    /\ \A i, j \in DOMAIN variables : variables[i].id = variables[j].id => i = j
    /\ \A i \in DOMAIN variables :
          IF variables[i].sort = "Int"
            THEN /\ Safe(variables[i].minimum)
                 /\ Safe(variables[i].maximum)
                 /\ Ordered(variables[i].minimum, variables[i].maximum)
            ELSE variables[i].minimum = None /\ variables[i].maximum = None
=============================================================================
