----------------------------- MODULE SchemaPlan -----------------------------
(***************************************************************************)
(* packages/schema: planFromAst translates an Effect Schema, bottom up, to *)
(* a plan, and effectForPlan draws the inputs of the plan from the proof   *)
(* builder.  The schema is chosen as it is translated: each step is the    *)
(* return of one function, and the stack holds what its callers wait for.  *)
(*                                                                         *)
(* Beside what the code computes, a node carries the values it decodes,    *)
(* which is what Effect's predicates say and the plan should say too.      *)
(* Numbers are counted in halves, so that some are not integers.           *)
(***************************************************************************)
EXTENDS ProofBuilder, SequencesExt

CONSTANTS
    Numbers,        \* numbers, in halves: all safe integers are among them
    Strings,        \* the strings
    Refinements,    \* the filters a number schema may go through
    Unions,         \* the unions of literals: sequences of literals
    Keys,           \* field names, as sequences of characters
    MaxNodes        \* bound on the nodes of the schema

(***************************************************************************)
(* A literal has a sort, "Other" for those that are no boolean, number or  *)
(* string, and a value; a refinement has an id, "other" for any filter but *)
(* the five, and a bound.                                                  *)
(***************************************************************************)
ASSUME SchemaAssumption ==
    /\ Numbers \subseteq Int
    /\ \A n \in -MaxSafe..MaxSafe : 2 * n \in Numbers
    /\ MaxNodes \in Nat
    /\ Refinements \subseteq
            [id: {"int", "greaterThanOrEqualTo", "lessThanOrEqualTo",
                  "greaterThan", "lessThan", "other"}, bound: Int]

\* What the path of a variable is written with.
Characters ==
    {".", "[", "]", ToString(0), ToString(1)}
    \cup UNION {UNION {{keys[k][i] : i \in DOMAIN keys[k]} : k \in DOMAIN keys} : keys \in Keys}

ASSUME KeysAssumption ==
    /\ \A keys \in Keys : keys \in Seq(Seq(Characters))
    /\ None \notin Seq(Characters)

\* The values of the literals of a union.
Values(union) == {union[i].value : i \in DOMAIN union}

ASSUME UnionsAssumption ==
    \A union \in Unions :
        /\ union = [i \in 1..Len(union) |-> union[i]]
        /\ None # Values(union)
        /\ \A i \in DOMAIN union :
              CASE union[i].sort = "Bool"   -> union[i].value \in BOOLEAN
                [] union[i].sort = "String" -> union[i].value \in Strings
                [] union[i].sort = "Int"    -> union[i].value \in Numbers
                [] OTHER                    -> union[i].sort = "Other"

VARIABLES
    stack,      \* nodes translated and not yet part of another
    rejected,   \* what an UnsupportedSchemaError refused, or None
    nodes,      \* how many nodes have been translated
    builder     \* the builder, once the plan is drawn from it

vars == <<stack, rejected, nodes, builder>>

SafeInteger(n) == -MaxSafe <= n /\ n <= MaxSafe

\* Number.isSafeInteger
IsWhole(v) == v % 2 = 0 /\ SafeInteger(v \div 2)

-----------------------------------------------------------------------------
(* Number schemas.                                                         *)

\* The values Effect's filter lets through.
Passes(r, v) ==
    CASE r.id = "int"                  -> IsWhole(v)
      [] r.id = "greaterThanOrEqualTo" -> v >= r.bound
      [] r.id = "lessThanOrEqualTo"    -> v <= r.bound
      [] r.id = "greaterThan"          -> v > r.bound
      [] r.id = "lessThan"             -> v < r.bound
      [] r.id = "other"                -> TRUE

Limits(isInteger, minimum, maximum, decodes) ==
    [kind |-> "limits", isInteger |-> isInteger,
     minimum |-> minimum, maximum |-> maximum, decodes |-> decodes]

ApplyMinimum(current, next) ==
    IF current = None \/ current < next THEN next ELSE current

ApplyMaximum(current, next) ==
    IF current = None \/ next < current THEN next ELSE current

\* The bound a filter imposes on integers, from its JSON Schema annotation.
Endpoint(r) ==
    CASE r.id = "greaterThan" -> r.bound \div 2 + 1
      [] r.id = "lessThan"    -> r.bound \div 2 - 1
      [] OTHER                -> r.bound \div 2

\* refinementLimits returns, rather than throws.
Modeled(r) ==
    \/ r.id = "int"
    \/ r.id # "other" /\ IsWhole(r.bound) /\ SafeInteger(Endpoint(r))

\* Mutant of RefinementLimits: each bound replaces the one before it.
RefinementLimitsLast(base, r) ==
    LET decodes == {v \in base.decodes : Passes(r, v)}
    IN  CASE r.id = "int" -> Limits(TRUE, base.minimum, base.maximum, decodes)
          [] r.id \in {"greaterThanOrEqualTo", "greaterThan"} ->
                Limits(base.isInteger, Endpoint(r), base.maximum, decodes)
          [] r.id \in {"lessThanOrEqualTo", "lessThan"} ->
                Limits(base.isInteger, base.minimum, Endpoint(r), decodes)

RefinementLimits(base, r) ==
    LET decodes == {v \in base.decodes : Passes(r, v)}
    IN  CASE r.id = "int" -> Limits(TRUE, base.minimum, base.maximum, decodes)
          [] r.id \in {"greaterThanOrEqualTo", "greaterThan"} ->
                Limits(base.isInteger, ApplyMinimum(base.minimum, Endpoint(r)),
                       base.maximum, decodes)
          [] r.id \in {"lessThanOrEqualTo", "lessThan"} ->
                Limits(base.isInteger, base.minimum,
                       ApplyMaximum(base.maximum, Endpoint(r)), decodes)

-----------------------------------------------------------------------------
(* Plans.  A plan is the sequence of its leaves, depth first: a literal, or*)
(* a variable with a domain and the choice of values it is constrained to. *)

Leaf(sort, request, choice, decodes) ==
    [name |-> << >>, sort |-> sort, request |-> request, choice |-> choice,
     decodes |-> decodes]

LiteralLeaf(l) == Leaf(l.sort, None, l.value, {l.value})

Plan(leaves) == [kind |-> "plan", leaves |-> leaves]

\* Number.isSafeInteger is what tells an integer literal from the others.
LiteralModeled(l) ==
    \/ l.sort \in {"Bool", "String"}
    \/ l.sort = "Int" /\ IsWhole(l.value)

ChoiceRequest(sort, values) ==
    CASE sort = "Bool"   -> BooleanRequest
      [] sort = "String" -> StringRequest
      [] sort = "Int"    -> LET whole == {v \div 2 : v \in values}
                            IN  IntegerRequest(Min(whole), Max(whole))

\* booleanUnionPlan, stringUnionPlan and integerUnionPlan
UnionLeaf(union) ==
    IF Cardinality(Values(union)) = 1
      THEN LiteralLeaf(union[1])
      ELSE Leaf(union[1].sort, ChoiceRequest(union[1].sort, Values(union)),
                Values(union), Values(union))

UnionModeled(union) ==
    /\ union # << >>
    /\ \A i \in DOMAIN union : LiteralModeled(union[i]) /\ union[i].sort = union[1].sort

Prefixed(plan, prefix) ==
    [i \in DOMAIN plan.leaves |-> [plan.leaves[i] EXCEPT !.name = prefix \o @]]

-----------------------------------------------------------------------------
(* Translation.                                                            *)

Init ==
    /\ stack = << >>
    /\ rejected = None
    /\ nodes = 0
    /\ builder = None

\* One node, which consumes the last n of the stack.
Translate(n) ==
    /\ rejected = None
    /\ builder = None
    /\ nodes < MaxNodes
    /\ Len(stack) >= n
    /\ nodes' = nodes + 1
    /\ UNCHANGED builder

Return(n, node) ==
    /\ stack' = Append(SubSeq(stack, 1, Len(stack) - n), node)
    /\ UNCHANGED rejected

\* unsupported(): lost are the integers the refused node decodes; it is excluded
\* if it is outside the subset that is modelled, whatever it decodes.
Unsupported(excluded, lost) ==
    /\ rejected' = [excluded |-> excluded, lost |-> lost]
    /\ UNCHANGED stack

WholeIn(values) == {v \in values : IsWhole(v)}

Top == stack[Len(stack)]

TopIs(kind) == Len(stack) > 0 /\ Top.kind = kind

BooleanKeyword ==
    /\ Translate(0)
    /\ Return(0, Plan(<<Leaf("Bool", BooleanRequest, None, BOOLEAN)>>))

NumberKeyword == Translate(0) /\ Return(0, Limits(FALSE, None, None, Numbers))

\* A plan that IntegerPlan made: all its refinements have been applied.
IsIntegerPlan(node) ==
    /\ node.kind = "plan"
    /\ \E leaf \in {node.leaves[i] : i \in DOMAIN node.leaves} :
          /\ node.leaves = <<leaf>>
          /\ leaf.name = << >> /\ leaf.sort = "Int" /\ leaf.choice = None

\* A refinement of anything but a number is not an integer schema, and only
\* bounds that are safe integers are modelled.
Refine(r) ==
    /\ Translate(1)
    /\ ~IsIntegerPlan(Top)
    /\ IF TopIs("limits") /\ Modeled(r)
         THEN Return(1, RefinementLimits(Top, r))
         ELSE Unsupported(~TopIs("limits") \/ r.id = "other" \/ ~IsWhole(r.bound),
                          IF TopIs("limits")
                            THEN WholeIn({v \in Top.decodes : Passes(r, v)}) ELSE {})

\* integerPlan, once the last refinement is applied.
IntegerPlan ==
    /\ Translate(1)
    /\ TopIs("limits")
    /\ IF Top.isInteger /\ Ordered(Top.minimum, Top.maximum)
         THEN Return(1, Plan(<<Leaf("Int", IntegerRequest(Top.minimum, Top.maximum),
                                   None, Top.decodes)>>))
         ELSE Unsupported(~Top.isInteger, WholeIn(Top.decodes))

Literal(l) ==
    /\ Translate(0)
    /\ IF LiteralModeled(l) THEN Return(0, Plan(<<LiteralLeaf(l)>>))
                            ELSE Unsupported(TRUE, {})

Union(union) ==
    /\ Translate(0)
    /\ IF UnionModeled(union) THEN Return(0, Plan(<<UnionLeaf(union)>>))
                              ELSE Unsupported(TRUE, {})

\* A record of one or two fields.  An optional field may decode to nothing.
RecordPlan(keys, optional) ==
    /\ Translate(Len(keys))
    /\ \A k \in 1..Len(keys) : stack[Len(stack) - Len(keys) + k].kind = "plan"
    /\ IF optional
         THEN Unsupported(TRUE, {})
         ELSE Return(Len(keys),
                Plan(FlattenSeq([k \in 1..Len(keys) |->
                    Prefixed(stack[Len(stack) - Len(keys) + k], <<".">> \o keys[k])])))

\* A tuple of n elements, rest and optional elements unsupported.
TuplePlan(n, open) ==
    /\ Translate(n)
    /\ \A k \in 1..n : stack[Len(stack) - n + k].kind = "plan"
    /\ IF open
         THEN Unsupported(TRUE, {})
         ELSE Return(n, Plan(FlattenSeq([k \in 1..n |->
                Prefixed(stack[Len(stack) - n + k], <<"[", ToString(k - 1), "]">>)])))

\* Any other node of the AST: a string, a transformation, a declaration...
OtherNode == Translate(0) /\ Unsupported(TRUE, {})

-----------------------------------------------------------------------------
(* effectForPlan: each leaf is allocated under the path that leads to it,  *)
(* then constrained to its choice.  A path that is taken is a defect.      *)

LeafSymbol(b, leaf) == NextSymbol(b, DomainOf(leaf.request))

\* Sym.literal: a literal term has a sort.
Literals(leaf) == {<<leaf.sort, v>> : v \in leaf.choice}

\* Mutant of DrawLeaf: a choice is left to its domain.
DrawLeafUnchosen(b, leaf) ==
    IF b = None \/ leaf.request = None THEN b
    ELSE IF Duplicate(b, leaf.name) THEN None
    ELSE Allocate(b, leaf.name, DomainOf(leaf.request))

DrawLeaf(b, leaf) ==
    IF b = None \/ leaf.request = None THEN b
    ELSE IF Duplicate(b, leaf.name) THEN None
    ELSE LET allocated == Allocate(b, leaf.name, DomainOf(leaf.request))
         IN  IF leaf.choice = None THEN allocated
             ELSE AddAssumption(allocated, OneOf(LeafSymbol(b, leaf), Literals(leaf)))

\* The builder, once the first k leaves are drawn.
LeavesDrawn[k \in 0..Len(Top.leaves)] ==
    IF k = 0 THEN NewBuilder ELSE DrawLeaf(LeavesDrawn[k - 1], Top.leaves[k])

AnySchema ==
    /\ rejected = None
    /\ builder = None
    /\ Len(stack) = 1
    /\ TopIs("plan")
    /\ builder' = LeavesDrawn[Len(Top.leaves)]
    /\ rejected' = IF builder' = None THEN [excluded |-> TRUE, lost |-> {}] ELSE None
    /\ UNCHANGED <<stack, nodes>>

Next ==
    \/ BooleanKeyword
    \/ NumberKeyword
    \/ \E r \in Refinements : Refine(r)
    \/ IntegerPlan
    \/ \E union \in Unions : Union(union) \/ \E i \in DOMAIN union : Literal(union[i])
    \/ \E keys \in Keys, optional \in BOOLEAN : RecordPlan(keys, optional)
    \/ \E n \in 0..2, open \in BOOLEAN : TuplePlan(n, open)
    \/ OtherNode
    \/ AnySchema

Spec == Init /\ [][Next]_vars

-----------------------------------------------------------------------------
(* Properties.                                                             *)

\* The values the limits leave a schema of integers.
Within(l) ==
    {v \in Numbers : /\ IsWhole(v)
                     /\ l.minimum = None \/ 2 * l.minimum <= v
                     /\ l.maximum = None \/ v <= 2 * l.maximum}

(***************************************************************************)
(* Refinements intersect exactly: whatever their order, and inclusive or   *)
(* exclusive, the limits leave those safe integers the schema decodes, no  *)
(* more and no fewer.  Of unsafe ones, which no integer schema decodes, see*)
(* DrawnFaithful.                                                          *)
(***************************************************************************)
LimitsExact ==
    \A k \in DOMAIN stack :
        stack[k].kind = "limits" =>
            Within(stack[k]) = {v \in stack[k].decodes : IsWhole(v)}

(***************************************************************************)
(* Of the chains of modelled refinements, whose bounds are safe integers,  *)
(* those are refused that decode no integer at all, as their range is empty*)
(* or past the safe integers, and no others.  An empty range that were     *)
(* accepted would contradict the assumptions of any proof; one that is     *)
(* refused but not empty is a schema the documentation says is supported.  *)
(***************************************************************************)
RefusesOnlyEmpty == rejected # None /\ ~rejected.excluded => rejected.lost = {}

AcceptsNoEmpty ==
    \A k \in DOMAIN stack :
        stack[k].kind = "plan" =>
            \A i \in DOMAIN stack[k].leaves : stack[k].leaves[i].decodes # {}

RefusesExactlyEmpty == RefusesOnlyEmpty /\ AcceptsNoEmpty

(***************************************************************************)
(* Once drawn, every variable leaf of the plan has a variable of its own,  *)
(* named by its path, that ranges over what its schema decodes and, where  *)
(* the schema sets no bound, over the integers past the safe ones as well: *)
(* the backend's integers are unbounded.  So every value decoded is covered*)
(* and, given both bounds or a choice of values, no other.                 *)
(***************************************************************************)
Universe(sort) ==
    CASE sort = "Bool"   -> BOOLEAN
      [] sort = "String" -> Strings
      [] sort = "Int"    -> {v \in Numbers : v % 2 = 0}

Satisfies(a, sort, v) ==
    CASE a.kind = "Gte"   -> v >= 2 * a.allows
      [] a.kind = "Lte"   -> v <= 2 * a.allows
      [] a.kind = "OneOf" -> <<sort, v>> \in a.allows

\* An unsafe integer, on a side where the variable or domain v has no bound.
Beyond(v, x) ==
    /\ v.sort = "Int"
    /\ \/ v.minimum = None /\ x < -2 * MaxSafe
       \/ v.maximum = None /\ x > 2 * MaxSafe

VariableLeaves == {i \in DOMAIN stack[1].leaves : stack[1].leaves[i].request # None}

DrawnFaithful ==
    builder # None =>
        /\ Len(builder.variables) = Cardinality(VariableLeaves)
        /\ \A i \in VariableLeaves :
              LET leaf == stack[1].leaves[i]
                  v == builder.variables[Cardinality({j \in VariableLeaves : j <= i})]
                  about == {a \in builder.assumptions : Symbol(v.id, v.sort) \in a.symbols}
              IN  /\ v.name = leaf.name
                  /\ v.sort = leaf.sort
                  /\ leaf.decodes = {x \in Universe(v.sort) :
                                        /\ \A a \in about : Satisfies(a, v.sort, x)
                                        /\ ~Beyond(v, x)}
=============================================================================
