--------------------------- MODULE EffectOutcome ---------------------------
(***************************************************************************)
(* Source Effect proofs: lowerEffectExpression turns a finite conditional  *)
(* of Effect.succeed and Effect.fail into a triple of terms, and           *)
(* compileSourceEffectProof constrains three symbolic variables by it: the *)
(* variant tag, the failure tag and the success payload.                   *)
(*                                                                         *)
(* The expression is chosen as it is lowered, operands first.  A term is a *)
(* function of the inputs; next to it the outcome carries js, what running *)
(* the Effect gives.  Payloads and conditions come from module Lowering.   *)
(***************************************************************************)
EXTENDS Integers, Sequences

CONSTANTS
    Inputs,     \* the argument tuples inside the declared input domains
    Strings,    \* the values of a String variable
    Conditions, \* the conditions a source may test
    Payloads,   \* the payload terms it may succeed with
    Signatures, \* what effectTypeSignature reads from the return annotation
    MaxNodes    \* bound on the nodes of the expression

IntPayload == [sort: {"Int"}, minimum: Int, maximum: Int, value: [Inputs -> Int]]

BoolPayload == [sort: {"Bool"}, value: [Inputs -> BOOLEAN]]

\* The interval of a payload encloses it: IntervalSound of module Lowering.
Enclosed(p) ==
    p.sort = "Int" => \A a \in Inputs : p.minimum <= p.value[a] /\ p.value[a] <= p.maximum

Signature == [resultSort: {"Int", "Bool"}, errorTags: SUBSET Strings]

ASSUME EffectAssumption ==
    /\ {"Success", "Failure", ""} \subseteq Strings
    /\ Conditions \subseteq [Inputs -> BOOLEAN]
    /\ Payloads \subseteq IntPayload \cup BoolPayload
    /\ \A p \in Payloads : Enclosed(p)
    /\ Signatures \subseteq Signature
    /\ MaxNodes \in Nat

VARIABLES
    signature,  \* the declared success sort and failure tags
    stack,      \* the outcomes lowered and not yet used
    lowered,    \* the outcome of the whole body, once it is known
    rejected,   \* whether report() has thrown
    nodes       \* how many nodes have been lowered

vars == <<signature, stack, lowered, rejected, nodes>>

None == [kind |-> "none"]

-----------------------------------------------------------------------------
(* Outcomes.                                                               *)

Success(v) == [kind |-> "Success", value |-> v]

Failure(tag) == [kind |-> "Failure", tag |-> tag]

EffectTermOf(P, Values) ==
    [isSuccess: [Inputs -> BOOLEAN], tag: [Inputs -> Strings], payload: P,
     js: [Inputs -> [kind: {"Success"}, value: Values]
                    \cup [kind: {"Failure"}, tag: Strings]]]

EffectTerm ==
    IF signature.resultSort = "Int" THEN EffectTermOf(IntPayload, Int)
                                    ELSE EffectTermOf(BoolPayload, BOOLEAN)

\* What stands in for the payload where there is none.
FailPayload ==
    IF signature.resultSort = "Int"
      THEN [sort |-> "Int", minimum |-> 0, maximum |-> 0, value |-> [a \in Inputs |-> 0]]
      ELSE [sort |-> "Bool", value |-> [a \in Inputs |-> FALSE]]

SucceedTerm(p) ==
    [isSuccess |-> [a \in Inputs |-> TRUE],
     tag |-> [a \in Inputs |-> ""],
     payload |-> p,
     js |-> [a \in Inputs |-> Success(p.value[a])]]

FailTerm(tag) ==
    [isSuccess |-> [a \in Inputs |-> FALSE],
     tag |-> [a \in Inputs |-> tag],
     payload |-> FailPayload,
     js |-> [a \in Inputs |-> Failure(tag)]]

Choose(c, yes, no) == [a \in Inputs |-> IF c[a] THEN yes[a] ELSE no[a]]

MergePayloads(c, p, q) ==
    IF p.sort = "Int"
      THEN [sort |-> "Int",
            minimum |-> IF p.minimum < q.minimum THEN p.minimum ELSE q.minimum,
            maximum |-> IF p.maximum > q.maximum THEN p.maximum ELSE q.maximum,
            value |-> Choose(c, p.value, q.value)]
      ELSE [sort |-> "Bool", value |-> Choose(c, p.value, q.value)]

\* effectConditional, for expressions and for statements
EffectConditional(c, yes, no) ==
    [isSuccess |-> Choose(c, yes.isSuccess, no.isSuccess),
     tag |-> Choose(c, yes.tag, no.tag),
     payload |-> MergePayloads(c, yes.payload, no.payload),
     js |-> Choose(c, yes.js, no.js)]

-----------------------------------------------------------------------------
(* Lowering.                                                               *)

TypeOK ==
    /\ signature \in Signatures
    /\ stack \in Seq(EffectTerm)
    /\ lowered \in EffectTerm \cup {None}
    /\ rejected \in BOOLEAN
    /\ nodes \in 0..MaxNodes

Init ==
    /\ signature \in Signatures
    /\ stack = << >>
    /\ lowered = None
    /\ rejected = FALSE
    /\ nodes = 0

Lower(n) ==
    /\ ~rejected
    /\ lowered = None
    /\ nodes < MaxNodes
    /\ Len(stack) >= n
    /\ nodes' = nodes + 1
    /\ UNCHANGED <<signature, lowered>>

Leave(n, outcome) ==
    /\ stack' = Append(SubSeq(stack, 1, Len(stack) - n), outcome)
    /\ UNCHANGED rejected

Report == rejected' = TRUE /\ UNCHANGED stack

\* Mutant of Succeed: the sort of the payload is not compared.
SucceedAnySort(p) == Lower(0) /\ Leave(0, SucceedTerm(p))

Succeed(p) ==
    /\ Lower(0)
    /\ IF p.sort = signature.resultSort THEN Leave(0, SucceedTerm(p)) ELSE Report

\* Mutant of Fail: the tag is not looked up in the declared ones.
FailUndeclared(tag) == Lower(0) /\ Leave(0, FailTerm(tag))

Fail(tag) ==
    /\ Lower(0)
    /\ IF tag \in signature.errorTags THEN Leave(0, FailTerm(tag)) ELSE Report

\* Any other callee, argument or syntax.
Unsupported == Lower(0) /\ Report

Conditional(c) ==
    /\ Lower(2)
    /\ Leave(2, EffectConditional(c, stack[Len(stack) - 1], stack[Len(stack)]))

\* The body is lowered: the program can be assembled.
CompileSourceEffectProof ==
    /\ ~rejected
    /\ lowered = None
    /\ Len(stack) = 1
    /\ lowered' = stack[1]
    /\ UNCHANGED <<signature, stack, rejected, nodes>>

Next ==
    \/ \E p \in Payloads : Succeed(p)
    \/ \E tag \in Strings : Fail(tag)
    \/ Unsupported
    \/ \E c \in Conditions : Conditional(c)
    \/ CompileSourceEffectProof

Spec == Init /\ [][Next]_vars

-----------------------------------------------------------------------------
(* The program: a world gives the inputs, the tags and the success value.  *)

\* The success variable is bounded by the interval of the payload.
SuccessValues ==
    IF signature.resultSort = "Int"
      THEN lowered.payload.minimum .. lowered.payload.maximum
      ELSE BOOLEAN

OutcomeWorlds ==
    [input: Inputs, outcomeTag: Strings, failureTag: Strings, successValue: SuccessValues]

\* Mutant of TagEquality: the failure tag takes the place of the variant.
TagEqualityFlat(w) ==
    w.outcomeTag = IF lowered.isSuccess[w.input] THEN "Success" ELSE lowered.tag[w.input]

TagEquality(w) ==
    w.outcomeTag = IF lowered.isSuccess[w.input] THEN "Success" ELSE "Failure"

FailureTagEquality(w) == w.failureTag = lowered.tag[w.input]

AllowedTags(w) == w.outcomeTag \in {"Success", "Failure"}

AllowedFailureTags(w) == w.outcomeTag = "Success" \/ w.failureTag \in signature.errorTags

ActivePayload(w) ==
    w.outcomeTag = "Success" => w.successValue = lowered.payload.value[w.input]

Feasible ==
    {w \in OutcomeWorlds : /\ TagEquality(w)
                           /\ FailureTagEquality(w)
                           /\ AllowedTags(w)
                           /\ AllowedFailureTags(w)
                           /\ ActivePayload(w)}

\* The assertion of sourceEffectFunction looks at one side of a world only.
Guarded(w) ==
    IF w.outcomeTag = "Success" THEN Success(w.successValue) ELSE Failure(w.failureTag)

-----------------------------------------------------------------------------
(* Properties.                                                             *)

(***************************************************************************)
(* For every input the assumptions leave exactly the outcome the Effect    *)
(* has, as far as the assertion can see: the proof is never vacuous for an *)
(* input, a payload never leaks into a failure, and a failure tag is never *)
(* taken for the variant, be it the string "Success" itself.               *)
(***************************************************************************)
OutcomesExact ==
    lowered # None =>
        \A a \in Inputs :
            {Guarded(w) : w \in {v \in Feasible : v.input = a}} = {lowered.js[a]}

\* A failure the Effect can have is declared in its type.
FailuresDeclared ==
    \A k \in 1..Len(stack) : \A a \in Inputs :
        stack[k].js[a].kind = "Failure" => stack[k].js[a].tag \in signature.errorTags
=============================================================================
