------------------------ MODULE EffectOutcomeProofs ------------------------
(***************************************************************************)
(* The encoding of Effect outcomes is exact for any inputs, strings,       *)
(* payloads and signature, and for expressions of any size.                *)
(*                                                                         *)
(* The argument: every lowered triple is faithful, that is, its payload    *)
(* encloses its values and it agrees with the outcome of the Effect on the *)
(* variant, and on the payload or the failure tag, whichever is active.    *)
(***************************************************************************)
EXTENDS EffectOutcome, SequenceTheorems, TLAPS

Agrees(t, a) ==
    IF t.isSuccess[a]
      THEN t.js[a] = Success(t.payload.value[a])
      ELSE t.js[a] = Failure(t.tag[a]) /\ t.tag[a] \in signature.errorTags

Faithful ==
    {t \in EffectTerm : Enclosed(t.payload) /\ \A a \in Inputs : Agrees(t, a)}

EInv ==
    /\ TypeOK
    /\ stack \in Seq(Faithful)
    /\ lowered # None => lowered \in Faithful

\* What a faithful term of integer sort comes down to.
LEMMA FaithfulInt ==
    ASSUME signature.resultSort = "Int", NEW t
    PROVE  t \in Faithful <=>
              /\ t \in EffectTermOf(IntPayload, Int)
              /\ \A a \in Inputs : /\ t.payload.minimum <= t.payload.value[a]
                                   /\ t.payload.value[a] <= t.payload.maximum
                                   /\ Agrees(t, a)
BY DEF Faithful, EffectTerm, EffectTermOf, IntPayload, Enclosed

\* What a faithful term of boolean sort comes down to.
LEMMA FaithfulBool ==
    ASSUME signature.resultSort = "Bool", NEW t
    PROVE  t \in Faithful <=>
              t \in EffectTermOf(BoolPayload, BOOLEAN) /\ \A a \in Inputs : Agrees(t, a)
BY DEF Faithful, EffectTerm, EffectTermOf, BoolPayload, Enclosed

\* A signature has one of the two success sorts, and strings for tags.
LEMMA SignatureTyped ==
    ASSUME signature \in Signatures
    PROVE  signature.resultSort \in {"Int", "Bool"} /\ signature.errorTags \subseteq Strings
BY EffectAssumption DEF Signature

\* The bound on the nodes is a number.
LEMMA BoundTyped == MaxNodes \in Nat
BY EffectAssumption

\* Effect.succeed is faithful.
LEMMA SucceedFaithful ==
    ASSUME signature \in Signatures, NEW p \in Payloads, p.sort = signature.resultSort
    PROVE  SucceedTerm(p) \in Faithful
<1> DEFINE t == SucceedTerm(p)
<1>1. /\ t.isSuccess \in [Inputs -> BOOLEAN]
      /\ t.tag \in [Inputs -> Strings]
      /\ t.payload = p
      /\ \A a \in Inputs : t.isSuccess[a] /\ t.js[a] = Success(p.value[a])
  BY EffectAssumption DEF SucceedTerm
<1>2. CASE signature.resultSort = "Int"
  <2>1. p \in IntPayload /\ Enclosed(p)
    BY <1>2, EffectAssumption DEF IntPayload, BoolPayload
  <2>2. \A a \in Inputs : p.value[a] \in Int
    BY <2>1 DEF IntPayload
  <2>3. t \in EffectTermOf(IntPayload, Int)
    BY <2>1, <2>2, EffectAssumption DEF SucceedTerm, EffectTermOf, Success
  <2>4. \A a \in Inputs : p.minimum <= p.value[a] /\ p.value[a] <= p.maximum /\ Agrees(t, a)
    BY <1>1, <2>1 DEF Enclosed, IntPayload, Agrees
  <2> HIDE DEF t
  <2> QED
    BY <1>1, <1>2, <2>3, <2>4, FaithfulInt DEF t
<1>3. CASE signature.resultSort = "Bool"
  <2>1. p \in BoolPayload
    BY <1>3, EffectAssumption DEF IntPayload, BoolPayload
  <2>2. \A a \in Inputs : p.value[a] \in BOOLEAN
    BY <2>1 DEF BoolPayload
  <2>3. t \in EffectTermOf(BoolPayload, BOOLEAN)
    BY <2>1, <2>2, EffectAssumption DEF SucceedTerm, EffectTermOf, Success
  <2>4. \A a \in Inputs : Agrees(t, a)
    BY <1>1 DEF Agrees
  <2> HIDE DEF t
  <2> QED
    BY <1>3, <2>3, <2>4, FaithfulBool DEF t
<1> QED
  BY <1>2, <1>3, SignatureTyped

\* Effect.fail with a declared tag is faithful.
LEMMA FailFaithful ==
    ASSUME signature \in Signatures, NEW tag \in signature.errorTags
    PROVE  FailTerm(tag) \in Faithful
<1> DEFINE t == FailTerm(tag)
<1>1. tag \in Strings
  BY SignatureTyped
<1>2. \A a \in Inputs : ~t.isSuccess[a] /\ t.js[a] = Failure(tag) /\ t.tag[a] = tag
  BY DEF FailTerm
<1>3. \A a \in Inputs : Agrees(t, a)
  BY <1>2 DEF Agrees
<1>4. CASE signature.resultSort = "Int"
  <2>1. t.payload = [sort |-> "Int", minimum |-> 0, maximum |-> 0,
                     value |-> [a \in Inputs |-> 0]]
    BY <1>4 DEF FailTerm, FailPayload
  <2>2. t \in EffectTermOf(IntPayload, Int)
    BY <1>1, <1>4 DEF FailTerm, FailPayload, EffectTermOf, IntPayload, Failure
  <2>3. \A a \in Inputs : /\ t.payload.minimum <= t.payload.value[a]
                          /\ t.payload.value[a] <= t.payload.maximum
    <3> HIDE DEF t
    <3>1. /\ t.payload.minimum = 0 /\ t.payload.maximum = 0
          /\ t.payload.value = [a \in Inputs |-> 0]
      BY <2>1
    <3>2. \A a \in Inputs : t.payload.value[a] = 0
      BY <3>1
    <3>3. 0 <= 0
      OBVIOUS
    <3> QED
      BY <3>1, <3>2, <3>3, Zenon
  <2> HIDE DEF t
  <2> QED
    BY <1>3, <1>4, <2>2, <2>3, FaithfulInt DEF t
<1>5. CASE signature.resultSort = "Bool"
  <2>1. t \in EffectTermOf(BoolPayload, BOOLEAN)
    BY <1>1, <1>5 DEF FailTerm, FailPayload, EffectTermOf, BoolPayload, Failure
  <2> HIDE DEF t
  <2> QED
    BY <1>3, <1>5, <2>1, FaithfulBool DEF t
<1> QED
  BY <1>4, <1>5, SignatureTyped

\* A conditional agrees with whichever branch is taken.
LEMMA ConditionalFaithful ==
    ASSUME signature \in Signatures, NEW c \in Conditions,
           NEW yes \in Faithful, NEW no \in Faithful
    PROVE  EffectConditional(c, yes, no) \in Faithful
<1> DEFINE t == EffectConditional(c, yes, no)
<1>1. /\ t.isSuccess = Choose(c, yes.isSuccess, no.isSuccess)
      /\ t.tag = Choose(c, yes.tag, no.tag)
      /\ t.payload = MergePayloads(c, yes.payload, no.payload)
      /\ t.js = Choose(c, yes.js, no.js)
  BY DEF EffectConditional
<1>2. ASSUME yes.payload.sort = no.payload.sort
      PROVE  \A a \in Inputs : Agrees(t, a)
  <2> SUFFICES ASSUME NEW a \in Inputs PROVE Agrees(t, a)
    OBVIOUS
  <2>1. t.payload.value = Choose(c, yes.payload.value, no.payload.value)
    BY <1>1 DEF MergePayloads
  <2>2. Agrees(yes, a) /\ Agrees(no, a)
    BY DEF Faithful
  <2> HIDE DEF t
  <2>3. CASE c[a]
    <3>1. /\ t.isSuccess[a] = yes.isSuccess[a] /\ t.tag[a] = yes.tag[a]
          /\ t.payload.value[a] = yes.payload.value[a] /\ t.js[a] = yes.js[a]
      BY <1>1, <2>1, <2>3 DEF Choose
    <3> QED
      BY <2>2, <3>1 DEF Agrees
  <2>4. CASE ~c[a]
    <3>1. /\ t.isSuccess[a] = no.isSuccess[a] /\ t.tag[a] = no.tag[a]
          /\ t.payload.value[a] = no.payload.value[a] /\ t.js[a] = no.js[a]
      BY <1>1, <2>1, <2>4 DEF Choose
    <3> QED
      BY <2>2, <3>1 DEF Agrees
  <2> QED
    BY <2>3, <2>4
<1>3. CASE signature.resultSort = "Int"
  <2>1. /\ yes \in EffectTermOf(IntPayload, Int) /\ no \in EffectTermOf(IntPayload, Int)
        /\ \A a \in Inputs : /\ yes.payload.minimum <= yes.payload.value[a]
                             /\ yes.payload.value[a] <= yes.payload.maximum
                             /\ no.payload.minimum <= no.payload.value[a]
                             /\ no.payload.value[a] <= no.payload.maximum
    BY <1>3, FaithfulInt
  <2>2. yes.payload \in IntPayload /\ no.payload \in IntPayload
    BY <2>1 DEF EffectTermOf
  <2>3. /\ t.payload \in IntPayload
        /\ \A a \in Inputs : /\ t.payload.minimum <= t.payload.value[a]
                             /\ t.payload.value[a] <= t.payload.maximum
    <3> DEFINE p == yes.payload
               q == no.payload
    <3>1. /\ p.sort = "Int" /\ p.minimum \in Int /\ p.maximum \in Int
          /\ q.minimum \in Int /\ q.maximum \in Int
          /\ \A a \in Inputs : p.value[a] \in Int /\ q.value[a] \in Int
      BY <2>2 DEF IntPayload
    <3>2. t.payload = [sort |-> "Int",
                       minimum |-> IF p.minimum < q.minimum THEN p.minimum ELSE q.minimum,
                       maximum |-> IF p.maximum > q.maximum THEN p.maximum ELSE q.maximum,
                       value |-> Choose(c, p.value, q.value)]
      BY <1>1, <3>1 DEF MergePayloads
    <3> HIDE DEF t, p, q
    <3>3. /\ t.payload.minimum \in Int /\ t.payload.maximum \in Int
          /\ t.payload.minimum <= p.minimum /\ t.payload.minimum <= q.minimum
          /\ p.maximum <= t.payload.maximum /\ q.maximum <= t.payload.maximum
      BY <3>1, <3>2
    <3>4. \A a \in Inputs : t.payload.value[a] = IF c[a] THEN p.value[a] ELSE q.value[a]
      <4>1. t.payload.value = [a \in Inputs |-> IF c[a] THEN p.value[a] ELSE q.value[a]]
        BY <3>2 DEF Choose
      <4> QED
        BY <4>1
    <3>5. Choose(c, p.value, q.value) \in [Inputs -> Int]
      BY <3>1 DEF Choose
    <3>6. t.payload \in IntPayload
      BY <3>1, <3>2, <3>3, <3>5 DEF IntPayload
    <3>7. ASSUME NEW a \in Inputs
          PROVE  t.payload.minimum <= t.payload.value[a]
                 /\ t.payload.value[a] <= t.payload.maximum
      <4>1. /\ p.minimum <= p.value[a] /\ p.value[a] <= p.maximum
            /\ q.minimum <= q.value[a] /\ q.value[a] <= q.maximum
        BY <2>1 DEF p, q
      <4>2. t.payload.value[a] = p.value[a] \/ t.payload.value[a] = q.value[a]
        BY <3>4
      <4>3. p.value[a] \in Int /\ q.value[a] \in Int
        BY <3>1
      <4> QED
        BY <3>1, <3>3, <4>1, <4>2, <4>3
    <3> QED
      BY <3>6, <3>7
  <2>4. t \in EffectTermOf(IntPayload, Int)
    BY <2>1, <2>3 DEF EffectTermOf, EffectConditional, Choose
  <2>5. \A a \in Inputs : Agrees(t, a)
    BY <1>2, <2>2 DEF IntPayload
  <2> HIDE DEF t
  <2> QED
    BY <1>3, <2>3, <2>4, <2>5, FaithfulInt DEF t
<1>4. CASE signature.resultSort = "Bool"
  <2>1. yes \in EffectTermOf(BoolPayload, BOOLEAN) /\ no \in EffectTermOf(BoolPayload, BOOLEAN)
    BY <1>4, FaithfulBool
  <2>2. yes.payload \in BoolPayload /\ no.payload \in BoolPayload
    BY <2>1 DEF EffectTermOf
  <2>3. t.payload \in BoolPayload
    <3> DEFINE p == yes.payload
               q == no.payload
    <3>1. /\ p.sort = "Bool"
          /\ \A a \in Inputs : p.value[a] \in BOOLEAN /\ q.value[a] \in BOOLEAN
      BY <2>2 DEF BoolPayload
    <3>2. t.payload = [sort |-> "Bool", value |-> Choose(c, p.value, q.value)]
      BY <1>1, <3>1 DEF MergePayloads
    <3> HIDE DEF t, p, q
    <3>3. Choose(c, p.value, q.value) \in [Inputs -> BOOLEAN]
      BY <3>1, Zenon DEF Choose
    <3> QED
      BY <3>2, <3>3 DEF BoolPayload
  <2>4. t \in EffectTermOf(BoolPayload, BOOLEAN)
    BY <2>1, <2>3 DEF EffectTermOf, EffectConditional, Choose
  <2>5. \A a \in Inputs : Agrees(t, a)
    BY <1>2, <2>2 DEF BoolPayload
  <2> HIDE DEF t
  <2> QED
    BY <1>4, <2>4, <2>5, FaithfulBool DEF t
<1> QED
  BY <1>3, <1>4, SignatureTyped

\* Leaving a faithful term keeps the stack faithful.
LEMMA LeaveEInv ==
    ASSUME EInv, NEW n \in 0..2, Lower(n), NEW t \in Faithful, Leave(n, t)
    PROVE  EInv'
<1>1. /\ Len(stack) \in Nat /\ n <= Len(stack) /\ stack \in Seq(Faithful)
      /\ stack \in Seq(EffectTerm) /\ t \in EffectTerm
  BY DEF EInv, TypeOK, Lower, Faithful
<1>2. /\ SubSeq(stack, 1, Len(stack) - n) \in Seq(Faithful)
      /\ SubSeq(stack, 1, Len(stack) - n) \in Seq(EffectTerm)
  BY <1>1, SubSeqProperties
<1>3. stack' \in Seq(Faithful) /\ stack' \in Seq(EffectTerm)
  BY <1>1, <1>2, AppendProperties DEF Leave
<1>4. Faithful' = Faithful /\ EffectTerm' = EffectTerm
  BY DEF Lower, Faithful, EffectTerm, Agrees
<1>5. nodes' \in 0..MaxNodes
  BY BoundTyped DEF EInv, TypeOK, Lower
<1> QED
  BY <1>3, <1>4, <1>5 DEF EInv, TypeOK, Lower, Leave

\* Reporting an error leaves the stack as it was.
LEMMA ReportEInv ==
    ASSUME EInv, NEW n \in 0..2, Lower(n), Report
    PROVE  EInv'
<1>1. Faithful' = Faithful /\ EffectTerm' = EffectTerm
  BY DEF Lower, Faithful, EffectTerm, Agrees
<1>2. nodes' \in 0..MaxNodes
  BY BoundTyped DEF EInv, TypeOK, Lower
<1> QED
  BY <1>1, <1>2 DEF EInv, TypeOK, Lower, Report

\* The invariant holds of the empty stack.
LEMMA InitEInv == Init => EInv
<1> SUFFICES ASSUME Init PROVE EInv
  OBVIOUS
<1>1. << >> \in Seq(EffectTerm) /\ << >> \in Seq(Faithful)
  OBVIOUS
<1> QED
  <2>1. nodes \in 0..MaxNodes
    BY BoundTyped DEF Init
  <2> QED
    BY <1>1, <2>1, Zenon DEF Init, EInv, TypeOK

\* Every lowered node preserves the invariant.
LEMMA NextEInv == EInv /\ [Next]_vars => EInv'
<1> SUFFICES ASSUME EInv, [Next]_vars PROVE EInv'
  OBVIOUS
<1>1. signature \in Signatures
  BY DEF EInv, TypeOK
<1>2. ASSUME NEW p \in Payloads, Succeed(p) PROVE EInv'
  BY <1>1, <1>2, SucceedFaithful, LeaveEInv, ReportEInv DEF Succeed
<1>3. ASSUME NEW tag \in Strings, Fail(tag) PROVE EInv'
  BY <1>1, <1>3, FailFaithful, LeaveEInv, ReportEInv DEF Fail
<1>4. CASE Unsupported
  BY <1>4, ReportEInv DEF Unsupported
<1>5. ASSUME NEW c \in Conditions, Conditional(c) PROVE EInv'
  <2>1. /\ Lower(2) /\ Len(stack) \in Nat /\ Len(stack) >= 2
        /\ stack \in Seq(Faithful)
    BY <1>5 DEF EInv, Conditional, Lower
  <2>2. stack[Len(stack) - 1] \in Faithful /\ stack[Len(stack)] \in Faithful
    BY <2>1, ElementOfSeq
  <2> QED
    BY <1>1, <1>5, <2>1, <2>2, ConditionalFaithful, LeaveEInv DEF Conditional
<1>6. CASE CompileSourceEffectProof
  <2>1. stack[1] \in Faithful /\ stack[1] \in EffectTerm
    BY <1>6, ElementOfSeq DEF EInv, TypeOK, CompileSourceEffectProof
  <2>2. Faithful' = Faithful /\ EffectTerm' = EffectTerm
    BY <1>6 DEF CompileSourceEffectProof, Faithful, EffectTerm, Agrees
  <2> QED
    BY <1>6, <2>1, <2>2 DEF EInv, TypeOK, CompileSourceEffectProof
<1>7. CASE UNCHANGED vars
  BY <1>7 DEF vars, EInv, TypeOK, Faithful, EffectTerm, Agrees
<1> QED
  BY <1>2, <1>3, <1>4, <1>5, <1>6, <1>7 DEF Next

\* The invariant holds however the outcome is built.
LEMMA AlwaysEInv == Spec => []EInv
BY InitEInv, NextEInv, PTL DEF Spec

\* Type correctness of the lowering of outcomes.
THEOREM EffectTypeCorrect == Spec => []TypeOK
<1>1. EInv => TypeOK
  BY DEF EInv
<1> QED
  BY <1>1, AlwaysEInv, PTL

\* Only declared failures are ever lowered.
THEOREM EffectFailuresDeclared == Spec => []FailuresDeclared
<1>1. EInv => FailuresDeclared
  <2> SUFFICES ASSUME EInv, NEW k \in 1..Len(stack), NEW a \in Inputs,
                      stack[k].js[a].kind = "Failure"
               PROVE  stack[k].js[a].tag \in signature.errorTags
    BY DEF FailuresDeclared
  <2>1. stack[k] \in Faithful
    BY ElementOfSeq DEF EInv
  <2> QED
    <3>1. Agrees(stack[k], a)
      BY <2>1 DEF Faithful
    <3>2. ~stack[k].isSuccess[a]
      BY <3>1 DEF Agrees, Success
    <3> QED
      BY <3>1, <3>2 DEF Agrees, Failure
<1> QED
  BY <1>1, AlwaysEInv, PTL

\* The constraints leave the outcome of the Effect, and nothing else.
THEOREM EffectOutcomesExact == Spec => []OutcomesExact
<1>1. EInv => OutcomesExact
  <2> SUFFICES ASSUME EInv, lowered # None, NEW a \in Inputs
               PROVE  {Guarded(w) : w \in {v \in Feasible : v.input = a}} = {lowered.js[a]}
    BY DEF OutcomesExact
  <2>1. signature \in Signatures /\ lowered \in Faithful
    BY DEF EInv, TypeOK
  <2>2. Agrees(lowered, a) /\ lowered.tag[a] \in Strings
    BY <2>1 DEF Faithful, EffectTerm, EffectTermOf
  <2>3. \A w \in Feasible : w.input = a => Guarded(w) = lowered.js[a]
    <3> SUFFICES ASSUME NEW w \in Feasible, w.input = a
                 PROVE  Guarded(w) = lowered.js[a]
      OBVIOUS
    <3>1. /\ TagEquality(w) /\ FailureTagEquality(w) /\ ActivePayload(w)
      BY DEF Feasible
    <3> QED
      BY <2>2, <3>1 DEF TagEquality, FailureTagEquality, ActivePayload, Guarded, Agrees
  <2> DEFINE u == [input |-> a,
                   outcomeTag |-> IF lowered.isSuccess[a] THEN "Success" ELSE "Failure",
                   failureTag |-> lowered.tag[a],
                   successValue |-> lowered.payload.value[a]]
  <2>4. lowered.payload.value[a] \in SuccessValues
    <3>1. CASE signature.resultSort = "Int"
      <4>1. /\ lowered \in EffectTermOf(IntPayload, Int)
            /\ lowered.payload.minimum <= lowered.payload.value[a]
            /\ lowered.payload.value[a] <= lowered.payload.maximum
        BY <2>1, <3>1, FaithfulInt
      <4>2. lowered.payload \in IntPayload
        BY <4>1 DEF EffectTermOf
      <4> QED
        BY <3>1, <4>1, <4>2 DEF SuccessValues, IntPayload
    <3>2. CASE signature.resultSort = "Bool"
      <4>1. lowered.payload \in BoolPayload
        BY <2>1, <3>2, FaithfulBool DEF EffectTermOf
      <4>2. lowered.payload.value[a] \in BOOLEAN
        BY <4>1 DEF BoolPayload
      <4> QED
        BY <3>2, <4>2 DEF SuccessValues
    <3> QED
      BY <2>1, <3>1, <3>2, SignatureTyped
  <2>5. u \in OutcomeWorlds
    BY <2>2, <2>4, EffectAssumption DEF OutcomeWorlds
  <2>6. u \in Feasible
    BY <2>2, <2>5 DEF Feasible, TagEquality, FailureTagEquality, AllowedTags,
                      AllowedFailureTags, ActivePayload, Agrees
  <2> QED
    BY <2>3, <2>6
<1> QED
  BY <1>1, AlwaysEInv, PTL
=============================================================================
