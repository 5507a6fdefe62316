-------------------------- MODULE MCEffectOutcome --------------------------
(***************************************************************************)
(* Two inputs and every condition on them; failure tags that are also names*)
(* of variants, or empty; payloads of both sorts, one with a loose interval*)
(***************************************************************************)
EXTENDS EffectOutcome

CONSTANTS a, b

MCInputs == {a, b}

MCStrings == {"Success", "Failure", "", "low"}

MCConditions == [MCInputs -> BOOLEAN]

Integer(l, u, f) == [sort |-> "Int", minimum |-> l, maximum |-> u, value |-> f]

MCPayloads ==
    {Integer(1, 1, [i \in MCInputs |-> 1]),
     Integer(-1, 2, [i \in MCInputs |-> IF i = a THEN 0 ELSE 2]),
     [sort |-> "Bool", value |-> [i \in MCInputs |-> i = a]]}

MCSignatures ==
    [resultSort: {"Int", "Bool"}, errorTags: {{}, {"Success", "low"}, {"Failure", ""}}]
=============================================================================
