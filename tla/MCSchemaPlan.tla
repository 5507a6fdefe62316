---------------------------- MODULE MCSchemaPlan ----------------------------
(***************************************************************************)
(* Safe integers are -3..3, and numbers reach one past them by halves.  The*)
(* bounds of refinements are at, inside and past the safe integers, or not *)
(* integers.  Some keys hold a dot or a bracket.                           *)
(***************************************************************************)
EXTENDS SchemaPlan

MCNumbers == (-2 * (MaxSafe + 1))..(2 * (MaxSafe + 1))

MCRefinements ==
    [id: {"greaterThanOrEqualTo", "lessThanOrEqualTo", "greaterThan", "lessThan"},
     bound: {-6, 1, 4, 6, 8}]
    \cup [id: {"int", "other"}, bound: {0}]

IntLiteral(n) == [sort |-> "Int", value |-> 2 * n]

BoolLiteral(b) == [sort |-> "Bool", value |-> b]

StringLiteral(s) == [sort |-> "String", value |-> s]

MCUnions ==
    {<< >>,
     <<IntLiteral(3), IntLiteral(1), IntLiteral(3)>>,
     <<BoolLiteral(TRUE), BoolLiteral(FALSE)>>,
     <<StringLiteral("x"), StringLiteral("y")>>,
     <<StringLiteral("x")>>,
     <<IntLiteral(1), StringLiteral("x")>>,
     <<[sort |-> "Int", value |-> 1]>>,
     <<[sort |-> "Other", value |-> 0]>>}

MCKeys ==
    {<<<<"a">>>>,
     <<<<"b">>>>,
     <<<<"a", ".", "b">>, <<"a">>>>,
     <<<<"a", "[", "0", "]">>, <<"a">>>>}
=============================================================================
