----------------------------- MODULE MCLowering -----------------------------
(***************************************************************************)
(* Doubles with a three-bit significand: 7 is the largest safe integer, 8  *)
(* is still exact and 9 is not.  One numeric input over -2..3, one boolean *)
(* input and one unbound name.                                             *)
(***************************************************************************)
EXTENDS Lowering

CONSTANTS x, p, z

MCNames == {x, p, z}

\* Away from the exact range only even integers are representable.
MCRound(v) == IF -8 <= v /\ v <= 8 THEN v ELSE 2 * (v \div 2)

MCScopes ==
    {[n \in MCNames |-> CASE n = x -> IntTerm(-2, 3, v, v)
                          [] n = p -> BoolTerm(b, b)
                          [] n = z -> Unbound] : v \in -2..3, b \in BOOLEAN}
=============================================================================
