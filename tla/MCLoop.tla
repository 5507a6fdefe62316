------------------------------- MODULE MCLoop -------------------------------
(***************************************************************************)
(* Every loop over -8..8 in steps of at most 3, with 7 the largest safe    *)
(* integer and at most 3 iterations; 9 rounds to 8, so a counter that is   *)
(* not stopped in time never gets past 8.                                  *)
(***************************************************************************)
EXTENDS Loop

MCRound(v) == IF -8 <= v /\ v <= 8 THEN v ELSE 2 * (v \div 2)

MCLoops ==
    [start: -8..8, end: -8..8, step: -3..3, ascending: BOOLEAN, inclusive: BOOLEAN]
=============================================================================
