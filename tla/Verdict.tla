------------------------------ MODULE Verdict ------------------------------
(***************************************************************************)
(* What a backend promises about one verification program: at most one     *)
(* answer, Verified or Failed only for a meaningful program, one truthful  *)
(* outcome per assertion in the order the proof states them, Verified when *)
(* all are proved and Failed when one is refuted.  An operational error is *)
(* always allowed: it claims nothing.                                      *)
(***************************************************************************)
EXTENDS Program

VARIABLES program, result

vars == <<program, result>>

Justified(p, r) ==
    /\ Meaningful(p)
    /\ DOMAIN r.assertions = Assertions(p)
    /\ \A i \in Assertions(p) : Truthful(p, i, r.assertions[i])
    /\ (r.kind = "Verified")
          <=> (\A i \in Assertions(p) : ~Refuted(r.assertions[i]))

Init ==
    /\ program \in Programs
    /\ result = Pending

Decide ==
    /\ result = Pending
    /\ \/ result' = Error
       \/ /\ result' \in [kind: {"Verified", "Failed"},
                          assertions: Seq(Outcome)]
          /\ Justified(program, result')
    /\ UNCHANGED program

Spec == Init /\ [][Decide]_vars
=============================================================================
