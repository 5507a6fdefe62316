----------------------------- MODULE MCBuilder -----------------------------
(***************************************************************************)
(* Two fibers and 3-bit integers.  The inputs: an unnamed one, one whose   *)
(* name is the generated name of another, a choice of literals, a record   *)
(* of two leaves, and bit domains at and past the widest.                  *)
(***************************************************************************)
EXTENDS Builder

CONSTANTS main, child, a

MCFibers == {main, child}

MCSchemas ==
    {<<Leaf(None, IntegerRequest(-1, None), None)>>,
     <<Leaf(Generated(1), StringRequest, None)>>,
     <<Leaf(a, IntegerRequest(0, 4), {0, 4}), Leaf(None, BooleanRequest, None)>>,
     <<Leaf(None, BitsRequest("uint", MaxBits), None)>>,
     <<Leaf(None, BitsRequest("int", MaxBits + 1), None)>>}
=============================================================================
