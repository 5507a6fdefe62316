------------------------------ MODULE Doubles ------------------------------
(***************************************************************************)
(* JavaScript numbers, as far as the TypeScript frontend relies on them:   *)
(* integers are exact up to the largest safe one, and may be rounded past  *)
(* it.  The frontend itself computes with bigints.                         *)
(***************************************************************************)
EXTENDS Integers

CONSTANTS
    MaxSafe,        \* Number.MAX_SAFE_INTEGER
    Round(_)        \* IEEE 754 rounding of an integer to a double

ASSUME MaxSafeAssumption == MaxSafe \in Nat

ASSUME RoundAssumption == \A v \in -MaxSafe..MaxSafe : Round(v) = v

Safe(v) == -MaxSafe <= v /\ v <= MaxSafe
=============================================================================
