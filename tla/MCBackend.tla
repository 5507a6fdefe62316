----------------------------- MODULE MCBackend -----------------------------
(* Three concurrent verifications, one of them without a bound on its time,*)
(* and two owners who close the backend.                                   *)
EXTENDS Backend

CONSTANTS j1, j2, j3, c1, c2

MCJobs == {j1, j2, j3}

MCUnbounded == {j2}

MCClosers == {c1, c2}
=============================================================================
