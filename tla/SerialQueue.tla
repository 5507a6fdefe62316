---------------------------- MODULE SerialQueue ----------------------------
(***************************************************************************)
(* What one backend instance promises its callers: calls are admitted in   *)
(* some order, served one at a time in that order, and the solver's worker *)
(* threads stop only when nothing admitted is left to serve.               *)
(***************************************************************************)
EXTENDS Sequences

CONSTANTS Calls, None

VARIABLES
    waiting,    \* admitted and not yet served, in order of admission
    serving,    \* the call being solved, or None
    served,     \* the calls that have their answer
    running     \* whether the worker threads are up

vars == <<waiting, serving, served, running>>

Init ==
    /\ waiting = << >>
    /\ serving = None
    /\ served = {}
    /\ running = TRUE

Admit(call) ==
    /\ running
    /\ call \notin served
    /\ waiting' = Append(waiting, call)
    /\ UNCHANGED <<serving, served, running>>

Serve ==
    /\ running
    /\ serving = None
    /\ waiting # << >>
    /\ serving' = Head(waiting)
    /\ waiting' = Tail(waiting)
    /\ UNCHANGED <<served, running>>

Answer ==
    /\ serving # None
    /\ served' = served \cup {serving}
    /\ serving' = None
    /\ UNCHANGED <<waiting, running>>

Stop ==
    /\ waiting = << >>
    /\ serving = None
    /\ running' = FALSE
    /\ UNCHANGED <<waiting, serving, served>>

Next == (\E call \in Calls : Admit(call)) \/ Serve \/ Answer \/ Stop

Spec == Init /\ [][Next]_vars
=============================================================================
