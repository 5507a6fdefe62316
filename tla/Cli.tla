-------------------------------- MODULE Cli --------------------------------
(***************************************************************************)
(* One run of the effect-verify command: arguments, the proof module, the  *)
(* verification, closing the backend, and the end of the process.          *)
(*                                                                         *)
(* A proof module is host code.  It may fail to load, set process.exitCode *)
(* or leave handles behind that hold the event loop open.  What a frontend *)
(* or the backend answers is chosen freely; other modules account for it.  *)
(***************************************************************************)
EXTENDS Naturals, Sequences

CONSTANTS
    Words,      \* arguments that are no option: paths, export names
    Number,     \* one of them: a positive integer
    Commands,   \* the argument lists the command may be given
    Modules,    \* the proof modules it may load
    None

Options == {"--help", "--version", "--list", "--timeout", "--timeout=good",
            "--timeout=bad", "--unknown"}

ASSUME CliAssumption ==
    /\ Commands \subseteq Seq(Words \cup Options)
    /\ Number \in Words /\ "default" \in Words
    /\ Words \cap Options = {}
    /\ None \notin Words \cup Nat \cup {"Verified", "Failed"}
    /\ Modules \subseteq [loads: BOOLEAN, proofs: SUBSET Words,
                          exitCode: {None} \cup Nat, handles: BOOLEAN]

VARIABLES
    argv,       \* the arguments
    module,     \* the proof module the path leads to
    pc,         \* where run() is
    index,      \* the argument about to be parsed
    flags,      \* the flags parsed so far
    positional, \* the positional arguments parsed so far
    selected,   \* the export to verify
    backend,    \* "none", "open", "closed", or "leaked" when closing failed
    printed,    \* the verdict on stdout
    failing,    \* run() is going to reject, or has
    held,       \* the module left handles that hold the event loop open
    exitCode,   \* process.exitCode
    status      \* the exit status of the process

vars == <<argv, module, pc, index, flags, positional, selected, backend,
          printed, failing, held, exitCode, status>>

parsing == <<index, flags, positional>>
solving == <<selected, backend, printed>>

Init ==
    /\ argv \in Commands
    /\ module \in Modules
    /\ pc = "parse"
    /\ index = 1
    /\ flags = {}
    /\ positional = << >>
    /\ selected = None
    /\ backend = "none"
    /\ printed = None
    /\ failing = FALSE
    /\ held = FALSE
    /\ exitCode = None
    /\ status = None

\* run() rejects; there is nothing to clean up.
Reject ==
    /\ failing' = TRUE
    /\ pc' = "settled"

-----------------------------------------------------------------------------
(* parseArguments, one argument at a time.                                 *)

Parsing == pc = "parse" /\ index <= Len(argv)

ParseFlag ==
    /\ Parsing
    /\ argv[index] \in {"--help", "--version", "--list", "--timeout=good"}
    /\ flags' = flags \cup {argv[index]}
    /\ index' = index + 1
    /\ UNCHANGED <<argv, module, pc, positional, solving, failing, exitCode, held, status>>

\* --timeout takes the next argument, whatever it looks like.
ParseTimeout ==
    /\ Parsing
    /\ argv[index] = "--timeout"
    /\ index < Len(argv)
    /\ argv[index + 1] = Number
    /\ index' = index + 2
    /\ UNCHANGED <<argv, module, pc, flags, positional, solving, failing, exitCode, held, status>>

ParseError ==
    /\ Parsing
    /\ \/ argv[index] \in {"--unknown", "--timeout=bad"}
       \/ argv[index] = "--timeout" /\ index = Len(argv)
       \/ argv[index] = "--timeout" /\ index < Len(argv) /\ argv[index + 1] # Number
    /\ Reject
    /\ UNCHANGED <<argv, module, parsing, solving, exitCode, held, status>>

ParsePositional ==
    /\ Parsing
    /\ argv[index] \in Words
    /\ positional' = Append(positional, argv[index])
    /\ index' = index + 1
    /\ UNCHANGED <<argv, module, pc, flags, solving, failing, exitCode, held, status>>

\* Too many arguments come before --help, --help before a missing path.
Parsed ==
    /\ pc = "parse"
    /\ index > Len(argv)
    /\ \/ Len(positional) > 2 /\ Reject
       \/ /\ Len(positional) <= 2
          /\ flags \cap {"--help", "--version"} # {}
          /\ pc' = "settled"
          /\ UNCHANGED failing
       \/ /\ flags \cap {"--help", "--version"} = {}
          /\ positional = << >>
          /\ Reject
       \/ /\ flags \cap {"--help", "--version"} = {}
          /\ Len(positional) \in 1..2
          /\ pc' = "load"
          /\ UNCHANGED failing
    /\ UNCHANGED <<argv, module, parsing, solving, exitCode, held, status>>

-----------------------------------------------------------------------------
(* loadProofs, selectProof and verifySelectedProof.                        *)

Load ==
    /\ pc = "load"
    /\ exitCode' = module.exitCode
    /\ held' = module.handles
    /\ IF ~module.loads THEN Reject
       ELSE /\ pc' = IF "--list" \in flags THEN "settled" ELSE "select"
            /\ UNCHANGED failing
    /\ UNCHANGED <<argv, module, parsing, solving, status>>

\* Mutant of Select: any of several exports will do.
SelectAny ==
    /\ pc = "select"
    /\ LET candidates == IF Len(positional) = 2
                           THEN module.proofs \cap {positional[2]}
                         ELSE IF "default" \in module.proofs THEN {"default"}
                         ELSE module.proofs
       IN  IF candidates # {}
             THEN /\ selected' \in candidates
                  /\ pc' = "compile"
                  /\ UNCHANGED failing
             ELSE Reject /\ UNCHANGED selected
    /\ UNCHANGED <<argv, module, parsing, backend, printed, exitCode, held, status>>

\* The requested export, else the default one, else the only one.
Select ==
    /\ pc = "select"
    /\ LET candidates == IF Len(positional) = 2
                           THEN module.proofs \cap {positional[2]}
                         ELSE IF "default" \in module.proofs THEN {"default"}
                         ELSE module.proofs
       IN  IF \E name \in candidates : candidates = {name}
             THEN /\ selected' \in candidates
                  /\ pc' = "compile"
                  /\ UNCHANGED failing
             ELSE Reject /\ UNCHANGED selected
    /\ UNCHANGED <<argv, module, parsing, backend, printed, exitCode, held, status>>

Compile ==
    /\ pc = "compile"
    /\ \/ Reject
       \/ pc' = "backend" /\ UNCHANGED failing
    /\ UNCHANGED <<argv, module, parsing, solving, exitCode, held, status>>

MakeBackend ==
    /\ pc = "backend"
    /\ \/ Reject /\ UNCHANGED backend
       \/ pc' = "verify" /\ backend' = "open" /\ UNCHANGED failing
    /\ UNCHANGED <<argv, module, parsing, selected, printed, exitCode, held, status>>

Verify ==
    /\ pc = "verify"
    /\ pc' = "close"
    /\ \/ /\ printed' \in {"Verified", "Failed"}
          /\ exitCode' = IF printed' = "Failed" THEN 1 ELSE exitCode
          /\ UNCHANGED failing
       \/ /\ failing' = TRUE
          /\ UNCHANGED <<printed, exitCode>>
    /\ UNCHANGED <<argv, module, parsing, selected, backend, held, status>>

\* Mutant of Close: a failure to close makes run() reject.
CloseRejects ==
    /\ pc = "close"
    /\ \/ backend' = "closed" /\ pc' = "settled" /\ UNCHANGED failing
       \/ backend' = "leaked" /\ Reject
    /\ UNCHANGED <<argv, module, parsing, selected, printed, exitCode, held, status>>

\* The finally block.  A failure to close is written to stderr, no more.
Close ==
    /\ pc = "close"
    /\ backend' \in {"closed", "leaked"}
    /\ pc' = "settled"
    /\ UNCHANGED <<argv, module, parsing, selected, printed, failing, exitCode, held, status>>

-----------------------------------------------------------------------------
(* finish(), and the two ways the process ends.                            *)

Finish ==
    /\ pc = "settled"
    /\ exitCode' = IF failing THEN 2 ELSE IF exitCode = None THEN 0 ELSE exitCode
    /\ pc' = "finishing"
    /\ UNCHANGED <<argv, module, parsing, solving, failing, held, status>>

\* Something other than the unreferenced timer holds the event loop open.
Held == held \/ backend = "leaked"

Drain ==
    /\ pc = "finishing"
    /\ ~Held
    /\ status' = exitCode
    /\ pc' = "ended"
    /\ UNCHANGED <<argv, module, parsing, solving, failing, exitCode, held>>

\* Mutant of Timer: there is no such timer.
TimerMissing == pc = "finishing" /\ Held /\ UNCHANGED vars

Timer ==
    /\ pc = "finishing"
    /\ Held
    /\ status' = exitCode
    /\ pc' = "ended"
    /\ UNCHANGED <<argv, module, parsing, solving, failing, exitCode, held>>

Ended == pc = "ended" /\ UNCHANGED vars

Next ==
    \/ ParseFlag \/ ParseTimeout \/ ParseError \/ ParsePositional \/ Parsed
    \/ Load \/ Select \/ Compile \/ MakeBackend \/ Verify \/ Close
    \/ Finish \/ Drain \/ Timer \/ Ended

Spec == Init /\ [][Next]_vars

\* Every await settles, and the timer fires.
FairSpec == Spec /\ WF_vars(Next)

-----------------------------------------------------------------------------
(* Properties.                                                             *)

(***************************************************************************)
(* docs/architecture.md: "The CLI exits: 0 when the result is Verified, 1  *)
(* when the result is Failed, 2 for usage, proof compilation, ... errors". *)
(* A failure to close the backend does not change that, nor do handles left*)
(* open or an option given twice or out of place.  Help, version and list  *)
(* end with 0.  It is about modules that leave process.exitCode alone; of  *)
(* the others VerifiedExitsZero, below, tells.                             *)
(***************************************************************************)
ExitTellsVerdict ==
    pc = "ended" =>
        status = CASE printed = "Verified" -> 0
                   [] printed = "Failed"   -> 1
                   [] failing              -> 2
                   [] OTHER                -> 0

(***************************************************************************)
(* A verdict is printed by a run that selected an unambiguous proof of the *)
(* module and was told nothing it did not understand; such a run never     *)
(* ends with a backend it did not try to close.                            *)
(***************************************************************************)
VerdictEarned ==
    /\ printed # None =>
          /\ selected \in module.proofs
          /\ \/ Len(positional) = 2 /\ selected = positional[2]
             \/ Len(positional) = 1 /\ (selected = "default" \/ module.proofs = {selected})
          /\ \A k \in DOMAIN argv : argv[k] \notin {"--unknown", "--timeout=bad"}
    /\ pc = "ended" => backend # "open"

(***************************************************************************)
(* docs/architecture.md: "The CLI exits: 0 when the result is Verified".   *)
(* Not if the module has set process.exitCode: finish() is called with what*)
(* it finds there, and only a Failed verdict writes to it.                 *)
(***************************************************************************)
VerifiedExitsZero ==
    pc = "ended" /\ printed = "Verified" /\ ~failing => status = 0

\* The process ends, whatever the proof module left running.
ProcessEnds == <>(pc = "ended")
=============================================================================
