----------------------------- MODULE CliProofs -----------------------------
(***************************************************************************)
(* Proofs about the command line, for argument lists of any length and     *)
(* modules with any proofs: a verdict is earned, and the exit status tells *)
(* it unless the proof module sets process.exitCode.                       *)
(***************************************************************************)
EXTENDS Cli, SequenceTheorems, TLAPS

-----------------------------------------------------------------------------
(* A verdict is earned.                                                    *)

Refused == {"--unknown", "--timeout=bad"}

\* The export Select may have picked.
Unambiguous ==
    /\ selected \in module.proofs
    /\ \/ Len(positional) = 2 /\ selected = positional[2]
       \/ Len(positional) = 1 /\ (selected = "default" \/ module.proofs = {selected})

(***************************************************************************)
(* No argument parsed so far is one that is refused, all are parsed before *)
(* the module is loaded, and the export is chosen before it is compiled.   *)
(***************************************************************************)
EInv ==
    /\ argv \in Commands
    /\ pc \in {"parse", "load", "select", "compile", "backend", "verify", "close",
               "settled", "finishing", "ended"}
    /\ index \in Nat
    /\ positional \in Seq(Words)
    /\ pc \in {"parse"} => \A k \in DOMAIN argv : k < index => argv[k] \notin Refused
    /\ pc \notin {"parse", "settled", "finishing", "ended"} \/ printed # None =>
          /\ Len(positional) \in 1..2
          /\ \A k \in DOMAIN argv : argv[k] \notin Refused
    /\ pc \in {"compile", "backend", "verify", "close"} \/ printed # None => Unambiguous
    /\ printed # None => pc \in {"close", "settled", "finishing", "ended"}
    /\ backend = "open" => pc \in {"verify", "close"}

\* An argument list is a sequence of words and options.
LEMMA ArgumentsTyped ==
    ASSUME argv \in Commands
    PROVE  /\ Len(argv) \in Nat /\ DOMAIN argv = 1..Len(argv)
           /\ \A k \in DOMAIN argv : argv[k] \in Words \cup Options
BY CliAssumption

LEMMA InitEInv == Init => EInv
<1> SUFFICES ASSUME Init PROVE EInv
  OBVIOUS
<1>1. << >> \in Seq(Words)
  OBVIOUS
<1>2. \A k \in DOMAIN argv : ~(k < index)
  BY ArgumentsTyped DEF Init
<1> QED
  BY <1>1, <1>2 DEF Init, EInv

\* What the parser steps over is not refused.
LEMMA ParseEInv ==
    ASSUME EInv, ParseFlag \/ ParseTimeout \/ ParsePositional
    PROVE  EInv'
<1> USE DEF parsing, solving
<1>1. /\ argv' = argv /\ module' = module /\ pc' = pc /\ pc = "parse"
      /\ selected' = selected /\ printed' = printed /\ backend' = backend
      /\ printed = None /\ backend # "open"
  BY DEF EInv, ParseFlag, ParseTimeout, ParsePositional, Parsing
<1>2. index' \in Nat
  BY DEF EInv, ParseFlag, ParseTimeout, ParsePositional
<1>3. positional' \in Seq(Words)
  BY DEF EInv, ParseFlag, ParseTimeout, ParsePositional
<1>4. \A k \in DOMAIN argv : k < index' => argv[k] \notin Refused
  <2> SUFFICES ASSUME NEW k \in DOMAIN argv, k < index' PROVE argv[k] \notin Refused
    OBVIOUS
  <2>1. k \in Nat /\ index \in Nat /\ (k < index => argv[k] \notin Refused)
    BY ArgumentsTyped, <1>1 DEF EInv
  <2>2. CASE ParseFlag
    <3>1. k < index \/ k = index
      BY <2>1, <2>2 DEF ParseFlag
    <3> QED
      BY <2>1, <2>2, <3>1 DEF ParseFlag, Refused
  <2>3. CASE ParsePositional
    <3>1. k < index \/ k = index
      BY <2>1, <2>3 DEF ParsePositional
    <3>2. argv[index] \notin Refused
      BY <2>3, CliAssumption DEF ParsePositional, Refused, Options
    <3> QED
      BY <2>1, <3>1, <3>2
  <2>4. CASE ParseTimeout
    <3>1. k < index \/ k = index \/ k = index + 1
      BY <2>1, <2>4 DEF ParseTimeout
    <3>2. argv[index] \notin Refused
      BY <2>4 DEF ParseTimeout, Refused
    <3>3. argv[index + 1] \notin Refused
      BY <2>4, CliAssumption DEF ParseTimeout, Refused, Options
    <3> QED
      BY <2>1, <3>1, <3>2, <3>3
  <2> QED
    BY <2>2, <2>3, <2>4
<1> QED
  BY <1>1, <1>2, <1>3, <1>4 DEF EInv

\* The module is loaded when every argument has been parsed.
LEMMA ParsedEInv ==
    ASSUME EInv, Parsed
    PROVE  EInv'
<1>1. \A k \in DOMAIN argv : argv[k] \notin Refused
  BY ArgumentsTyped DEF EInv, Parsed
<1>2. pc' \in {"settled", "load"} /\ (pc' = "load" => Len(positional) \in 1..2)
  BY DEF Parsed, Reject
<1>3. printed = None /\ backend # "open"
  BY DEF EInv, Parsed
<1> QED
  BY <1>1, <1>2, <1>3 DEF EInv, Parsed, parsing, solving

LEMMA SelectEInv ==
    ASSUME EInv, Select
    PROVE  EInv'
<1> DEFINE candidates == IF Len(positional) = 2
                           THEN module.proofs \cap {positional[2]}
                         ELSE IF "default" \in module.proofs THEN {"default"}
                         ELSE module.proofs
<1>1. printed = None /\ backend # "open" /\ Len(positional) \in 1..2
  BY DEF EInv, Select
<1>2. CASE \E name \in candidates : candidates = {name}
  <2>1. PICK name \in candidates : candidates = {name}
    BY <1>2
  <2>2. selected' = name /\ pc' = "compile"
    BY <2>1 DEF Select
  <2>3. Unambiguous'
    BY <1>1, <2>1, <2>2 DEF Unambiguous, Select, parsing
  <2> QED
    BY <1>1, <2>2, <2>3 DEF EInv, Select, parsing
<1>3. CASE ~\E name \in candidates : candidates = {name}
  <2>1. pc' = "settled" /\ selected' = selected
    BY <1>3 DEF Select, Reject
  <2> QED
    BY <1>1, <2>1 DEF EInv, Select, parsing
<1> QED
  BY <1>2, <1>3

\* What comes after the choice leaves it alone.
LEMMA NextEInv == EInv /\ [Next]_vars => EInv'
<1> SUFFICES ASSUME EInv, [Next]_vars PROVE EInv'
  OBVIOUS
<1> USE DEF parsing, solving
<1>1. CASE ParseFlag \/ ParseTimeout \/ ParsePositional
  BY <1>1, ParseEInv
<1>2. CASE ParseError
  BY <1>2 DEF ParseError, Parsing, Reject, EInv, Unambiguous
<1>3. CASE Parsed
  BY <1>3, ParsedEInv
<1>4. CASE Load
  BY <1>4 DEF Load, Reject, EInv, Unambiguous
<1>5. CASE Select
  BY <1>5, SelectEInv
<1>6. CASE Compile
  BY <1>6 DEF Compile, Reject, EInv, Unambiguous
<1>7. CASE MakeBackend
  BY <1>7 DEF MakeBackend, Reject, EInv, Unambiguous
<1>8. CASE Verify
  BY <1>8 DEF Verify, EInv, Unambiguous
<1>9. CASE Close
  BY <1>9 DEF Close, EInv, Unambiguous
<1>10. CASE Finish
  BY <1>10 DEF Finish, EInv, Unambiguous
<1>11. CASE Drain \/ Timer
  BY <1>11 DEF Drain, Timer, EInv, Unambiguous
<1>12. CASE Ended \/ UNCHANGED vars
  BY <1>12 DEF Ended, vars, EInv, Unambiguous
<1> QED
  BY <1>1, <1>2, <1>3, <1>4, <1>5, <1>6, <1>7, <1>8, <1>9, <1>10, <1>11, <1>12 DEF Next

\* No verdict of an ambiguous export or after a refused argument, and no
\* backend that nobody tried to close, for any command and module.
THEOREM CliVerdictEarned == Spec => []VerdictEarned
<1>1. EInv => VerdictEarned
  BY DEF EInv, VerdictEarned, Unambiguous, Refused
<1> QED
  BY <1>1, InitEInv, NextEInv, PTL DEF Spec

-----------------------------------------------------------------------------
(* The exit status tells the verdict.                                      *)

\* No proof module writes an error status of its own to process.exitCode.
LeavesExitCode == \A mod \in Modules : mod.exitCode \in {None, 0}

\* What the process has to end with.
Told ==
    CASE printed = "Verified" -> 0
      [] printed = "Failed"   -> 1
      [] failing              -> 2
      [] OTHER                -> 0

(***************************************************************************)
(* A verdict is printed by a run that does not fail later on, and until    *)
(* finish() process.exitCode tells a Failed verdict from the rest.         *)
(***************************************************************************)
SInv ==
    /\ module \in Modules
    /\ printed \in {None, "Verified", "Failed"}
    /\ failing \in BOOLEAN
    /\ printed # None => ~failing /\ pc \in {"close", "settled", "finishing", "ended"}
    /\ failing => pc \in {"close", "settled", "finishing", "ended"}
    /\ pc \in {"finishing", "ended"} => exitCode = Told
    /\ pc \notin {"finishing", "ended"} =>
          exitCode \in (IF printed = "Failed" THEN {1} ELSE {None, 0})
    /\ pc = "ended" => status = Told

LEMMA InitSInv == Init => SInv
BY CliAssumption DEF Init, SInv

\* What run() does before finish(), and without a verdict or an exit code.
LEMMA UndecidedSInv ==
    ASSUME SInv, UNCHANGED <<module, printed, exitCode>>,
           pc \notin {"finishing", "ended"}, printed = None,
           failing' \in BOOLEAN, failing' => pc' = "settled",
           pc' \notin {"finishing", "ended"}
    PROVE  SInv'
BY DEF SInv

LEMMA NextSInv ==
    ASSUME LeavesExitCode, SInv, [Next]_vars
    PROVE  SInv'
<1> USE DEF parsing, solving
<1>1. CASE ParseFlag \/ ParseTimeout \/ ParsePositional \/ ParseError \/ Parsed
  <2>1. pc = "parse" /\ UNCHANGED <<module, printed, exitCode>>
    BY <1>1 DEF ParseFlag, ParseTimeout, ParsePositional, ParseError, Parsed, Parsing
  <2>2. failing = FALSE /\ printed = None
    BY <2>1 DEF SInv
  <2>3. /\ failing' \in BOOLEAN /\ pc' \in {"parse", "settled", "load"}
        /\ failing' => pc' = "settled"
    BY <1>1, <2>1, <2>2
       DEF ParseFlag, ParseTimeout, ParsePositional, ParseError, Parsed, Reject
  <2> QED
    BY <2>1, <2>2, <2>3, UndecidedSInv
<1>3. CASE Load
  <2>1. printed = None /\ exitCode' \in {None, 0}
    BY <1>3 DEF Load, SInv, LeavesExitCode
  <2> QED
    BY <1>3, <2>1, CliAssumption DEF Load, Reject, SInv
<1>4. CASE Select \/ Compile \/ MakeBackend
  <2>1. pc \in {"select", "compile", "backend"} /\ UNCHANGED <<module, printed, exitCode>>
    BY <1>4 DEF Select, Compile, MakeBackend
  <2>2. failing = FALSE /\ printed = None
    BY <2>1 DEF SInv
  <2>3. /\ failing' \in BOOLEAN /\ pc' \in {"compile", "backend", "verify", "settled"}
        /\ failing' => pc' = "settled"
    <3>1. CASE Select
      BY <2>2, <3>1 DEF Select, Reject
    <3>2. CASE Compile \/ MakeBackend
      BY <2>2, <3>2 DEF Compile, MakeBackend, Reject
    <3> QED
      BY <1>4, <3>1, <3>2
  <2> QED
    BY <2>1, <2>2, <2>3, UndecidedSInv
<1>5. CASE Verify
  <2>1. /\ pc = "verify" /\ pc' = "close" /\ module' = module
        /\ failing = FALSE /\ printed = None /\ exitCode \in {None, 0}
    BY <1>5, CliAssumption DEF Verify, SInv
  <2>2. CASE printed' \in {"Verified", "Failed"} /\ failing' = FALSE
    <3>1. exitCode' \in (IF printed' = "Failed" THEN {1} ELSE {None, 0})
      BY <1>5, <2>1, <2>2, CliAssumption DEF Verify
    <3> QED
      BY <2>1, <2>2, <3>1 DEF SInv
  <2>3. CASE failing' = TRUE /\ UNCHANGED <<printed, exitCode>>
    BY <2>1, <2>3, CliAssumption DEF SInv
  <2> QED
    BY <1>5, <2>1, <2>2, <2>3 DEF Verify
<1>6. CASE Close
  BY <1>6 DEF Close, SInv
<1>7. CASE Finish
  <2>1. printed' = printed /\ failing' = failing /\ pc' = "finishing"
    BY <1>7 DEF Finish
  <2>2. exitCode' = Told
    BY <1>7, CliAssumption DEF Finish, SInv, Told
  <2> QED
    BY <1>7, <2>1, <2>2 DEF Finish, SInv, Told
<1>8. CASE Drain \/ Timer
  BY <1>8 DEF Drain, Timer, SInv, Told
<1>9. CASE Ended \/ UNCHANGED vars
  BY <1>9 DEF Ended, vars, SInv, Told
<1> QED
  BY <1>1, <1>3, <1>4, <1>5, <1>6, <1>7, <1>8, <1>9 DEF Next

\* If proof modules leave process.exitCode alone, the exit status tells the
\* verdict: no failure to close, no handle left open and no way of giving the
\* options comes between.
THEOREM CliExitTellsVerdict ==
    ASSUME \A mod \in Modules : mod.exitCode \in {None, 0}
    PROVE  Spec => []ExitTellsVerdict
<1>1. SInv => ExitTellsVerdict
  BY DEF SInv, ExitTellsVerdict, Told
<1>2. LeavesExitCode
  BY DEF LeavesExitCode
<1>3. SInv /\ [Next]_vars => SInv'
  BY <1>2, NextSInv
<1> QED
  BY <1>1, <1>3, InitSInv, PTL DEF Spec
=============================================================================
