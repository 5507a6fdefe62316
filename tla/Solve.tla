------------------------------- MODULE Solve -------------------------------
(***************************************************************************)
(* One call of Z3BackendImpl.solve: a fresh solver, its stack of assertion *)
(* frames, the batches of assertions, and the fallback from a batch to its *)
(* assertions one by one.                                                  *)
(*                                                                         *)
(* A step runs from one `await solver.check()` to the next, or over a part *)
(* of that stretch.  The solver is an oracle: it never calls a satisfiable *)
(* query unsat or the reverse, but any check may answer "unknown" (budget  *)
(* spent) or reject (its worker dies).                                     *)
(***************************************************************************)
EXTENDS Program

CONSTANT BatchSize      \* assertionBatchSize, 64 in the code

ASSUME BatchSizeAssumption == BatchSize \in Nat \ {0}

VARIABLES
    program,    \* the program being solved; never changes
    pc,         \* where solve() is
    offset,     \* assertions before the current batch
    cursor,     \* position in the current batch
    stack,      \* the solver's frames, << >> when there is no solver
    outcomes,   \* the outcomes found so far
    ended,      \* history: where solve() was when it threw, and on which answer
    result      \* what the promise settles with

vars == <<program, pc, offset, cursor, stack, outcomes, ended, result>>

-----------------------------------------------------------------------------
(* The solver.                                                             *)

Models == {w \in Worlds : \A k \in DOMAIN stack : w \in stack[k]}

Answers == {"unknown", "rejects", IF Models = {} THEN "unsat" ELSE "sat"}

\* solver.push(); solver.add(f)
Push(f) == stack' = Append(stack, f)

\* solver.pop(), in every finally block
Pop == stack' = SubSeq(stack, 1, Len(stack) - 1)

-----------------------------------------------------------------------------
(* The current batch.                                                      *)

Total == Len(program.assertions)

BatchLength == IF Total - offset < BatchSize THEN Total - offset ELSE BatchSize

Current == program.assertions[offset + cursor]

Negation(e) == Worlds \ e.holds

\* context.Or of the negations of the batch
SomeRefuted == UNION {Negation(program.assertions[offset + j]) : j \in 1..BatchLength}

BatchVerified == [j \in 1..BatchLength |-> AssertionVerified(offset + j)]

-----------------------------------------------------------------------------
(* Ways to stop.  The finally block of solve() releases the solver.        *)

\* Mutant of Throw: the solver is not released.
ThrowUnreleased(answer) ==
    /\ result' = Error
    /\ pc' = "Done"
    /\ ended' = [at |-> pc, answer |-> answer]
    /\ UNCHANGED <<offset, cursor, stack, outcomes>>

Throw(answer) ==
    /\ result' = Error
    /\ pc' = "Done"
    /\ stack' = << >>
    /\ ended' = [at |-> pc, answer |-> answer]
    /\ UNCHANGED <<offset, cursor, outcomes>>

Answer == {"sat", "unsat", "unknown", "rejects"}

Places == {"Start", "AwaitAssumptions", "NextBatch", "Divisors", "AwaitDivisors",
           "BatchQuery", "AwaitBatch", "Check", "AwaitCheck", "Done"}

\* The solver's frames are sets of worlds, and every outcome is well formed.
TypeOK ==
    /\ program \in Programs
    /\ pc \in Places
    /\ offset \in Nat
    /\ cursor \in Nat
    /\ stack \in Seq(SUBSET Worlds)
    /\ outcomes \in Seq(Outcome)
    /\ ended \in [at: Places, answer: Answer \cup {"none"}]
    /\ result \in Result

Init ==
    /\ program \in Programs
    /\ pc = "Start"
    /\ offset = 0
    /\ cursor = 0
    /\ stack = << >>
    /\ outcomes = << >>
    /\ ended = [at |-> "Start", answer |-> "none"]
    /\ result = Pending

(***************************************************************************)
(* registerVariables adds the bounds, checkAssumptions refuses divisions,  *)
(* adds every assumption and asks whether they are satisfiable together.   *)
(***************************************************************************)
RejectProgram ==
    /\ pc = "Start"
    /\ \/ Total = 0
       \/ ~program.registers
       \/ \E a \in program.assumptions : a.divisors # {} \/ ~a.compiles
    /\ Throw("none")
    /\ UNCHANGED program

Begin ==
    /\ pc = "Start"
    /\ Total # 0
    /\ program.registers
    /\ \A a \in program.assumptions : a.divisors = {} /\ a.compiles
    /\ stack' = <<{w \in program.bounds :
                      \A a \in program.assumptions : w \in a.holds}>>
    /\ pc' = "AwaitAssumptions"
    /\ UNCHANGED <<program, offset, cursor, outcomes, ended, result>>

AssumptionsAnswered(answer) ==
    /\ pc = "AwaitAssumptions"
    /\ answer \in Answers
    /\ \/ /\ answer = "sat"
          /\ pc' = "NextBatch"
          /\ UNCHANGED <<offset, cursor, stack, outcomes, ended, result>>
       \/ answer # "sat" /\ Throw(answer)
    /\ UNCHANGED program

NextBatch ==
    /\ pc = "NextBatch"
    /\ offset < Total
    /\ cursor' = 1
    /\ pc' = "Divisors"
    /\ UNCHANGED <<program, offset, stack, outcomes, ended, result>>

\* Mutant of Finish: one refuted assertion among proved ones goes unnoticed.
FinishUnlessAllRefuted ==
    /\ pc = "NextBatch"
    /\ offset >= Total
    /\ result' = [kind |-> IF \A i \in DOMAIN outcomes : Refuted(outcomes[i])
                             THEN "Failed" ELSE "Verified",
                  assertions |-> outcomes]
    /\ pc' = "Done"
    /\ stack' = << >>
    /\ UNCHANGED <<program, offset, cursor, outcomes, ended>>

Finish ==
    /\ pc = "NextBatch"
    /\ offset >= Total
    /\ result' = [kind |-> IF \E i \in DOMAIN outcomes : Refuted(outcomes[i])
                             THEN "Failed" ELSE "Verified",
                  assertions |-> outcomes]
    /\ pc' = "Done"
    /\ stack' = << >>
    /\ UNCHANGED <<program, offset, cursor, outcomes, ended>>

(***************************************************************************)
(* checkAssertionDivisors, and what follows it: a batch of one goes on to  *)
(* checkAssertionResult, which compiles inside its own try; a larger batch *)
(* compiles the negation at once and moves to its next assertion.  The     *)
(* divisors of an expression that does not compile may or may not compile. *)
(***************************************************************************)
DivisorsDone ==
    \/ /\ BatchLength = 1
       /\ pc' = "Check"
       /\ UNCHANGED <<offset, cursor, outcomes, ended, result>>
    \/ /\ BatchLength > 1
       /\ Current.compiles
       /\ IF cursor < BatchLength
            THEN cursor' = cursor + 1 /\ pc' = "Divisors"
            ELSE UNCHANGED cursor /\ pc' = "BatchQuery"
       /\ UNCHANGED <<offset, outcomes, ended, result>>

SkipDivisors ==
    /\ pc = "Divisors"
    /\ Current.divisors = {}
    /\ DivisorsDone
    /\ UNCHANGED <<program, stack>>

RejectAssertion ==
    /\ pc \in {"Divisors", "Check"}
    /\ ~Current.compiles
    /\ pc = "Divisors" => BatchLength > 1 \/ Current.divisors # {}
    /\ Throw("none")
    /\ UNCHANGED program

AskDivisors ==
    /\ pc = "Divisors"
    /\ Current.divisors # {}
    /\ Push(UNION Current.divisors)
    /\ pc' = "AwaitDivisors"
    /\ UNCHANGED <<program, offset, cursor, outcomes, ended, result>>

\* Mutant of DivisorsAnswered: only a model refutes a divisor.
DivisorsNotRefuted(answer) ==
    /\ pc = "AwaitDivisors"
    /\ answer \in Answers
    /\ \/ answer \in {"unsat", "unknown"} /\ DivisorsDone /\ Pop
       \/ answer = "unsat" /\ BatchLength > 1 /\ ~Current.compiles /\ Throw(answer)
       \/ answer \in {"sat", "rejects"} /\ Throw(answer)
    /\ UNCHANGED program

DivisorsAnswered(answer) ==
    /\ pc = "AwaitDivisors"
    /\ answer \in Answers
    /\ \/ answer = "unsat" /\ DivisorsDone /\ Pop
       \/ answer = "unsat" /\ BatchLength > 1 /\ ~Current.compiles /\ Throw(answer)
       \/ answer # "unsat" /\ Throw(answer)
    /\ UNCHANGED program

(***************************************************************************)
(* The batch query.  Anything but "unsat" falls back to one query per      *)
(* assertion, "unknown" included.                                          *)
(***************************************************************************)
AskBatch ==
    /\ pc = "BatchQuery"
    /\ Push(SomeRefuted)
    /\ pc' = "AwaitBatch"
    /\ UNCHANGED <<program, offset, cursor, outcomes, ended, result>>

\* Mutant of BatchAnswered: the fallback keeps the frame of the batch query.
BatchFrameKept(answer) ==
    /\ pc = "AwaitBatch"
    /\ answer \in Answers
    /\ \/ /\ answer = "unsat"
          /\ outcomes' = outcomes \o BatchVerified
          /\ offset' = offset + BatchSize
          /\ pc' = "NextBatch"
          /\ Pop
          /\ UNCHANGED <<cursor, ended, result>>
       \/ /\ answer \in {"sat", "unknown"}
          /\ cursor' = 1
          /\ pc' = "Check"
          /\ UNCHANGED <<offset, stack, outcomes, ended, result>>
       \/ answer = "rejects" /\ Throw(answer)
    /\ UNCHANGED program

\* Mutant of BatchAnswered: a batch the solver gives up on ends the call.
BatchNotRetried(answer) ==
    /\ pc = "AwaitBatch"
    /\ answer \in Answers
    /\ \/ /\ answer = "unsat"
          /\ outcomes' = outcomes \o BatchVerified
          /\ offset' = offset + BatchSize
          /\ pc' = "NextBatch"
          /\ Pop
          /\ UNCHANGED <<cursor, ended, result>>
       \/ /\ answer = "sat"
          /\ cursor' = 1
          /\ pc' = "Check"
          /\ Pop
          /\ UNCHANGED <<offset, outcomes, ended, result>>
       \/ answer \in {"unknown", "rejects"} /\ Throw(answer)
    /\ UNCHANGED program

BatchAnswered(answer) ==
    /\ pc = "AwaitBatch"
    /\ answer \in Answers
    /\ \/ /\ answer = "unsat"
          /\ outcomes' = outcomes \o BatchVerified
          /\ offset' = offset + BatchSize
          /\ pc' = "NextBatch"
          /\ Pop
          /\ UNCHANGED <<cursor, ended, result>>
       \/ /\ answer \in {"sat", "unknown"}
          /\ cursor' = 1
          /\ pc' = "Check"
          /\ Pop
          /\ UNCHANGED <<offset, outcomes, ended, result>>
       \/ answer = "rejects" /\ Throw(answer)
    /\ UNCHANGED program

(***************************************************************************)
(* checkAssertionResult.                                                   *)
(***************************************************************************)
AskCheck ==
    /\ pc = "Check"
    /\ Current.compiles
    /\ Push(Negation(Current))
    /\ pc' = "AwaitCheck"
    /\ UNCHANGED <<program, offset, cursor, outcomes, ended, result>>

Record(outcome) ==
    /\ outcomes' = Append(outcomes, outcome)
    /\ IF cursor < BatchLength
         THEN cursor' = cursor + 1 /\ pc' = "Check" /\ UNCHANGED offset
         ELSE /\ offset' = offset + BatchSize
              /\ pc' = "NextBatch"
              /\ UNCHANGED cursor
    /\ Pop
    /\ UNCHANGED <<ended, result>>

\* Mutant of CheckAnswered: a model that was not decoded is reported as it is.
CheckNotDecoded(answer, decodes) ==
    /\ pc = "AwaitCheck"
    /\ answer \in Answers
    /\ \/ answer = "unsat" /\ Record(AssertionVerified(offset + cursor))
       \/ answer = "sat" /\ Record(AssertionFailed(offset + cursor, Models))
       \/ answer \in {"unknown", "rejects"} /\ Throw(answer)
    /\ UNCHANGED program

\* A model that decodeCounterexample cannot read throws, as "unknown" does.
CheckAnswered(answer, decodes) ==
    /\ pc = "AwaitCheck"
    /\ answer \in Answers
    /\ \/ answer = "unsat" /\ Record(AssertionVerified(offset + cursor))
       \/ /\ answer = "sat" /\ decodes
          /\ \E w \in Models : Record(AssertionFailed(offset + cursor, w))
       \/ answer = "sat" /\ ~decodes /\ Throw(answer)
       \/ answer \in {"unknown", "rejects"} /\ Throw(answer)
    /\ UNCHANGED program

\* The promise has settled and the solver is gone: nothing more happens.
Settled == pc = "Done" /\ UNCHANGED vars

Next ==
    \/ RejectProgram
    \/ Begin
    \/ \E answer \in Answer : AssumptionsAnswered(answer)
    \/ NextBatch
    \/ Finish
    \/ SkipDivisors
    \/ RejectAssertion
    \/ AskDivisors
    \/ \E answer \in Answer : DivisorsAnswered(answer)
    \/ AskBatch
    \/ \E answer \in Answer : BatchAnswered(answer)
    \/ AskCheck
    \/ \E answer \in Answer, decodes \in BOOLEAN : CheckAnswered(answer, decodes)
    \/ Settled

Spec == Init /\ [][Next]_vars

\* Every check answers, and the JavaScript between two checks runs on.
FairSpec == Spec /\ WF_vars(Next)

-----------------------------------------------------------------------------
(* Properties.                                                             *)

\* The constraints a check in flight is meant to decide together.
Asked ==
    CASE pc = "AwaitAssumptions" -> Worlds
      [] pc = "AwaitDivisors"    -> UNION Current.divisors
      [] pc = "AwaitBatch"       -> SomeRefuted
      [] pc = "AwaitCheck"       -> Negation(Current)

(***************************************************************************)
(* Whatever was asked before, a check sees the bounds, the assumptions and *)
(* its own query, and nothing left behind by an earlier push: the finally  *)
(* blocks of checkAssertionDivisors, checkAssertionBatch and               *)
(* checkAssertionResult balance the stack on every path.                   *)
(***************************************************************************)
QueryExact ==
    pc \in {"AwaitAssumptions", "AwaitDivisors", "AwaitBatch", "AwaitCheck"}
        => Models = Feasible(program) \cap Asked

(***************************************************************************)
(* A Verified or Failed result is justified: assumptions satisfiable, every*)
(* divisor nonzero, one outcome per assertion in order, and each outcome   *)
(* true, whichever batches were solved at once and whichever one by one.   *)
(***************************************************************************)
Abstract == INSTANCE Verdict

VerdictJustified ==
    result.kind \in {"Verified", "Failed"} => Abstract!Justified(program, result)

(***************************************************************************)
(* The other direction: what can cost a meaningful program its verdict.  A *)
(* check that rejects, wherever it is, a batch included; "unknown" on the  *)
(* assumptions, a divisor or a single assertion; a model of a refuted      *)
(* assertion that cannot be decoded.  A batch the solver cannot decide is  *)
(* none of these, and neither is anything the batching itself does.        *)
(***************************************************************************)
SolverFailed ==
    \/ ended.answer = "rejects"
    \/ ended.answer = "unknown" /\ ended.at \in {"AwaitAssumptions", "AwaitDivisors", "AwaitCheck"}
    \/ ended.answer = "sat" /\ ended.at = "AwaitCheck"

ErrorJustified == result.kind = "Error" => SolverFailed \/ ~Meaningful(program)

\* solve() implements the promise: one answer, justified, never revised.
ImplementsVerdict == Abstract!Spec

\* Every call settles, and the solver it created is released by then.
Termination == <>(result.kind # "Pending" /\ stack = << >>)
=============================================================================
