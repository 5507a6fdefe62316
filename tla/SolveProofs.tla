---------------------------- MODULE SolveProofs ----------------------------
(***************************************************************************)
(* Proofs about Solve, for every set of worlds, every program and every    *)
(* batch size: the solver sees exactly the query that is meant, a verdict  *)
(* is justified, an error has a cause, and solve() implements Verdict.     *)
(***************************************************************************)
EXTENDS Solve, SequenceTheorems, TLAPS

-----------------------------------------------------------------------------
(* The inductive invariant.                                                *)

InBatch == {"Divisors", "AwaitDivisors", "BatchQuery", "AwaitBatch",
            "Check", "AwaitCheck"}

\* What RejectProgram excludes.
Accepted(p) ==
    /\ p.registers
    /\ Len(p.assertions) # 0
    /\ \A a \in p.assumptions : a.compiles /\ a.divisors = {}

\* The solver is refused unsatisfiable assumptions and unaccepted programs.
Progress ==
    /\ pc # "Done" => result = Pending
    /\ pc \notin {"Start", "Done"} => Accepted(program)
    /\ pc \in InBatch \cup {"NextBatch"} => Feasible(program) # {}

\* Every push is matched by a pop before the next one.
Balanced ==
    /\ pc \in {"AwaitAssumptions", "NextBatch", "Divisors", "BatchQuery", "Check"}
          => Len(stack) = 1 /\ stack[1] = Feasible(program)
    /\ pc \in {"AwaitDivisors", "AwaitBatch", "AwaitCheck"}
          => Len(stack) = 2 /\ stack[1] = Feasible(program) /\ stack[2] = Asked

\* The loop counters account for every outcome.
Counted ==
    /\ pc \in {"Start", "AwaitAssumptions"} => offset = 0 /\ outcomes = << >>
    /\ pc = "NextBatch"
          => Len(outcomes) = IF offset < Total THEN offset ELSE Total
    /\ pc \in InBatch => offset < Total /\ cursor \in 1..BatchLength
    /\ pc \in {"Divisors", "AwaitDivisors", "BatchQuery", "AwaitBatch"}
          => Len(outcomes) = offset
    /\ pc \in {"Check", "AwaitCheck"} => Len(outcomes) = offset + cursor - 1

DefinedAt(i) == Defined(program, program.assertions[i])

CompilesAt(i) == program.assertions[i].compiles

\* Divisors are settled before the query that relies on them.
Checked ==
    /\ pc \in {"Divisors", "AwaitDivisors"}
          => \A j \in 1..(cursor - 1) : DefinedAt(offset + j) /\ CompilesAt(offset + j)
    /\ pc \in {"BatchQuery", "AwaitBatch"}
          => \A j \in 1..BatchLength : DefinedAt(offset + j) /\ CompilesAt(offset + j)
    /\ pc \in {"Check", "AwaitCheck"}
          => \A j \in 1..BatchLength : DefinedAt(offset + j)
    /\ pc = "AwaitCheck" => CompilesAt(offset + cursor)

OutcomesTrue ==
    pc # "Done" =>
        \A i \in 1..Len(outcomes) :
            /\ i \in 1..Total
            /\ DefinedAt(i) /\ CompilesAt(i)
            /\ Truthful(program, i, outcomes[i])

IInv ==
    /\ TypeOK
    /\ Progress
    /\ Balanced
    /\ Counted
    /\ Checked
    /\ OutcomesTrue
    /\ VerdictJustified
    /\ ErrorJustified

-----------------------------------------------------------------------------
(* Facts about programs and about the solver's stack.                      *)

\* What is known of the program being solved.
LEMMA ProgramTyped ==
    ASSUME NEW p \in Programs
    PROVE  /\ p \in VerificationProgram
           /\ p.registers \in BOOLEAN
           /\ p.bounds \in SUBSET Worlds
           /\ p.assumptions \in SUBSET Expression
           /\ p.assertions \in Seq(Expression)
           /\ Len(p.assertions) \in Nat
           /\ Assertions(p) = 1..Len(p.assertions)
           /\ \A i \in Assertions(p) : p.assertions[i] \in Expression
           /\ Feasible(p) \in SUBSET Worlds
<1>1. p \in VerificationProgram
  BY ProgramsAssumption
<1> QED
  BY <1>1 DEF VerificationProgram, Assertions, Feasible

\* A push adds one frame on top of the others.
LEMMA PushFrame ==
    ASSUME NEW s \in Seq(SUBSET Worlds), NEW f \in SUBSET Worlds, Len(s) > 0
    PROVE  /\ Append(s, f) \in Seq(SUBSET Worlds)
           /\ Len(Append(s, f)) = Len(s) + 1
           /\ Append(s, f)[1] = s[1]
           /\ Append(s, f)[Len(s) + 1] = f
<1>1. /\ Append(s, f) \in Seq(SUBSET Worlds)
      /\ Len(Append(s, f)) = Len(s) + 1
      /\ \A i \in 1..Len(s) : Append(s, f)[i] = s[i]
      /\ Append(s, f)[Len(s) + 1] = f
  BY AppendProperties
<1>2. 1 \in 1..Len(s)
  OBVIOUS
<1> QED
  BY <1>1, <1>2

\* A pop takes the topmost frame away.
LEMMA PopFrame ==
    ASSUME NEW s \in Seq(SUBSET Worlds), Len(s) = 2
    PROVE  /\ SubSeq(s, 1, Len(s) - 1) \in Seq(SUBSET Worlds)
           /\ Len(SubSeq(s, 1, Len(s) - 1)) = 1
           /\ SubSeq(s, 1, Len(s) - 1)[1] = s[1]
<1> DEFINE front == SubSeq(s, 1, 1)
<1>1. Len(s) - 1 = 1
  OBVIOUS
<1>2. \A i \in 1..1 : s[i] \in SUBSET Worlds
  <2>1. s[1] \in SUBSET Worlds
    BY ElementOfSeq
  <2> QED
    BY <2>1
<1>3. /\ front \in Seq(SUBSET Worlds)
      /\ Len(front) = IF 1 <= 1 THEN 1 - 1 + 1 ELSE 0
      /\ \A i \in 1..(1 - 1 + 1) : front[i] = s[1 + i - 1]
  BY <1>2, SubSeqProperties
<1> HIDE DEF front
<1>4. Len(front) = 1 /\ front[1] = s[1]
  BY <1>3
<1> QED
  BY <1>1, <1>3, <1>4 DEF front

\* What a push and a pop do to the solver, between two checks.
LEMMA PushQuery ==
    ASSUME NEW f \in SUBSET Worlds, stack \in Seq(SUBSET Worlds),
           Len(stack) = 1, Push(f)
    PROVE  /\ stack' \in Seq(SUBSET Worlds) /\ Len(stack') = 2
           /\ stack'[1] = stack[1] /\ stack'[2] = f
<1>1. stack' = Append(stack, f) /\ Len(stack) > 0
  BY DEF Push
<1>2. /\ stack' \in Seq(SUBSET Worlds) /\ Len(stack') = Len(stack) + 1
      /\ stack'[1] = stack[1] /\ stack'[Len(stack) + 1] = f
  BY <1>1, PushFrame
<1>3. Len(stack) + 1 = 2
  OBVIOUS
<1> QED
  BY <1>2, <1>3

\* After a pop the solver has the base frame only.
LEMMA PopQuery ==
    ASSUME stack \in Seq(SUBSET Worlds), Len(stack) = 2, Pop
    PROVE  /\ stack' \in Seq(SUBSET Worlds) /\ Len(stack') = 1
           /\ stack'[1] = stack[1]
BY PopFrame DEF Pop

\* Verdict speaks of programs in the same words.
LEMMA AbstractWords ==
    ASSUME NEW p
    PROVE  /\ Abstract!Meaningful(p) <=> Meaningful(p)
           /\ Abstract!Assertions(p) = Assertions(p)
           /\ \A i, o : Abstract!Truthful(p, i, o) <=> Truthful(p, i, o)
           /\ \A o : Abstract!Refuted(o) <=> Refuted(o)
<1>1. Abstract!Feasible(p) = Feasible(p)
  BY DEF Feasible, Abstract!Feasible
<1>2. Abstract!Assertions(p) = Assertions(p)
  BY DEF Assertions, Abstract!Assertions
<1>3. \A e : Abstract!Defined(p, e) <=> Defined(p, e)
  BY <1>1 DEF Defined, Abstract!Defined
<1>4. \A e : Abstract!Proved(p, e) <=> Proved(p, e)
  BY <1>1 DEF Proved, Abstract!Proved
<1>5. Abstract!Meaningful(p) <=> Meaningful(p)
  BY <1>1, <1>2, <1>3 DEF Meaningful, Abstract!Meaningful
<1>6. \A i, o : Abstract!Truthful(p, i, o) <=> Truthful(p, i, o)
  BY <1>1, <1>4 DEF Truthful, Abstract!Truthful, AssertionVerified, AssertionFailed,
                    Abstract!AssertionVerified, Abstract!AssertionFailed
<1> QED
  BY <1>2, <1>5, <1>6 DEF Refuted, Abstract!Refuted

\* What the oracle sees on a stack of one and of two frames.
LEMMA ModelsOfStack ==
    ASSUME stack \in Seq(SUBSET Worlds)
    PROVE  /\ Len(stack) = 1 => Models = stack[1]
           /\ Len(stack) = 2 => Models = stack[1] \cap stack[2]
<1>1. ASSUME Len(stack) = 1 PROVE Models = stack[1]
  <2>1. DOMAIN stack = {1} /\ stack[1] \in SUBSET Worlds
    BY <1>1
  <2> QED
    BY <2>1 DEF Models
<1>2. ASSUME Len(stack) = 2 PROVE Models = stack[1] \cap stack[2]
  <2>1. DOMAIN stack = {1, 2} /\ stack[1] \in SUBSET Worlds
    BY <1>2
  <2> QED
    BY <2>1 DEF Models
<1> QED
  BY <1>1, <1>2

\* The batch lies within the assertions, and so does the current one.
LEMMA BatchTyped ==
    ASSUME TypeOK, Counted, pc \in InBatch
    PROVE  /\ Total \in Nat
           /\ BatchLength \in 1..BatchSize
           /\ offset + BatchLength \leq Total
           /\ offset + BatchLength = IF offset + BatchSize < Total
                                       THEN offset + BatchSize ELSE Total
           /\ cursor \in 1..BatchLength
           /\ \A j \in 1..BatchLength :
                 /\ offset + j \in 1..Total
                 /\ program.assertions[offset + j] \in Expression
           /\ Current \in Expression
           /\ Current = program.assertions[offset + cursor]
<1>1. Total \in Nat /\ offset \in Nat /\ offset < Total /\ cursor \in 1..BatchLength
  BY ProgramTyped DEF TypeOK, Counted, Total
<1>2. BatchLength \in 1..BatchSize /\ offset + BatchLength \leq Total
  BY <1>1, BatchSizeAssumption DEF BatchLength
<1>3. offset + BatchLength = IF offset + BatchSize < Total
                               THEN offset + BatchSize ELSE Total
  BY <1>1, BatchSizeAssumption DEF BatchLength
<1>4. \A j \in 1..BatchLength : offset + j \in 1..Total
  BY <1>1, <1>2
<1>5. \A i \in 1..Total : program.assertions[i] \in Expression
  BY ProgramTyped DEF TypeOK, Total
<1> QED
  BY <1>1, <1>2, <1>3, <1>4, <1>5 DEF Current

\* The query of a check is a set of worlds.
LEMMA QueriesTyped ==
    ASSUME TypeOK, Counted, pc \in InBatch
    PROVE  /\ UNION Current.divisors \in SUBSET Worlds
           /\ SomeRefuted \in SUBSET Worlds
           /\ Negation(Current) \in SUBSET Worlds
<1>1. Current \in Expression
  BY BatchTyped
<1>2. UNION Current.divisors \in SUBSET Worlds
  BY <1>1 DEF Expression
<1> QED
  BY <1>2 DEF SomeRefuted, Negation

-----------------------------------------------------------------------------
(* Every step keeps the invariant.                                         *)

\* The invariant holds before solve() has done anything.
LEMMA InitIInv == Init => IInv
<1> SUFFICES ASSUME Init PROVE IInv
  OBVIOUS
<1> USE DEF Init
<1>1. TypeOK
  <2>1. << >> \in Seq(Outcome) /\ << >> \in Seq(SUBSET Worlds)
    OBVIOUS
  <2>2. Pending \in Result
    BY <2>1 DEF Pending, Result
  <2> QED
    BY <2>1, <2>2 DEF TypeOK, Places
<1>2. Progress /\ Balanced /\ Counted /\ Checked /\ OutcomesTrue
  BY DEF Progress, Balanced, Counted, Checked, OutcomesTrue, InBatch, Total, Pending
<1>3. VerdictJustified /\ ErrorJustified
  BY DEF VerdictJustified, ErrorJustified, SolverFailed, Pending
<1> QED
  BY <1>1, <1>2, <1>3 DEF IInv

\* An error keeps the invariant if the solver or the program is to blame.
LEMMA ThrowIInv ==
    ASSUME IInv, NEW answer \in Answer \cup {"none"}, Throw(answer), UNCHANGED program,
           SolverFailed' \/ ~Meaningful(program)
    PROVE  IInv'
<1> USE DEF Throw
<1>1. TypeOK'
  BY DEF IInv, TypeOK, Result, Error, Places
<1>2. Progress' /\ Balanced' /\ Counted' /\ Checked' /\ OutcomesTrue'
  BY DEF Progress, Balanced, Counted, Checked, OutcomesTrue, InBatch
<1>3. VerdictJustified' /\ ErrorJustified'
  BY DEF VerdictJustified, ErrorJustified, Error
<1> QED
  BY <1>1, <1>2, <1>3 DEF IInv

\* A program without a meaning gets an error.
LEMMA RejectProgramIInv == IInv /\ RejectProgram => IInv'
<1> SUFFICES ASSUME IInv, RejectProgram PROVE IInv'
  OBVIOUS
<1>1. program \in Programs
  BY DEF IInv, TypeOK
<1>2. ~Meaningful(program)
  BY <1>1, ProgramTyped DEF RejectProgram, Meaningful, Total
<1> QED
  BY <1>2, ThrowIInv DEF RejectProgram

\* The base frame is the feasible set.
LEMMA BeginIInv == IInv /\ Begin => IInv'
<1> SUFFICES ASSUME IInv, Begin PROVE IInv'
  OBVIOUS
<1> USE DEF Begin
<1>1. stack' = <<Feasible(program)>> /\ Feasible(program) \in SUBSET Worlds
  BY ProgramTyped DEF Feasible, IInv, TypeOK
<1>2. Len(stack') = 1 /\ stack'[1] = Feasible(program)
  BY <1>1
<1>3. TypeOK'
  BY <1>1 DEF IInv, TypeOK, Places
<1>4. Progress'
  BY DEF IInv, Progress, Accepted, InBatch, Total
<1>5. Balanced'
  BY <1>2 DEF Balanced
<1>6. Counted' /\ Checked'
  BY DEF IInv, Counted, Checked, InBatch
<1>7. OutcomesTrue'
  BY DEF IInv, Counted, OutcomesTrue
<1>8. VerdictJustified' /\ ErrorJustified'
  BY DEF IInv, Progress, VerdictJustified, ErrorJustified, SolverFailed, Pending
<1> QED
  BY <1>3, <1>4, <1>5, <1>6, <1>7, <1>8 DEF IInv

\* Past this check the program is feasible.
LEMMA AssumptionsAnsweredIInv ==
    ASSUME NEW answer, IInv, AssumptionsAnswered(answer)
    PROVE  IInv'
<1>1. Models = Feasible(program)
  BY ModelsOfStack DEF IInv, TypeOK, Balanced, AssumptionsAnswered
<1>2. CASE answer = "sat"
  <2> USE <1>2 DEF AssumptionsAnswered
  <2>1. Feasible(program) # {}
    BY <1>1 DEF Answers
  <2>2. TypeOK'
    BY DEF IInv, TypeOK, Places, Throw
  <2>3. Progress'
    BY <2>1 DEF IInv, Progress, InBatch, Pending, Error
  <2>4. Balanced'
    BY DEF IInv, Balanced
  <2>5. Counted' /\ Checked'
    <3>1. Total \in Nat /\ Total' = Total
      BY ProgramTyped DEF IInv, TypeOK, Total
    <3>2. outcomes' = << >> /\ offset' = 0
      BY DEF IInv, Counted
    <3> QED
      BY <3>1, <3>2 DEF IInv, Counted, Checked, InBatch
  <2>6. OutcomesTrue'
    BY DEF IInv, Counted, OutcomesTrue
  <2>7. VerdictJustified' /\ ErrorJustified'
    BY DEF IInv, Progress, VerdictJustified, ErrorJustified, SolverFailed, Pending
  <2> QED
    BY <2>2, <2>3, <2>4, <2>5, <2>6, <2>7 DEF IInv
<1>3. CASE answer # "sat"
  <2>1. answer = "unsat" => ~Meaningful(program)
    BY <1>1 DEF AssumptionsAnswered, Answers, Meaningful
  <2>2. Throw(answer) /\ UNCHANGED program /\ answer \in Answer
    BY <1>3 DEF AssumptionsAnswered, Answers, Answer
  <2>3. answer # "unsat" => SolverFailed'
    BY <1>3, <2>2 DEF AssumptionsAnswered, Answer, Throw, SolverFailed
  <2> QED
    BY <2>1, <2>2, <2>3, ThrowIInv
<1> QED
  BY <1>2, <1>3

\* A batch starts at its first assertion.
LEMMA NextBatchIInv == IInv /\ NextBatch => IInv'
<1> SUFFICES ASSUME IInv, NextBatch PROVE IInv'
  OBVIOUS
<1> USE DEF NextBatch
<1>1. /\ Total \in Nat /\ Total' = Total /\ offset \in Nat
      /\ BatchLength' = BatchLength /\ 1 \in 1..BatchLength
  BY ProgramTyped, BatchSizeAssumption DEF IInv, TypeOK, Total, BatchLength
<1>2. TypeOK'
  BY DEF IInv, TypeOK, Places
<1>3. Progress'
  BY DEF IInv, Progress, InBatch
<1>4. Balanced'
  BY DEF IInv, Balanced
<1>5. Counted'
  BY <1>1 DEF IInv, Counted, InBatch
<1>6. Checked'
  BY DEF Checked
<1>7. OutcomesTrue'
  BY <1>1 DEF IInv, OutcomesTrue, DefinedAt, CompilesAt
<1>8. VerdictJustified' /\ ErrorJustified'
  BY DEF IInv, VerdictJustified, ErrorJustified, SolverFailed
<1> QED
  BY <1>2, <1>3, <1>4, <1>5, <1>6, <1>7, <1>8 DEF IInv

\* At the end there is one truthful outcome per assertion.
LEMMA FinishIInv == IInv /\ Finish => IInv'
<1> SUFFICES ASSUME IInv, Finish PROVE IInv'
  OBVIOUS
<1> USE DEF Finish
<1>1. program \in Programs /\ outcomes \in Seq(Outcome)
  BY DEF IInv, TypeOK
<1>2. Len(outcomes) = Total /\ Total \in Nat /\ Total = Len(program.assertions)
  BY <1>1, ProgramTyped DEF IInv, Counted, TypeOK, Total
<1>3. DOMAIN outcomes = Assertions(program)
  BY <1>1, <1>2, ProgramTyped
<1>4. \A i \in Assertions(program) :
         /\ Defined(program, program.assertions[i])
         /\ program.assertions[i].compiles
         /\ Truthful(program, i, outcomes[i])
  BY <1>1, <1>2, ProgramTyped DEF IInv, OutcomesTrue, DefinedAt, CompilesAt
<1>5. Meaningful(program)
  BY <1>1, <1>4, ProgramTyped DEF IInv, Progress, Accepted, Meaningful
<1>6. result'.kind \in {"Verified", "Failed"} /\ result'.assertions = outcomes
  OBVIOUS
<1>7. (result'.kind = "Verified")
        <=> (\A i \in Assertions(program) : ~Refuted(outcomes[i]))
  BY <1>3
<1>8. Abstract!Justified(program, result')
  BY <1>3, <1>4, <1>5, <1>6, <1>7, AbstractWords DEF Abstract!Justified
<1>9. TypeOK'
  <2>1. result' \in Result
    BY <1>1 DEF Result
  <2> QED
    BY <2>1 DEF IInv, TypeOK, Places
<1>10. Progress' /\ Balanced' /\ Counted' /\ Checked' /\ OutcomesTrue'
  BY DEF Progress, Balanced, Counted, Checked, OutcomesTrue, InBatch
<1>11. VerdictJustified' /\ ErrorJustified'
  BY <1>6, <1>8 DEF VerdictJustified, ErrorJustified, SolverFailed
<1> QED
  BY <1>9, <1>10, <1>11 DEF IInv

\* The common end of a divisor check that found nothing.
LEMMA DivisorsDoneIInv ==
    ASSUME IInv, pc \in {"Divisors", "AwaitDivisors"}, DivisorsDone,
           UNCHANGED program, Defined(program, Current),
           stack' \in Seq(SUBSET Worlds), Len(stack') = 1,
           stack'[1] = Feasible(program)
    PROVE  IInv'
<1> USE DEF DivisorsDone
<1>1. /\ Total \in Nat /\ Total' = Total /\ offset' = offset
      /\ BatchLength \in Nat /\ BatchLength' = BatchLength
      /\ cursor \in 1..BatchLength /\ offset < Total
      /\ Current = program.assertions[offset + cursor]
  <2>1. TypeOK /\ Counted /\ pc \in InBatch
    BY DEF IInv, InBatch
  <2>2. Total' = Total /\ BatchLength' = BatchLength
    BY DEF Total, BatchLength
  <2> QED
    BY <2>1, <2>2, BatchTyped, BatchSizeAssumption DEF Counted, InBatch
<1>2. pc' \in {"Check", "Divisors", "BatchQuery"}
  OBVIOUS
<1>3. TypeOK'
  BY <1>1, <1>2 DEF IInv, TypeOK, Places
<1>4. Progress'
  BY <1>2 DEF IInv, Progress, InBatch
<1>5. Balanced'
  BY <1>2 DEF Balanced
<1>6. Counted'
  <2>1. Len(outcomes) = offset /\ offset \in Nat
    BY DEF IInv, Counted, TypeOK
  <2>2. cursor' \in 1..BatchLength
    BY <1>1
  <2>3. pc' = "Check" => cursor = 1 /\ cursor' = 1
    BY <1>1 DEF IInv, TypeOK
  <2>4. pc' \in {"Check", "Divisors", "BatchQuery"}
           /\ Len(outcomes') = offset' /\ offset' < Total' /\ cursor' \in 1..BatchLength'
    BY <1>1, <2>1, <2>2
  <2> QED
    BY <2>1, <2>3, <2>4 DEF Counted
<1>7. Checked'
  <2>1. \A j \in 1..cursor : DefinedAt(offset + j)
    BY <1>1 DEF IInv, Checked, DefinedAt
  <2>2. pc' # "Check" => \A j \in 1..cursor : CompilesAt(offset + j)
    BY <1>1 DEF IInv, Checked, CompilesAt
  <2>3. \A i : DefinedAt(i)' = DefinedAt(i) /\ CompilesAt(i)' = CompilesAt(i)
    BY DEF DefinedAt, CompilesAt
  <2>4. pc' = "Divisors" => cursor' - 1 = cursor
    BY <1>1
  <2>5. pc' # "Divisors" => cursor = BatchLength
    BY <1>1
  <2> QED
    BY <1>1, <1>2, <2>1, <2>2, <2>3, <2>4, <2>5 DEF Checked
<1>8. OutcomesTrue'
  BY <1>1, <1>2 DEF IInv, OutcomesTrue, DefinedAt, CompilesAt
<1>9. VerdictJustified' /\ ErrorJustified'
  BY DEF IInv, VerdictJustified, ErrorJustified, SolverFailed
<1> QED
  BY <1>3, <1>4, <1>5, <1>6, <1>7, <1>8, <1>9 DEF IInv

\* An assertion without divisors is defined.
LEMMA SkipDivisorsIInv == IInv /\ SkipDivisors => IInv'
<1> SUFFICES ASSUME IInv, SkipDivisors PROVE IInv'
  OBVIOUS
<1>1. Defined(program, Current)
  BY DEF SkipDivisors, Defined
<1>2. stack' \in Seq(SUBSET Worlds) /\ Len(stack') = 1 /\ stack'[1] = Feasible(program)
  BY DEF SkipDivisors, IInv, TypeOK, Balanced
<1> QED
  BY <1>1, <1>2, DivisorsDoneIInv DEF SkipDivisors

\* An assertion that does not compile has no meaning.
LEMMA RejectAssertionIInv == IInv /\ RejectAssertion => IInv'
<1> SUFFICES ASSUME IInv, RejectAssertion PROVE IInv'
  OBVIOUS
<1>1. offset + cursor \in Assertions(program)
  <2>1. TypeOK /\ Counted /\ pc \in InBatch
    BY DEF IInv, RejectAssertion, InBatch
  <2> QED
    BY <2>1, BatchTyped, ProgramTyped DEF TypeOK, Total
<1>2. ~Meaningful(program)
  BY <1>1 DEF RejectAssertion, Meaningful, Current
<1> QED
  BY <1>2, ThrowIInv DEF RejectAssertion

\* The divisor query is pushed on the base frame.
LEMMA AskDivisorsIInv == IInv /\ AskDivisors => IInv'
<1> SUFFICES ASSUME IInv, AskDivisors PROVE IInv'
  OBVIOUS
<1> USE DEF AskDivisors
<1>1. TypeOK /\ Counted /\ pc \in InBatch
  BY DEF IInv, InBatch
<1>2. UNION Current.divisors \in SUBSET Worlds
  BY <1>1, QueriesTyped
<1>3. /\ stack' \in Seq(SUBSET Worlds) /\ Len(stack') = 2
      /\ stack'[1] = Feasible(program)
      /\ stack'[2] = UNION Current.divisors
  <2>1. Len(stack) = 1 /\ stack[1] = Feasible(program)
    BY DEF IInv, Balanced
  <2> QED
    BY <1>2, <2>1, PushQuery DEF IInv, TypeOK
<1>4. /\ Total' = Total /\ BatchLength' = BatchLength /\ Current' = Current
      /\ \A i : DefinedAt(i)' = DefinedAt(i) /\ CompilesAt(i)' = CompilesAt(i)
  BY DEF Total, BatchLength, Current, DefinedAt, CompilesAt
<1>5. TypeOK'
  BY <1>3 DEF IInv, TypeOK, Places
<1>6. Progress'
  BY DEF IInv, Progress, InBatch
<1>7. Balanced'
  BY <1>3, <1>4 DEF Balanced, Asked
<1>8. Counted'
  BY <1>4 DEF IInv, Counted, InBatch
<1>9. Checked'
  BY <1>4 DEF IInv, Checked
<1>10. OutcomesTrue'
  BY <1>4 DEF IInv, OutcomesTrue
<1>11. VerdictJustified' /\ ErrorJustified'
  BY DEF IInv, VerdictJustified, ErrorJustified, SolverFailed
<1> QED
  BY <1>5, <1>6, <1>7, <1>8, <1>9, <1>10, <1>11 DEF IInv

\* Only an unsatisfiable divisor query lets the call go on.
LEMMA DivisorsAnsweredIInv ==
    ASSUME NEW answer, IInv, DivisorsAnswered(answer)
    PROVE  IInv'
<1> USE DEF DivisorsAnswered
<1>1. TypeOK /\ Counted /\ pc \in InBatch
  BY DEF IInv, InBatch
<1>2. /\ Len(stack) = 2 /\ stack[1] = Feasible(program)
      /\ stack[2] = UNION Current.divisors
  BY DEF IInv, Balanced, Asked
<1>3. Models = Feasible(program) \cap UNION Current.divisors
  BY <1>1, <1>2, ModelsOfStack DEF TypeOK
<1>4. answer = "unsat" => Defined(program, Current)
  BY <1>3 DEF Answers, Defined
<1>5. offset + cursor \in Assertions(program) /\ Current = program.assertions[offset + cursor]
  BY <1>1, BatchTyped, ProgramTyped DEF TypeOK, Total
<1>6. answer = "sat" => ~Meaningful(program)
  BY <1>3, <1>5 DEF Answers, Defined, Meaningful
<1>7. CASE answer = "unsat" /\ DivisorsDone /\ Pop
  <2>1. /\ stack' \in Seq(SUBSET Worlds) /\ Len(stack') = 1
        /\ stack'[1] = Feasible(program)
    BY <1>1, <1>2, <1>7, PopQuery DEF TypeOK
  <2> QED
    BY <1>4, <1>7, <2>1, DivisorsDoneIInv
<1>8. CASE ~Current.compiles /\ Throw(answer)
  <2>1. ~Meaningful(program) /\ answer \in Answer
    BY <1>5, <1>8 DEF Meaningful, Answers, Answer
  <2> QED
    BY <1>8, <2>1, ThrowIInv
<1>9. CASE answer # "unsat" /\ Throw(answer)
  <2>1. answer \in Answer
    BY DEF Answers, Answer
  <2>2. answer # "sat" => SolverFailed'
    BY <1>9, <2>1 DEF Answer, Throw, SolverFailed
  <2> QED
    BY <1>6, <1>9, <2>1, <2>2, ThrowIInv
<1> QED
  BY <1>7, <1>8, <1>9

\* The batch query is pushed on the base frame.
LEMMA AskBatchIInv == IInv /\ AskBatch => IInv'
<1> SUFFICES ASSUME IInv, AskBatch PROVE IInv'
  OBVIOUS
<1> USE DEF AskBatch
<1>1. TypeOK /\ Counted /\ pc \in InBatch
  BY DEF IInv, InBatch
<1>2. SomeRefuted \in SUBSET Worlds
  BY <1>1, QueriesTyped
<1>3. /\ stack' \in Seq(SUBSET Worlds) /\ Len(stack') = 2
      /\ stack'[1] = Feasible(program) /\ stack'[2] = SomeRefuted
  <2>1. Len(stack) = 1 /\ stack[1] = Feasible(program)
    BY DEF IInv, Balanced
  <2> QED
    BY <1>2, <2>1, PushQuery DEF IInv, TypeOK
<1>4. /\ Total' = Total /\ BatchLength' = BatchLength
      /\ \A i : DefinedAt(i)' = DefinedAt(i) /\ CompilesAt(i)' = CompilesAt(i)
  BY DEF Total, BatchLength, DefinedAt, CompilesAt
<1>5. SomeRefuted' = SomeRefuted
  BY <1>4 DEF SomeRefuted
<1>6. TypeOK'
  BY <1>3 DEF IInv, TypeOK, Places
<1>7. Progress'
  BY DEF IInv, Progress, InBatch
<1>8. Balanced'
  BY <1>3, <1>5 DEF Balanced, Asked
<1>9. Counted'
  BY <1>4 DEF IInv, Counted, InBatch
<1>10. Checked' /\ OutcomesTrue'
  BY <1>4 DEF IInv, Checked, OutcomesTrue
<1>11. VerdictJustified' /\ ErrorJustified'
  BY DEF IInv, VerdictJustified, ErrorJustified, SolverFailed
<1> QED
  BY <1>6, <1>7, <1>8, <1>9, <1>10, <1>11 DEF IInv

\* An unsatisfiable batch query proves each assertion of the batch.
LEMMA BatchProved ==
    ASSUME IInv, pc = "AwaitBatch", Models = {}
    PROVE  \A j \in 1..BatchLength :
              Proved(program, program.assertions[offset + j])
<1>1. TypeOK /\ Counted /\ pc \in InBatch
  BY DEF IInv, InBatch
<1>2. Models = Feasible(program) \cap SomeRefuted
  BY <1>1, ModelsOfStack DEF IInv, Balanced, Asked, TypeOK
<1>3. Feasible(program) \in SUBSET Worlds
  BY <1>1, ProgramTyped DEF TypeOK
<1>4. SUFFICES ASSUME NEW j \in 1..BatchLength, NEW w \in Feasible(program)
               PROVE  w \in program.assertions[offset + j].holds
  BY DEF Proved
<1>5. w \notin Negation(program.assertions[offset + j])
  BY <1>2 DEF SomeRefuted
<1> QED
  BY <1>3, <1>5 DEF Negation

\* A proved batch appends one truthful outcome per assertion.
LEMMA BatchVerifiedIInv ==
    ASSUME IInv, BatchAnswered("unsat")
    PROVE  IInv'
<1>1. /\ pc = "AwaitBatch" /\ Models = {} /\ UNCHANGED program
      /\ outcomes' = outcomes \o BatchVerified /\ offset' = offset + BatchSize
      /\ pc' = "NextBatch" /\ Pop /\ UNCHANGED <<cursor, ended, result>>
  BY DEF BatchAnswered, Answers
<1>2. TypeOK /\ Counted /\ pc \in InBatch
  BY <1>1 DEF IInv, InBatch
<1>3. /\ Total \in Nat /\ Total' = Total /\ offset \in Nat
      /\ BatchLength \in Nat
      /\ offset + BatchLength = IF offset + BatchSize < Total
                                  THEN offset + BatchSize ELSE Total
      /\ \A j \in 1..BatchLength : offset + j \in 1..Total
  BY <1>1, <1>2, BatchTyped, BatchSizeAssumption DEF TypeOK, Total
<1>4. /\ stack' \in Seq(SUBSET Worlds) /\ Len(stack') = 1
      /\ stack'[1] = Feasible(program)
  <2>1. Len(stack) = 2 /\ stack[1] = Feasible(program)
    BY <1>1 DEF IInv, Balanced
  <2> QED
    BY <1>1, <1>2, <2>1, PopQuery DEF TypeOK
<1>5. /\ BatchVerified \in Seq(Outcome)
      /\ Len(BatchVerified) = BatchLength
      /\ \A j \in 1..BatchLength : BatchVerified[j] = AssertionVerified(offset + j)
  <2>1. \A j \in 1..BatchLength : AssertionVerified(offset + j) \in Outcome
    BY <1>3 DEF AssertionVerified, Outcome
  <2> QED
    BY <1>3, <2>1 DEF BatchVerified
<1>6. outcomes \in Seq(Outcome) /\ Len(outcomes) = offset
  BY <1>1 DEF IInv, TypeOK, Counted
<1>7. /\ outcomes' \in Seq(Outcome)
      /\ Len(outcomes') = offset + BatchLength
      /\ \A i \in 1..(offset + BatchLength) :
            outcomes'[i] = IF i <= offset THEN outcomes[i] ELSE BatchVerified[i - offset]
  BY <1>1, <1>5, <1>6, ConcatProperties
<1>8. TypeOK'
  BY <1>1, <1>3, <1>4, <1>7, BatchSizeAssumption DEF IInv, TypeOK, Places
<1>9. Progress'
  BY <1>1 DEF IInv, Progress, InBatch
<1>10. Balanced'
  BY <1>1, <1>4 DEF Balanced
<1>11. Counted'
  BY <1>1, <1>3, <1>7 DEF Counted, InBatch
<1>12. Checked'
  BY <1>1 DEF Checked
<1>13. OutcomesTrue'
  <2>1. SUFFICES ASSUME NEW i \in 1..(offset + BatchLength)
                 PROVE  /\ i \in 1..Total
                        /\ DefinedAt(i) /\ CompilesAt(i)
                        /\ Truthful(program, i, outcomes'[i])
    BY <1>1, <1>3, <1>7 DEF OutcomesTrue, DefinedAt, CompilesAt
  <2>2. CASE i <= offset
    BY <1>1, <1>3, <1>6, <1>7, <2>2 DEF IInv, OutcomesTrue
  <2>3. CASE ~(i <= offset)
    <3>1. i - offset \in 1..BatchLength /\ offset + (i - offset) = i
      BY <1>3, <2>3
    <3>2. outcomes'[i] = AssertionVerified(i)
      BY <1>5, <1>7, <2>3, <3>1
    <3>3. DefinedAt(i) /\ CompilesAt(i)
      BY <1>1, <3>1 DEF IInv, Checked
    <3>4. Proved(program, program.assertions[i])
      BY <1>1, <3>1, BatchProved
    <3> QED
      BY <1>3, <3>1, <3>2, <3>3, <3>4 DEF Truthful
  <2> QED
    BY <2>2, <2>3
<1>14. VerdictJustified' /\ ErrorJustified'
  BY <1>1 DEF IInv, VerdictJustified, ErrorJustified, SolverFailed
<1> QED
  BY <1>8, <1>9, <1>10, <1>11, <1>12, <1>13, <1>14 DEF IInv

\* Proved, undecided or dead: each answer keeps the invariant.
LEMMA BatchAnsweredIInv ==
    ASSUME NEW answer, IInv, BatchAnswered(answer)
    PROVE  IInv'
<1>1. CASE answer = "unsat"
  BY <1>1, BatchVerifiedIInv
<1>2. CASE answer \in {"sat", "unknown"}
  <2>1. /\ pc = "AwaitBatch" /\ cursor' = 1 /\ pc' = "Check" /\ Pop
        /\ UNCHANGED <<program, offset, outcomes, ended, result>>
    BY <1>2 DEF BatchAnswered
  <2>2. TypeOK /\ Counted /\ pc \in InBatch
    BY <2>1 DEF IInv, InBatch
  <2>3. /\ stack' \in Seq(SUBSET Worlds) /\ Len(stack') = 1
        /\ stack'[1] = Feasible(program)
    <3>1. Len(stack) = 2 /\ stack[1] = Feasible(program)
      BY <2>1 DEF IInv, Balanced
    <3> QED
      BY <2>1, <2>2, <3>1, PopQuery DEF TypeOK
  <2>4. /\ Total' = Total /\ BatchLength' = BatchLength /\ BatchLength \in 1..BatchSize
        /\ \A i : DefinedAt(i)' = DefinedAt(i) /\ CompilesAt(i)' = CompilesAt(i)
    BY <2>1, <2>2, BatchTyped DEF Total, BatchLength, DefinedAt, CompilesAt
  <2>5. TypeOK'
    BY <2>1, <2>3 DEF IInv, TypeOK, Places
  <2>6. Progress'
    BY <2>1 DEF IInv, Progress, InBatch
  <2>7. Balanced'
    BY <2>1, <2>3 DEF Balanced
  <2>8. Counted'
    <3>1. Len(outcomes') = offset' + cursor' - 1 /\ 1 \in 1..BatchLength
      BY <2>1, <2>4, BatchSizeAssumption DEF IInv, Counted, TypeOK
    <3> QED
      BY <2>1, <2>4, <3>1 DEF IInv, Counted, InBatch
  <2>9. Checked' /\ OutcomesTrue'
    BY <2>1, <2>4 DEF IInv, Checked, OutcomesTrue
  <2>10. VerdictJustified' /\ ErrorJustified'
    BY <2>1 DEF IInv, VerdictJustified, ErrorJustified, SolverFailed
  <2> QED
    BY <2>5, <2>6, <2>7, <2>8, <2>9, <2>10 DEF IInv
<1>3. CASE answer = "rejects"
  <2>1. Throw(answer) /\ UNCHANGED program /\ answer \in Answer
    BY <1>3 DEF BatchAnswered, Answer
  <2>2. SolverFailed'
    BY <1>3, <2>1 DEF Throw, SolverFailed
  <2> QED
    BY <2>1, <2>2, ThrowIInv
<1> QED
  BY <1>1, <1>2, <1>3 DEF BatchAnswered

\* The query for one assertion is pushed on the base frame.
LEMMA AskCheckIInv == IInv /\ AskCheck => IInv'
<1> SUFFICES ASSUME IInv, AskCheck PROVE IInv'
  OBVIOUS
<1> USE DEF AskCheck
<1>1. TypeOK /\ Counted /\ pc \in InBatch
  BY DEF IInv, InBatch
<1>2. Negation(Current) \in SUBSET Worlds
  BY <1>1, QueriesTyped
<1>3. /\ stack' \in Seq(SUBSET Worlds) /\ Len(stack') = 2
      /\ stack'[1] = Feasible(program) /\ stack'[2] = Negation(Current)
  <2>1. Len(stack) = 1 /\ stack[1] = Feasible(program)
    BY DEF IInv, Balanced
  <2> QED
    BY <1>2, <2>1, PushQuery DEF IInv, TypeOK
<1>4. /\ Total' = Total /\ BatchLength' = BatchLength /\ Current' = Current
      /\ \A i : DefinedAt(i)' = DefinedAt(i) /\ CompilesAt(i)' = CompilesAt(i)
  BY DEF Total, BatchLength, Current, DefinedAt, CompilesAt
<1>5. TypeOK'
  BY <1>3 DEF IInv, TypeOK, Places
<1>6. Progress'
  BY DEF IInv, Progress, InBatch
<1>7. Balanced'
  BY <1>3, <1>4 DEF Balanced, Asked
<1>8. Counted'
  BY <1>4 DEF IInv, Counted, InBatch
<1>9. Checked'
  BY <1>4 DEF IInv, Checked, CompilesAt, Current
<1>10. OutcomesTrue'
  BY <1>4 DEF IInv, OutcomesTrue
<1>11. VerdictJustified' /\ ErrorJustified'
  BY DEF IInv, VerdictJustified, ErrorJustified, SolverFailed
<1> QED
  BY <1>5, <1>6, <1>7, <1>8, <1>9, <1>10, <1>11 DEF IInv

\* Recording a truthful outcome moves the loop on and keeps the invariant.
LEMMA RecordIInv ==
    ASSUME IInv, pc = "AwaitCheck", NEW o \in Outcome, Record(o),
           UNCHANGED program, Truthful(program, offset + cursor, o)
    PROVE  IInv'
<1> USE DEF Record
<1>1. TypeOK /\ Counted /\ pc \in InBatch
  BY DEF IInv, InBatch
<1>2. /\ Total \in Nat /\ Total' = Total /\ offset \in Nat /\ offset < Total
      /\ BatchLength \in Nat /\ cursor \in 1..BatchLength
      /\ offset + BatchLength = IF offset + BatchSize < Total
                                  THEN offset + BatchSize ELSE Total
      /\ offset + cursor \in 1..Total
  BY <1>1, BatchTyped, BatchSizeAssumption DEF TypeOK, Total, Counted
<1>3. /\ stack' \in Seq(SUBSET Worlds) /\ Len(stack') = 1
      /\ stack'[1] = Feasible(program)
  <2>1. Len(stack) = 2 /\ stack[1] = Feasible(program)
    BY DEF IInv, Balanced
  <2> QED
    BY <1>1, <2>1, PopQuery DEF TypeOK
<1>4. outcomes \in Seq(Outcome) /\ Len(outcomes) = offset + cursor - 1
  BY <1>1 DEF TypeOK, Counted
<1>5. /\ outcomes' \in Seq(Outcome)
      /\ Len(outcomes') = offset + cursor
      /\ \A i \in 1..(offset + cursor - 1) : outcomes'[i] = outcomes[i]
      /\ outcomes'[offset + cursor] = o
  <2>1. /\ outcomes' \in Seq(Outcome)
        /\ Len(outcomes') = Len(outcomes) + 1
        /\ \A i \in 1..Len(outcomes) : outcomes'[i] = outcomes[i]
        /\ outcomes'[Len(outcomes) + 1] = o
    BY <1>4, AppendProperties
  <2> QED
    BY <1>2, <1>4, <2>1
<1>6. pc' \in {"Check", "NextBatch"}
  OBVIOUS
<1>7. TypeOK'
  BY <1>2, <1>3, <1>5, <1>6, BatchSizeAssumption DEF IInv, TypeOK, Places
<1>8. Progress'
  BY <1>6 DEF IInv, Progress, InBatch
<1>9. Balanced'
  BY <1>3, <1>6 DEF Balanced
<1>10. Counted' /\ Checked'
  <2>1. CASE cursor < BatchLength
    <3>1. /\ pc' = "Check" /\ offset' = offset /\ cursor' = cursor + 1
          /\ BatchLength' = BatchLength
      BY <2>1 DEF BatchLength, Total
    <3>2. Counted'
      BY <1>2, <1>5, <3>1 DEF Counted, InBatch
    <3>3. Checked'
      BY <3>1 DEF IInv, Checked, DefinedAt
    <3> QED
      BY <3>2, <3>3
  <2>2. CASE ~(cursor < BatchLength)
    <3>1. pc' = "NextBatch" /\ offset' = offset + BatchSize /\ cursor = BatchLength
      BY <1>2, <2>2
    <3>2. Len(outcomes') = IF offset' < Total THEN offset' ELSE Total
      BY <1>2, <1>5, <3>1
    <3> QED
      BY <1>2, <3>1, <3>2 DEF Counted, Checked, InBatch
  <2> QED
    BY <2>1, <2>2
<1>11. OutcomesTrue'
  <2>1. SUFFICES ASSUME NEW i \in 1..(offset + cursor)
                 PROVE  /\ i \in 1..Total
                        /\ DefinedAt(i) /\ CompilesAt(i)
                        /\ Truthful(program, i, outcomes'[i])
    BY <1>2, <1>5 DEF OutcomesTrue, DefinedAt, CompilesAt
  <2>2. CASE i = offset + cursor
    BY <1>2, <1>5, <2>2 DEF IInv, Checked
  <2>3. CASE i # offset + cursor
    BY <1>2, <1>4, <1>5, <2>3 DEF IInv, OutcomesTrue
  <2> QED
    BY <2>2, <2>3
<1>12. VerdictJustified' /\ ErrorJustified'
  BY DEF IInv, VerdictJustified, ErrorJustified, SolverFailed
<1> QED
  BY <1>7, <1>8, <1>9, <1>10, <1>11, <1>12 DEF IInv

\* Each answer about one assertion keeps the invariant.
LEMMA CheckAnsweredIInv ==
    ASSUME NEW answer, NEW decodes \in BOOLEAN, IInv, CheckAnswered(answer, decodes)
    PROVE  IInv'
<1> USE DEF CheckAnswered
<1>1. TypeOK /\ Counted /\ pc \in InBatch
  BY DEF IInv, InBatch
<1>2. Models = Feasible(program) \cap Negation(Current)
  BY <1>1, ModelsOfStack DEF IInv, Balanced, Asked, TypeOK
<1>3. /\ offset + cursor \in Nat /\ Current = program.assertions[offset + cursor]
      /\ Feasible(program) \in SUBSET Worlds
  BY <1>1, BatchTyped, ProgramTyped DEF TypeOK
<1>4. CASE answer = "unsat" /\ Record(AssertionVerified(offset + cursor))
  <2>1. Proved(program, Current)
    BY <1>2, <1>3, <1>4 DEF Answers, Proved, Negation
  <2>2. Truthful(program, offset + cursor, AssertionVerified(offset + cursor))
    BY <1>3, <2>1 DEF Truthful
  <2>3. AssertionVerified(offset + cursor) \in Outcome
    BY <1>3 DEF AssertionVerified, Outcome
  <2> QED
    BY <1>4, <2>2, <2>3, RecordIInv
<1>5. ASSUME NEW w \in Models, Record(AssertionFailed(offset + cursor, w))
      PROVE  IInv'
  <2>1. w \in Feasible(program) \ Current.holds /\ w \in Worlds
    BY <1>2, <1>3, <1>5 DEF Negation
  <2>2. Truthful(program, offset + cursor, AssertionFailed(offset + cursor, w))
    BY <1>3, <2>1 DEF Truthful
  <2>3. AssertionFailed(offset + cursor, w) \in Outcome
    BY <1>3, <2>1 DEF AssertionFailed, Outcome
  <2> QED
    BY <1>5, <2>2, <2>3, RecordIInv
<1>6. CASE answer \in {"sat", "unknown", "rejects"} /\ Throw(answer)
  <2>1. answer \in Answer /\ SolverFailed'
    BY <1>6 DEF Answer, Throw, SolverFailed
  <2> QED
    BY <1>6, <2>1, ThrowIInv
<1> QED
  BY <1>4, <1>5, <1>6

\* Nothing happens after the answer.
LEMMA SettledIInv == IInv /\ UNCHANGED vars => IInv'
<1> SUFFICES ASSUME IInv, UNCHANGED vars PROVE IInv'
  OBVIOUS
<1> USE DEF vars
<1>1. /\ Total' = Total /\ BatchLength' = BatchLength /\ Current' = Current
      /\ \A i : DefinedAt(i)' = DefinedAt(i) /\ CompilesAt(i)' = CompilesAt(i)
  BY DEF Total, BatchLength, Current, DefinedAt, CompilesAt
<1>2. SomeRefuted' = SomeRefuted /\ Asked' = Asked
  BY <1>1 DEF SomeRefuted, Asked
<1>3. TypeOK' /\ Progress' /\ VerdictJustified' /\ ErrorJustified'
  BY DEF IInv, TypeOK, Progress, VerdictJustified, ErrorJustified, SolverFailed
<1>4. Balanced'
  BY <1>2 DEF IInv, Balanced
<1>5. Counted' /\ Checked' /\ OutcomesTrue'
  BY <1>1 DEF IInv, Counted, Checked, OutcomesTrue
<1> QED
  BY <1>3, <1>4, <1>5 DEF IInv

\* Every step of solve() preserves the invariant.
LEMMA NextIInv == IInv /\ [Next]_vars => IInv'
<1> SUFFICES ASSUME IInv, [Next]_vars PROVE IInv'
  OBVIOUS
<1> USE DEF Next
<1>1. CASE RejectProgram \/ Begin \/ NextBatch \/ Finish
  BY <1>1, RejectProgramIInv, BeginIInv, NextBatchIInv, FinishIInv
<1>2. CASE SkipDivisors \/ RejectAssertion \/ AskDivisors
  BY <1>2, SkipDivisorsIInv, RejectAssertionIInv, AskDivisorsIInv
<1>3. CASE AskBatch \/ AskCheck
  BY <1>3, AskBatchIInv, AskCheckIInv
<1>4. ASSUME NEW answer \in Answer, AssumptionsAnswered(answer) PROVE IInv'
  BY <1>4, AssumptionsAnsweredIInv
<1>5. ASSUME NEW answer \in Answer, DivisorsAnswered(answer) PROVE IInv'
  BY <1>5, DivisorsAnsweredIInv
<1>6. ASSUME NEW answer \in Answer, BatchAnswered(answer) PROVE IInv'
  BY <1>6, BatchAnsweredIInv
<1>7. ASSUME NEW answer \in Answer, NEW decodes \in BOOLEAN,
             CheckAnswered(answer, decodes)
      PROVE  IInv'
  BY <1>7, CheckAnsweredIInv
<1>8. CASE Settled \/ UNCHANGED vars
  BY <1>8, SettledIInv DEF Settled
<1> QED
  BY <1>1, <1>2, <1>3, <1>4, <1>5, <1>6, <1>7, <1>8

-----------------------------------------------------------------------------
(* The theorems.                                                           *)

\* The invariant holds in every state of the call.
LEMMA AlwaysIInv == Spec => []IInv
BY InitIInv, NextIInv, PTL DEF Spec

\* Type correctness of solve(), whatever program it is given.
THEOREM SolveTypeCorrect == Spec => []TypeOK
<1>1. IInv => TypeOK
  BY DEF IInv
<1> QED
  BY <1>1, AlwaysIInv, PTL

\* No check is disturbed by constraints an earlier check left behind.
THEOREM SolveQueryExact == Spec => []QueryExact
<1>1. IInv => QueryExact
  <2> SUFFICES ASSUME IInv,
                      pc \in {"AwaitAssumptions", "AwaitDivisors", "AwaitBatch", "AwaitCheck"}
               PROVE  Models = Feasible(program) \cap Asked
    BY DEF QueryExact
  <2>1. stack \in Seq(SUBSET Worlds) /\ Feasible(program) \in SUBSET Worlds
    BY ProgramTyped DEF IInv, TypeOK
  <2>2. CASE pc = "AwaitAssumptions"
    <3>1. Models = Feasible(program) /\ Asked = Worlds
      BY <2>1, <2>2, ModelsOfStack DEF IInv, Balanced, Asked
    <3> QED
      BY <2>1, <3>1
  <2>3. CASE pc # "AwaitAssumptions"
    BY <2>1, <2>3, ModelsOfStack DEF IInv, Balanced
  <2> QED
    BY <2>2, <2>3
<1> QED
  BY <1>1, AlwaysIInv, PTL

\* The soundness contract: a verdict is never vacuous, undefined or wrong.
THEOREM SolveVerdictJustified == Spec => []VerdictJustified
<1>1. IInv => VerdictJustified
  BY DEF IInv
<1> QED
  BY <1>1, AlwaysIInv, PTL

(***************************************************************************)
(* A meaningful program loses its verdict only to a check that rejects, to *)
(* "unknown" about the assumptions, a divisor or a single assertion, or to *)
(* a model that cannot be decoded; never to "unknown" about a batch.       *)
(***************************************************************************)
THEOREM SolveErrorJustified == Spec => []ErrorJustified
<1>1. IInv => ErrorJustified
  BY DEF IInv
<1> QED
  BY <1>1, AlwaysIInv, PTL

\* A step that settles the call settles it from Pending.
LEMMA SettlesOnce ==
    ASSUME IInv, [Next]_vars
    PROVE  /\ UNCHANGED program
           /\ \/ UNCHANGED result
              \/ result = Pending /\ result' = Error
              \/ result = Pending /\ result'.kind \in {"Verified", "Failed"}
<1>1. pc # "Done" => result = Pending
  BY DEF IInv, Progress
<1>2. \A answer : Throw(answer) => result' = Error
  BY DEF Throw
<1>3. CASE RejectProgram \/ RejectAssertion
  BY <1>1, <1>2, <1>3 DEF RejectProgram, RejectAssertion
<1>4. CASE Begin \/ NextBatch \/ SkipDivisors \/ AskDivisors \/ AskBatch \/ AskCheck
  BY <1>4 DEF Begin, NextBatch, SkipDivisors, DivisorsDone, AskDivisors, AskBatch, AskCheck
<1>5. CASE Finish
  BY <1>1, <1>5 DEF Finish
<1>6. ASSUME NEW answer, AssumptionsAnswered(answer) \/ DivisorsAnswered(answer)
      PROVE  /\ UNCHANGED program
             /\ UNCHANGED result \/ (result = Pending /\ result' = Error)
  BY <1>1, <1>2, <1>6 DEF AssumptionsAnswered, DivisorsAnswered, DivisorsDone
<1>7. ASSUME NEW answer, BatchAnswered(answer)
      PROVE  /\ UNCHANGED program
             /\ UNCHANGED result \/ (result = Pending /\ result' = Error)
  BY <1>1, <1>2, <1>7 DEF BatchAnswered
<1>8. ASSUME NEW answer, NEW decodes \in BOOLEAN, CheckAnswered(answer, decodes)
      PROVE  /\ UNCHANGED program
             /\ UNCHANGED result \/ (result = Pending /\ result' = Error)
  BY <1>1, <1>2, <1>8 DEF CheckAnswered, Record
<1>9. CASE Settled \/ UNCHANGED vars
  BY <1>9 DEF Settled, vars
<1> QED
  BY <1>3, <1>4, <1>5, <1>6, <1>7, <1>8, <1>9 DEF Next

\* Verdict speaks of results in the same words.
LEMMA AbstractResults ==
    /\ Abstract!Pending = Pending
    /\ Abstract!Error = Error
    /\ Abstract!Outcome = Outcome
BY DEF Abstract!Pending, Pending, Abstract!Error, Error, Abstract!Outcome, Outcome

\* solve() implements Verdict: every step decides once, justified, or stutters.
THEOREM SolveImplementsVerdict == Spec => ImplementsVerdict
<1>1. Init => Abstract!Init
  BY AbstractResults DEF Init, Abstract!Init
<1>2. IInv /\ IInv' /\ [Next]_vars => [Abstract!Decide]_(Abstract!vars)
  <2> SUFFICES ASSUME IInv, IInv', [Next]_vars
               PROVE  Abstract!Decide \/ UNCHANGED Abstract!vars
    OBVIOUS
  <2>1. CASE UNCHANGED result
    BY <2>1, SettlesOnce DEF Abstract!vars
  <2>2. CASE result = Pending /\ result' = Error
    BY <2>2, SettlesOnce, AbstractResults DEF Abstract!Decide
  <2>3. CASE result = Pending /\ result'.kind \in {"Verified", "Failed"}
    <3>1. UNCHANGED program
      BY SettlesOnce
    <3>2. result' \in [kind: {"Verified", "Failed"}, assertions: Seq(Abstract!Outcome)]
      BY <2>3, AbstractResults DEF IInv, TypeOK, Result
    <3>3. Abstract!Justified(program, result')
      BY <2>3, <3>1 DEF IInv, VerdictJustified
    <3> QED
      BY <2>3, <3>1, <3>2, <3>3, AbstractResults DEF Abstract!Decide
  <2> QED
    BY <2>1, <2>2, <2>3, SettlesOnce
<1> QED
  BY <1>1, <1>2, AlwaysIInv, PTL DEF Spec, ImplementsVerdict, Abstract!Spec
=============================================================================
