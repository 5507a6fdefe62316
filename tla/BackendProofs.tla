--------------------------- MODULE BackendProofs ---------------------------
(***************************************************************************)
(* Proofs about two parts of packages/z3.  Backend, for any number of      *)
(* callers and owners: jobs are served one at a time in order, the worker  *)
(* threads outlive them, and the chain implements SerialQueue.  Divisors,  *)
(* for expressions of any size: what the collectors find.                  *)
(***************************************************************************)
EXTENDS Backend, Divisors, SequenceTheorems, FiniteSetTheorems, WellFoundedInduction, TLAPS

-----------------------------------------------------------------------------
(* The inductive invariant.                                                *)

Chained == {"chained", "solving"} \cup Settled

\* The history lists every chained job once.
Listed ==
    /\ \A n \in 1..Len(order) : job[order[n]] \in Chained
    /\ \A j \in Jobs : job[j] \in Chained => \E n \in 1..Len(order) : order[n] = j
    /\ \A m, n \in 1..Len(order) : order[m] = order[n] => m = n

\* Every job follows the one chained before it, and tail is the last of all.
Linked ==
    /\ \A n \in 1..Len(order) :
          after[order[n]] = IF n = 1 THEN None ELSE order[n - 1]
    /\ tail = IF Len(order) = 0 THEN None ELSE order[Len(order)]

\* A close that has run waits for the last job there will ever be, and gets to
\* the threads when that one has settled.
CloseAwaitsAll ==
    /\ \A c \in Closers : closer[c] # "idle" => closed
    /\ \A c \in Closers : closer[c] = "waiting" => until[c] = tail
    /\ \A c \in Closers : closer[c] = "killing" => Resolved(tail)
    /\ threads = "down" => closed

BInv ==
    /\ TypeOK
    /\ Listed
    /\ Linked
    /\ Serialized
    /\ CloseAwaitsAll
    /\ ThreadsOutliveJobs

-----------------------------------------------------------------------------

\* The invariant holds of a backend just made.
LEMMA InitBInv == Init => BInv
<1> SUFFICES ASSUME Init PROVE BInv
  OBVIOUS
<1> USE DEF Init
<1>1. TypeOK
  <2>1. << >> \in Seq(Jobs)
    OBVIOUS
  <2> QED
    BY <2>1 DEF TypeOK
<1>2. Len(order) = 0 /\ 1..Len(order) = {}
  OBVIOUS
<1>3. Listed /\ Linked /\ Serialized /\ ThreadsOutliveJobs
  BY <1>2 DEF Listed, Linked, Serialized, ThreadsOutliveJobs, Chained, Settled
<1>4. CloseAwaitsAll
  BY DEF CloseAwaitsAll
<1> QED
  BY <1>1, <1>3, <1>4 DEF BInv

\* If every job up to the last has settled, so has every chained one.
LEMMA TailResolvedAll ==
    ASSUME BInv, Resolved(tail)
    PROVE  \A n \in 1..Len(order) : job[order[n]] \in Settled
<1> SUFFICES ASSUME NEW n \in 1..Len(order)
             PROVE  job[order[n]] \in Settled
  OBVIOUS
<1>1. Len(order) \in 1..Len(order) /\ order \in Seq(Jobs)
  BY DEF BInv, TypeOK
<1>2. tail = order[Len(order)] /\ tail \in Jobs
  BY <1>1 DEF BInv, Linked
<1>3. job[order[Len(order)]] \in Settled
  BY <1>2 DEF Resolved
<1>4. CASE n = Len(order)
  BY <1>3, <1>4
<1>5. CASE n # Len(order)
  <2>1. Started(order[Len(order)]) /\ n \in 1..(Len(order) - 1)
    BY <1>1, <1>3, <1>5 DEF Started
  <2> QED
    BY <1>1, <2>1 DEF BInv, Serialized
<1> QED
  BY <1>4, <1>5

\* A tail that has resolved stays so if no settled job changes.
LEMMA SettledStays ==
    ASSUME UNCHANGED tail,
           \A k \in Jobs : job[k] \in Settled => job'[k] \in Settled,
           Resolved(tail)
    PROVE  Resolved(tail)'
BY DEF Resolved, Settled

\* verify() only builds an Effect: the chain is as it was.
LEMMA VerifyBInv == ASSUME BInv, NEW j \in Jobs, Verify(j) PROVE BInv'
<1> USE DEF Verify
<1>1. job[j] \notin Chained /\ job'[j] \notin Chained
      /\ \A k \in Jobs : k # j => job'[k] = job[k]
  BY DEF BInv, TypeOK, Chained, Settled
<1>2. TypeOK'
  BY DEF BInv, TypeOK
<1>3. \A n \in 1..Len(order) : order[n] \in Jobs /\ order[n] # j
  BY <1>1 DEF BInv, TypeOK, Listed
<1>4. Listed'
  BY <1>1, <1>3 DEF BInv, Listed
<1>5. Linked' /\ CloseAwaitsAll'
  BY <1>1, SettledStays DEF BInv, Linked, CloseAwaitsAll, Chained
<1>6. Serialized' /\ ThreadsOutliveJobs'
  BY <1>1, <1>3 DEF BInv, Serialized, ThreadsOutliveJobs, Started
<1> QED
  BY <1>2, <1>4, <1>5, <1>6 DEF BInv

\* A job joins at the end of the chain, behind the former tail.
LEMMA RunExclusiveBInv == ASSUME BInv, NEW j \in Jobs, RunExclusive(j) PROVE BInv'
<1> USE DEF RunExclusive
<1>1. job[j] = "built" /\ \A k \in Jobs : k # j => job'[k] = job[k]
  BY DEF BInv, TypeOK
<1>2. /\ order \in Seq(Jobs) /\ Len(order) \in Nat
      /\ \A n \in 1..Len(order) : order[n] \in Jobs /\ order[n] # j
  BY <1>1 DEF BInv, TypeOK, Listed, Chained, Settled
<1>3. CASE closed
  <2>1. job'[j] = "refused" /\ UNCHANGED <<closed, tail, after, order, closer, until, threads>>
    BY <1>3 DEF BInv, TypeOK
  <2>2. TypeOK'
    BY <1>3 DEF BInv, TypeOK
  <2>3. Listed'
    BY <1>1, <1>2, <2>1 DEF BInv, Listed, Chained, Settled
  <2>4. Linked' /\ CloseAwaitsAll'
    BY <1>1, <2>1, SettledStays DEF BInv, Linked, CloseAwaitsAll, Settled
  <2>5. Serialized' /\ ThreadsOutliveJobs'
    BY <1>1, <1>2, <2>1 DEF BInv, Serialized, ThreadsOutliveJobs, Started
  <2> QED
    BY <2>2, <2>3, <2>4, <2>5 DEF BInv
<1>4. CASE ~closed
  <2>1. /\ job'[j] = "chained" /\ after'[j] = tail /\ tail' = j
        /\ \A k \in Jobs : k # j => after'[k] = after[k]
        /\ order' = Append(order, j)
        /\ UNCHANGED <<closed, closer, until, threads>>
    BY <1>4 DEF BInv, TypeOK
  <2>2. /\ order' \in Seq(Jobs) /\ Len(order') = Len(order) + 1
        /\ \A n \in 1..Len(order) : order'[n] = order[n]
        /\ order'[Len(order) + 1] = j
    BY <1>2, <2>1, AppendProperties
  <2>3. TypeOK'
    <3>1. after' \in [Jobs -> Jobs \cup {None}] /\ tail' \in Jobs \cup {None}
      BY <1>4 DEF BInv, TypeOK
    <3>2. job' \in [Jobs -> {"idle", "built", "refused", "chained", "solving"} \cup Settled]
      BY <1>4 DEF BInv, TypeOK
    <3> QED
      BY <2>1, <2>2, <3>1, <3>2 DEF BInv, TypeOK
  <2>4. Listed'
    <3>1. \A n \in 1..Len(order') : job'[order'[n]] \in Chained
      BY <1>1, <1>2, <2>1, <2>2 DEF BInv, Listed, Chained
    <3>2. ASSUME NEW k \in Jobs, job'[k] \in Chained
          PROVE  \E n \in 1..Len(order') : order'[n] = k
      <4>1. CASE k = j
        BY <1>2, <2>2, <4>1
      <4>2. CASE k # j
        <5>1. PICK n \in 1..Len(order) : order[n] = k
          BY <1>1, <3>2, <4>2 DEF BInv, Listed
        <5> QED
          BY <1>2, <2>2, <5>1
      <4> QED
        BY <4>1, <4>2
    <3>3. \A m, n \in 1..Len(order') : order'[m] = order'[n] => m = n
      BY <1>2, <2>2 DEF BInv, Listed
    <3> QED
      BY <3>1, <3>2, <3>3 DEF Listed
  <2>5. Linked'
    <3>1. tail' = order'[Len(order')] /\ Len(order') # 0
      BY <1>2, <2>1, <2>2
    <3>2. ASSUME NEW n \in 1..Len(order')
          PROVE  after'[order'[n]] = IF n = 1 THEN None ELSE order'[n - 1]
      <4>1. CASE n \in 1..Len(order)
        BY <1>2, <2>1, <2>2, <4>1 DEF BInv, Linked
      <4>2. CASE n = Len(order) + 1
        BY <1>2, <2>1, <2>2, <4>2 DEF BInv, Linked
      <4> QED
        BY <1>2, <2>2, <4>1, <4>2
    <3> QED
      BY <3>1, <3>2 DEF Linked
  <2>6. Serialized'
    <3> SUFFICES ASSUME NEW n \in 1..Len(order'), Started(order[n])',
                        NEW m \in 1..(n - 1)
                 PROVE  job'[order'[m]] \in Settled
      BY DEF Serialized
    <3>1. n # Len(order) + 1
      BY <2>1, <2>2 DEF Started, Settled
    <3>2. n \in 1..Len(order) /\ m \in 1..Len(order)
      BY <1>2, <2>2, <3>1
    <3>3. Started(order[n])
      BY <1>1, <1>2, <2>2, <3>2 DEF Started
    <3>4. job[order[m]] \in Settled
      BY <3>2, <3>3 DEF BInv, Serialized
    <3> QED
      BY <1>1, <1>2, <2>2, <3>2, <3>4
  <2>7. CloseAwaitsAll' /\ ThreadsOutliveJobs'
    BY <1>4, <2>1 DEF BInv, CloseAwaitsAll, ThreadsOutliveJobs, TypeOK
  <2> QED
    BY <2>3, <2>4, <2>5, <2>6, <2>7 DEF BInv
<1> QED
  BY <1>3, <1>4

\* A job starts when all the jobs before it have settled.
LEMMA StartSolveBInv == ASSUME BInv, NEW j \in Jobs, StartSolve(j) PROVE BInv'
<1> USE DEF StartSolve
<1>1. job[j] = "chained" /\ job'[j] = "solving"
      /\ \A k \in Jobs : k # j => job'[k] = job[k]
  BY DEF BInv, TypeOK
<1>2. order \in Seq(Jobs) /\ \A n \in 1..Len(order) : order[n] \in Jobs
  BY DEF BInv, TypeOK
<1>3. TypeOK'
  BY DEF BInv, TypeOK
<1>4. Listed'
  BY <1>1, <1>2 DEF BInv, Listed, Chained
<1>5. Linked' /\ CloseAwaitsAll'
  BY <1>1, SettledStays DEF BInv, Linked, CloseAwaitsAll, Settled
<1>6. Serialized'
  <2> SUFFICES ASSUME NEW n \in 1..Len(order), Started(order[n])',
                      NEW m \in 1..(n - 1)
               PROVE  job'[order[m]] \in Settled
    BY DEF Serialized
  <2>1. m \in 1..Len(order)
    BY <1>2
  <2>2. job[order[m]] \in Settled
    <3>1. CASE order[n] = j
      <4>1. n # 1 /\ n - 1 \in 1..Len(order) /\ order[n - 1] \in Jobs
        BY <1>2
      <4>2. after[j] = order[n - 1]
        BY <3>1, <4>1 DEF BInv, Linked
      <4>3. job[order[n - 1]] \in Settled
        BY <4>1, <4>2 DEF Resolved
      <4>4. CASE m = n - 1
        BY <4>3, <4>4
      <4>5. CASE m # n - 1
        <5>1. Started(order[n - 1]) /\ m \in 1..(n - 1 - 1)
          BY <4>1, <4>3, <4>5 DEF Started
        <5> QED
          BY <4>1, <5>1 DEF BInv, Serialized
      <4> QED
        BY <4>4, <4>5
    <3>2. CASE order[n] # j
      BY <1>1, <1>2, <3>2 DEF BInv, Serialized, Started
    <3> QED
      BY <3>1, <3>2
  <2> QED
    BY <1>1, <1>2, <2>1, <2>2 DEF Settled
<1>7. ThreadsOutliveJobs'
  <2>1. threads # "down"
    BY <1>1 DEF BInv, Listed, ThreadsOutliveJobs, Chained, Settled
  <2> QED
    BY <2>1 DEF ThreadsOutliveJobs
<1> QED
  BY <1>3, <1>4, <1>5, <1>6, <1>7 DEF BInv

\* A job that ends, either way, leaves its place in the chain.
LEMMA EndSolveBInv == ASSUME BInv, NEW j \in Jobs, EndSolve(j) PROVE BInv'
<1> USE DEF EndSolve
<1>1. job[j] = "solving" /\ job'[j] \in Settled
      /\ \A k \in Jobs : k # j => job'[k] = job[k]
  BY DEF BInv, TypeOK
<1>2. order \in Seq(Jobs) /\ \A n \in 1..Len(order) : order[n] \in Jobs
  BY DEF BInv, TypeOK
<1>3. TypeOK'
  BY DEF BInv, TypeOK, Settled
<1>4. Listed'
  BY <1>1, <1>2 DEF BInv, Listed, Chained
<1>5. Linked' /\ CloseAwaitsAll'
  BY <1>1, SettledStays DEF BInv, Linked, CloseAwaitsAll
<1>6. \A k \in Jobs : Started(k)' = Started(k)
  BY <1>1 DEF Started
<1>7. \A k \in Jobs : job[k] \in Settled => job'[k] \in Settled
  BY <1>1
<1>8. Serialized'
  BY <1>2, <1>6, <1>7 DEF BInv, Serialized
<1>9. ThreadsOutliveJobs'
  BY <1>2, <1>7 DEF BInv, ThreadsOutliveJobs
<1> QED
  BY <1>3, <1>4, <1>5, <1>8, <1>9 DEF BInv

\* close() sets the flag and touches no job.
LEMMA CloseBInv == ASSUME BInv, NEW c \in Closers, Close(c) PROVE BInv'
<1> USE DEF Close
<1>1. /\ closed' = TRUE
      /\ \A d \in Closers : closer'[d] \in {"waiting", "killing"} => closer'[d] = closer[d]
  BY DEF BInv, TypeOK
<1>2. TypeOK'
  BY DEF BInv, TypeOK
<1>3. Listed' /\ Linked' /\ Serialized' /\ ThreadsOutliveJobs'
  BY DEF BInv, Listed, Linked, Serialized, ThreadsOutliveJobs, Started
<1>4. CloseAwaitsAll'
  BY <1>1, SettledStays DEF BInv, CloseAwaitsAll
<1> QED
  BY <1>2, <1>3, <1>4 DEF BInv

\* With the flag set, the tail a close awaits is the last one.
LEMMA AwaitTailBInv == ASSUME BInv, NEW c \in Closers, AwaitTail(c) PROVE BInv'
<1> USE DEF AwaitTail
<1>1. closed
  BY DEF BInv, CloseAwaitsAll
<1>2. TypeOK'
  BY DEF BInv, TypeOK
<1>3. Listed' /\ Linked' /\ Serialized' /\ ThreadsOutliveJobs'
  BY DEF BInv, Listed, Linked, Serialized, ThreadsOutliveJobs, Started
<1>4. CloseAwaitsAll'
  BY <1>1, SettledStays DEF BInv, CloseAwaitsAll, TypeOK
<1> QED
  BY <1>2, <1>3, <1>4 DEF BInv

\* A close gets to the threads when the tail it awaits, the last, has resolved.
LEMMA TailAwaitedBInv == ASSUME BInv, NEW c \in Closers, TailAwaited(c) PROVE BInv'
<1> USE DEF TailAwaited
<1>1. closed /\ Resolved(tail)
  BY DEF BInv, CloseAwaitsAll
<1>2. TypeOK'
  BY DEF BInv, TypeOK
<1>3. Listed' /\ Linked' /\ Serialized' /\ ThreadsOutliveJobs'
  BY DEF BInv, Listed, Linked, Serialized, ThreadsOutliveJobs, Started
<1>4. CloseAwaitsAll'
  BY <1>1, SettledStays DEF BInv, CloseAwaitsAll, TypeOK
<1> QED
  BY <1>2, <1>3, <1>4 DEF BInv

\* The threads stop only when the last job has settled.
LEMMA KillThreadsBInv == ASSUME BInv, NEW c \in Closers, KillThreads(c) PROVE BInv'
<1> USE DEF KillThreads
<1>1. closed /\ Resolved(tail)
  BY DEF BInv, CloseAwaitsAll
<1>2. \A n \in 1..Len(order) : job[order[n]] \in Settled
  BY <1>1, TailResolvedAll
<1>3. TypeOK'
  BY DEF BInv, TypeOK
<1>4. Listed' /\ Linked' /\ Serialized'
  BY DEF BInv, Listed, Linked, Serialized, Started
<1>5. ThreadsOutliveJobs'
  BY <1>2 DEF ThreadsOutliveJobs
<1>6. CloseAwaitsAll'
  BY <1>1, SettledStays DEF BInv, CloseAwaitsAll, TypeOK
<1> QED
  BY <1>3, <1>4, <1>5, <1>6 DEF BInv

\* Every step of the backend preserves the invariant.
LEMMA NextBInv == BInv /\ [Next]_vars => BInv'
<1> SUFFICES ASSUME BInv, [Next]_vars PROVE BInv'
  OBVIOUS
<1>1. ASSUME NEW j \in Jobs, Verify(j) \/ RunExclusive(j) \/ StartSolve(j) \/ EndSolve(j)
      PROVE  BInv'
  BY <1>1, VerifyBInv, RunExclusiveBInv, StartSolveBInv, EndSolveBInv
<1>2. ASSUME NEW c \in Closers, Close(c) \/ AwaitTail(c) \/ TailAwaited(c) \/ KillThreads(c)
      PROVE  BInv'
  BY <1>2, CloseBInv, AwaitTailBInv, TailAwaitedBInv, KillThreadsBInv
<1>3. CASE UNCHANGED vars
  BY <1>3 DEF vars, BInv, TypeOK, Listed, Linked, Serialized, CloseAwaitsAll,
              ThreadsOutliveJobs, Started, Resolved, Settled
<1> QED
  BY <1>1, <1>2, <1>3 DEF Next

\* The invariant holds in every state of the backend.
LEMMA AlwaysBInv == Spec => []BInv
BY InitBInv, NextBInv, PTL DEF Spec

-----------------------------------------------------------------------------
(* The theorems.                                                           *)

\* Type correctness of the backend.
THEOREM BackendTypeCorrect == Spec => []TypeOK
<1>1. BInv => TypeOK
  BY DEF BInv
<1> QED
  BY <1>1, AlwaysBInv, PTL

\* The promise chain runs one job at a time, in order, whatever jobs throw.
THEOREM BackendSerialized == Spec => []Serialized
<1>1. BInv => Serialized
  BY DEF BInv
<1> QED
  BY <1>1, AlwaysBInv, PTL

\* killThreads never takes the threads from a job that was admitted.
THEOREM BackendThreadsOutliveJobs == Spec => []ThreadsOutliveJobs
<1>1. BInv => ThreadsOutliveJobs
  BY DEF BInv
<1> QED
  BY <1>1, AlwaysBInv, PTL

(***************************************************************************)
(* A closed backend admits no job, not even one whose Effect was built     *)
(* before: only runExclusive extends the chain, and it tests the flag.     *)
(***************************************************************************)
THEOREM BackendClosedAdmitsNothing == Spec => ClosedAdmitsNothing
<1>1. [Next]_vars => [closed => order' = order]_vars
  <2> SUFFICES ASSUME Next, closed PROVE order' = order
    OBVIOUS
  <2>1. ASSUME NEW j \in Jobs, Verify(j) \/ RunExclusive(j) \/ StartSolve(j) \/ EndSolve(j)
        PROVE  order' = order
    BY <2>1 DEF Verify, RunExclusive, StartSolve, EndSolve
  <2>2. ASSUME NEW c \in Closers, Close(c) \/ AwaitTail(c) \/ TailAwaited(c) \/ KillThreads(c)
        PROVE  order' = order
    BY <2>2 DEF Close, AwaitTail, TailAwaited, KillThreads
  <2> QED
    BY <2>1, <2>2 DEF Next
<1> QED
  BY <1>1, PTL DEF Spec, ClosedAdmitsNothing

-----------------------------------------------------------------------------
(* The refinement of SerialQueue.                                          *)

\* A set of natural numbers that is not empty has a least one.
LEMMA LeastNat ==
    ASSUME NEW T \in SUBSET Nat, T # {}
    PROVE  \E m \in T : \A n \in T : m <= n
<1> DEFINE R == OpToRel(<, Nat)
<1>1. IsWellFoundedOn(R, Nat)
  BY NatLessThanWellFounded
<1>2. \A a, b \in Nat : <<a, b>> \in R <=> a < b
  BY DEF OpToRel
<1> HIDE DEF R
<1>3. PICK m \in T : \A n \in T : ~(<<n, m>> \in R)
  BY <1>1, WFMin
<1>4. m \in Nat /\ \A n \in T : n \in Nat
  OBVIOUS
<1>5. ASSUME NEW n \in T PROVE m <= n
  <2>1. ~(n < m)
    BY <1>2, <1>3, <1>4, Zenon
  <2> QED
    BY <1>4, <2>1
<1> QED
  BY <1>5

(***************************************************************************)
(* The started jobs are the first Begun ones of the chain: jobs start in   *)
(* order, so there is one place where the waiting ones begin.              *)
(***************************************************************************)
BegunPrefix ==
    /\ Begun \in 0..Len(order)
    /\ \A n \in 1..Len(order) : Started(order[n]) <=> n <= Begun

LEMMA BegunIsPrefix == BInv => BegunPrefix
<1> SUFFICES ASSUME BInv PROVE BegunPrefix
  OBVIOUS
<1>1. Len(order) \in Nat
  BY DEF BInv, TypeOK
<1> DEFINE T == {m \in Nat : m = Len(order) \/ (m < Len(order) /\ ~Started(order[m + 1]))}
<1>2. PICK k \in T : \A m \in T : k <= m
  <2>1. T \in SUBSET Nat /\ Len(order) \in T
    BY <1>1
  <2> HIDE DEF T
  <2> QED
    BY <2>1, LeastNat
<1>3. k \in Nat /\ k <= Len(order)
  BY <1>1, <1>2
<1>4. ASSUME NEW n \in 1..Len(order) PROVE Started(order[n]) <=> n <= k
  <2>1. CASE n <= k
    <3>1. n - 1 \in Nat /\ n - 1 < k /\ n - 1 < Len(order) /\ (n - 1) + 1 = n
      BY <1>1, <1>3, <2>1
    <3>2. n - 1 \notin T
      BY <1>2, <1>3, <3>1
    <3> QED
      BY <2>1, <3>1, <3>2
  <2>2. CASE n > k
    <3>1. k + 1 \in 1..Len(order) /\ ~Started(order[k + 1])
      BY <1>1, <1>2, <1>3, <2>2
    <3>2. CASE n = k + 1
      BY <1>3, <2>2, <3>1, <3>2
    <3>3. CASE n # k + 1
      <4>1. k + 1 \in 1..(n - 1)
        BY <1>1, <1>3, <2>2, <3>3
      <4>2. Started(order[n]) => job[order[k + 1]] \in Settled
        BY <4>1 DEF BInv, Serialized
      <4> QED
        BY <1>3, <2>2, <3>1, <4>2 DEF Started
    <3> QED
      BY <3>2, <3>3
  <2> QED
    BY <1>1, <1>3, <2>1, <2>2
<1>5. {n \in 1..Len(order) : Started(order[n])} = 1..k
  BY <1>1, <1>3, <1>4
<1>6. Begun = k
  <2>1. Cardinality(1..k) = k
    BY <1>3, FS_Interval
  <2> QED
    BY <1>5, <2>1 DEF Begun
<1> QED
  BY <1>1, <1>3, <1>4, <1>6 DEF BegunPrefix

\* At most one job is being solved, and it is the one Serving names.
ServingUnique ==
    /\ \A i, j \in Jobs : job[i] = "solving" /\ job[j] = "solving" => i = j
    /\ \A j \in Jobs : job[j] = "solving" => Serving = j
    /\ (\A j \in Jobs : job[j] # "solving") => Serving = None

LEMMA ServingIsUnique == BInv => ServingUnique
<1> SUFFICES ASSUME BInv
             PROVE  \A i, j \in Jobs : job[i] = "solving" /\ job[j] = "solving" => i = j
  BY DEF Serving, ServingUnique
<1> SUFFICES ASSUME NEW i \in Jobs, NEW j \in Jobs,
                    job[i] = "solving", job[j] = "solving", i # j
             PROVE  FALSE
  OBVIOUS
<1>1. PICK m \in 1..Len(order) : order[m] = i
  BY DEF BInv, Listed, Chained
<1>2. PICK n \in 1..Len(order) : order[n] = j
  BY DEF BInv, Listed, Chained
<1>3. Len(order) \in Nat /\ m # n
  BY <1>1, <1>2 DEF BInv, TypeOK
<1>4. CASE m < n
  BY <1>1, <1>2, <1>3, <1>4 DEF BInv, Serialized, Started, Settled
<1>5. CASE n < m
  BY <1>1, <1>2, <1>3, <1>5 DEF BInv, Serialized, Started, Settled
<1> QED
  BY <1>3, <1>4, <1>5

\* The waiting calls, place by place.
WaitingPlaces ==
    /\ Waiting \in Seq(Jobs)
    /\ Len(Waiting) = Len(order) - Begun
    /\ \A i \in 1..(Len(order) - Begun) : Waiting[i] = order[Begun + i]

LEMMA WaitingHasPlaces == BInv => WaitingPlaces
<1> SUFFICES ASSUME BInv PROVE WaitingPlaces
  OBVIOUS
<1>1. Begun \in 0..Len(order) /\ Len(order) \in Nat /\ order \in Seq(Jobs)
  BY BegunIsPrefix DEF BegunPrefix, BInv, TypeOK
<1>2. \A i \in (Begun + 1)..Len(order) : order[i] \in Jobs
  BY <1>1
<1> DEFINE b == Begun
<1> HIDE DEF b
<1>3. b \in 0..Len(order) /\ b + 1 \in Int /\ Len(order) \in Int
      /\ \A i \in (b + 1)..Len(order) : order[i] \in Jobs
  BY <1>1, <1>2 DEF b
<1>4. /\ SubSeq(order, b + 1, Len(order)) \in Seq(Jobs)
      /\ Len(SubSeq(order, b + 1, Len(order)))
           = IF b + 1 <= Len(order) THEN Len(order) - (b + 1) + 1 ELSE 0
      /\ \A i \in 1..(Len(order) - (b + 1) + 1) :
           SubSeq(order, b + 1, Len(order))[i] = order[(b + 1) + i - 1]
  BY <1>3, SubSeqProperties
<1> QED
  BY <1>1, <1>3, <1>4 DEF WaitingPlaces, Waiting, b

\* What the mapping to the queue is, in every state of the backend.
QueueView == BegunPrefix /\ ServingUnique /\ WaitingPlaces

LEMMA BInvQueueView == BInv => QueueView
BY BegunIsPrefix, ServingIsUnique, WaitingHasPlaces DEF QueueView

\* Two states whose chain and jobs' progress agree have the same queue.
LEMMA SameQueue ==
    ASSUME BInv, BInv', QueueView, QueueView',
           UNCHANGED <<order, threads>>,
           \A j \in Jobs : /\ job'[j] = "solving" <=> job[j] = "solving"
                           /\ job'[j] \in Settled <=> job[j] \in Settled
    PROVE  UNCHANGED Queue!vars
<1>1. \A n \in 1..Len(order) : order[n] \in Jobs
  BY DEF BInv, TypeOK
<1>2. Waiting' = Waiting
  <2>1. {n \in 1..Len(order) : Started(order[n])'} = {n \in 1..Len(order) : Started(order[n])}
    BY <1>1 DEF Started
  <2> QED
    BY <2>1 DEF Waiting, Begun
<1>3. Serving' = Serving
  BY DEF QueueView, ServingUnique
<1>4. Served' = Served
  BY DEF Served
<1> QED
  BY <1>2, <1>3, <1>4 DEF Queue!vars

\* A job that joins the chain is admitted to the queue.
LEMMA RunExclusiveAdmits ==
    ASSUME BInv, BInv', QueueView, QueueView', NEW j \in Jobs, RunExclusive(j)
    PROVE  [Queue!Next]_(Queue!vars)
<1> USE DEF RunExclusive
<1>1. job[j] = "built" /\ \A k \in Jobs : k # j => job'[k] = job[k]
  BY DEF BInv, TypeOK
<1>2. CASE closed
  <2>1. job'[j] = "refused" /\ UNCHANGED <<order, threads>>
    BY <1>2 DEF BInv, TypeOK
  <2>2. UNCHANGED Queue!vars
    BY <1>1, <2>1, SameQueue DEF Settled
  <2> QED
    BY <2>2
<1>3. CASE ~closed
  <2>1. job'[j] = "chained" /\ order' = Append(order, j) /\ threads' = threads
    BY <1>3 DEF BInv, TypeOK
  <2>2. /\ order \in Seq(Jobs) /\ Len(order) \in Nat
        /\ Len(order') = Len(order) + 1
        /\ \A n \in 1..Len(order) : order'[n] = order[n] /\ order[n] \in Jobs /\ order[n] # j
        /\ order'[Len(order) + 1] = j
    BY <1>1, <2>1, AppendProperties DEF BInv, TypeOK, Listed, Chained, Settled
  <2>3. /\ \A n \in 1..Len(order) : Started(order[n])' <=> Started(order[n])
        /\ ~(job'[j] \in {"solving"} \cup Settled)
    BY <1>1, <2>1, <2>2 DEF Started, Settled
  <2>4. Begun' = Begun
    <3>1. /\ Begun \in 0..Len(order)
          /\ \A n \in 1..Len(order) : Started(order[n]) <=> n <= Begun
      BY DEF QueueView, BegunPrefix
    <3>2. /\ Begun' \in 0..(Len(order) + 1)
          /\ \A n \in 1..(Len(order) + 1) : Started(order[n])' <=> n <= Begun'
      BY <2>2 DEF QueueView, BegunPrefix
    <3>3. \A n \in 1..(Len(order) + 1) : n <= Begun' <=> n <= Begun
      <4> SUFFICES ASSUME NEW n \in 1..(Len(order) + 1) PROVE n <= Begun' <=> n <= Begun
        OBVIOUS
      <4>1. CASE n \in 1..Len(order)
        BY <2>3, <3>1, <3>2, <4>1
      <4>2. CASE n = Len(order) + 1
        BY <2>2, <2>3, <3>1, <3>2, <4>2 DEF Started
      <4> QED
        BY <2>2, <4>1, <4>2
    <3> QED
      BY <2>2, <3>1, <3>2, <3>3
  <2>5. Waiting' = Append(Waiting, j)
    <3>1. /\ Waiting \in Seq(Jobs) /\ Waiting' \in Seq(Jobs)
          /\ Len(Waiting) = Len(order) - Begun /\ Len(Waiting') = Len(order) + 1 - Begun
          /\ \A i \in 1..(Len(order) - Begun) : Waiting[i] = order[Begun + i]
          /\ \A i \in 1..(Len(order) + 1 - Begun) : Waiting'[i] = order'[Begun + i]
          /\ Begun \in 0..Len(order)
      BY <2>2, <2>4 DEF QueueView, WaitingPlaces, BegunPrefix
    <3>2. /\ Append(Waiting, j) \in Seq(Jobs)
          /\ Len(Append(Waiting, j)) = Len(Waiting) + 1
          /\ \A i \in 1..Len(Waiting) : Append(Waiting, j)[i] = Waiting[i]
          /\ Append(Waiting, j)[Len(Waiting) + 1] = j
      <4>1. Waiting \in Seq(Jobs)
        BY <3>1
      <4> QED
        BY <4>1, AppendProperties
    <3>3. \A i \in 1..Len(Waiting') : Waiting'[i] = Append(Waiting, j)[i]
      BY <2>2, <3>1, <3>2
    <3>4. Len(Waiting') = Len(Append(Waiting, j))
      BY <2>2, <3>1, <3>2
    <3> QED
      BY <3>1, <3>2, <3>3, <3>4, SeqEqual
  <2>6. Serving' = Serving
    BY <1>1, <2>1 DEF QueueView, ServingUnique
  <2>7. Served' = Served /\ j \notin Served
    BY <1>1, <2>1 DEF Served, Settled
  <2>8. threads = "up"
    BY <1>3 DEF BInv, TypeOK, CloseAwaitsAll
  <2>9. Queue!Admit(j)
    BY <2>1, <2>5, <2>6, <2>7, <2>8 DEF Queue!Admit
  <2> QED
    BY <2>9 DEF Queue!Next
<1> QED
  BY <1>2, <1>3

\* A job that starts is the head of the waiting calls, and the server was free.
LEMMA StartSolveServes ==
    ASSUME BInv, BInv', QueueView, QueueView', NEW j \in Jobs, StartSolve(j)
    PROVE  Queue!Serve
<1> USE DEF StartSolve
<1>1. /\ job[j] = "chained" /\ job'[j] = "solving" /\ order' = order /\ threads' = threads
      /\ \A k \in Jobs : k # j => job'[k] = job[k]
  BY DEF BInv, TypeOK
<1>2. PICK i \in 1..Len(order) : order[i] = j
  BY <1>1 DEF BInv, Listed, Chained
<1>3. /\ order \in Seq(Jobs) /\ Len(order) \in Nat
      /\ \A n \in 1..Len(order) : order[n] \in Jobs /\ (order[n] = j => n = i)
  BY <1>2 DEF BInv, TypeOK, Listed
<1>4. \A n \in 1..Len(order) : Started(order[n])' <=> (Started(order[n]) \/ n = i)
  BY <1>1, <1>2, <1>3 DEF Started
<1>5. Begun \in 0..Len(order) /\ \A n \in 1..Len(order) : Started(order[n]) <=> n <= Begun
  BY DEF QueueView, BegunPrefix
<1>6. Begun' \in 0..Len(order) /\ \A n \in 1..Len(order) : Started(order[n])' <=> n <= Begun'
  BY <1>1 DEF QueueView, BegunPrefix
<1>7. ~Started(order[i]) /\ Started(order[i])'
  BY <1>1, <1>2 DEF Started, Settled
<1>8. i = Begun + 1 /\ Begun' = i
  <2>1. i > Begun /\ i <= Begun'
    BY <1>2, <1>3, <1>5, <1>6, <1>7
  <2>2. ASSUME NEW n \in 1..Len(order) PROVE n <= Begun' <=> (n <= Begun \/ n = i)
    BY <1>4, <1>5, <1>6
  <2>3. Begun' >= 1 /\ Begun + 1 \in 1..Len(order)
    <3>1. i \in Int /\ i >= 1 /\ i <= Len(order) /\ Begun \in Nat /\ Begun' \in Nat
      BY <1>3, <1>5, <1>6
    <3> QED
      BY <1>3, <2>1, <3>1
  <2>4. Begun' <= Begun \/ Begun' = i
    BY <1>3, <1>6, <2>2, <2>3
  <2>5. Begun + 1 <= Begun'
    BY <1>2, <1>3, <1>5, <1>6, <2>1
  <2>6. Begun + 1 = i
    BY <1>3, <1>5, <1>6, <2>2, <2>3, <2>5
  <2> QED
    BY <1>2, <1>3, <1>5, <1>6, <2>1, <2>4, <2>6
<1>9. /\ Waiting # << >>
      /\ Head(Waiting) = j
      /\ Waiting' = Tail(Waiting)
  <2>1. Head(SubSeq(order, i, Len(order))) = order[i]
        /\ Tail(SubSeq(order, i, Len(order))) = SubSeq(order, i + 1, Len(order))
    <3>1. Len(order) \in i..Len(order)
      BY <1>2, <1>3
    <3> QED
      BY <1>2, <1>3, <3>1, HeadTailOfSubSeq
  <2>2. Waiting = SubSeq(order, i, Len(order)) /\ Waiting' = SubSeq(order, i + 1, Len(order))
    <3>1. Waiting' = SubSeq(order', Begun' + 1, Len(order'))
      BY DEF Waiting
    <3>2. Waiting = SubSeq(order, Begun + 1, Len(order))
      BY DEF Waiting
    <3>3. order' = order /\ Begun + 1 = i /\ Begun' = i
      BY <1>1, <1>8
    <3> QED
      BY <3>1, <3>2, <3>3
  <2>3. Len(Waiting) # 0
    <3>1. Len(Waiting) = Len(order) - Begun
      BY DEF QueueView, WaitingPlaces
    <3>2. i <= Len(order) /\ Begun = i - 1
      BY <1>2, <1>3, <1>5, <1>8
    <3> QED
      BY <1>2, <1>3, <3>1, <3>2
  <2> QED
    BY <1>2, <2>1, <2>2, <2>3
<1>10. \A k \in Jobs : job[k] # "solving"
  <2> SUFFICES ASSUME NEW k \in Jobs, job[k] = "solving" PROVE FALSE
    OBVIOUS
  <2>1. PICK n \in 1..Len(order) : order[n] = k
    BY DEF BInv, Listed, Chained
  <2>2. n < i
    <3>1. Started(order[n])
      BY <2>1 DEF Started
    <3> QED
      BY <1>3, <1>5, <1>8, <3>1
  <2>3. Started(order[i])' /\ n \in 1..(i - 1)
    BY <1>3, <1>7, <2>2
  <2>4. job'[order[n]] \in Settled
    BY <1>1, <2>3 DEF BInv, Serialized
  <2> QED
    BY <1>1, <2>1, <2>4 DEF Settled
<1>11. Serving = None /\ Serving' = j
  BY <1>1, <1>10 DEF QueueView, ServingUnique
<1>12. Served' = Served
  BY <1>1 DEF Served, Settled
<1>13. threads = "up"
  BY <1>1, <1>2 DEF BInv, TypeOK, ThreadsOutliveJobs, Settled
<1> QED
  BY <1>1, <1>9, <1>11, <1>12, <1>13 DEF Queue!Serve

\* A job that ends, either way, is answered and frees the server.
LEMMA EndSolveAnswers ==
    ASSUME BInv, BInv', QueueView, QueueView', NEW j \in Jobs, EndSolve(j)
    PROVE  Queue!Answer
<1> USE DEF EndSolve
<1>1. /\ job[j] = "solving" /\ job'[j] \in Settled /\ order' = order /\ threads' = threads
      /\ \A k \in Jobs : k # j => job'[k] = job[k]
  BY DEF BInv, TypeOK
<1>2. Serving = j /\ Serving # None
  BY <1>1, NoneAssumption DEF QueueView, ServingUnique
<1>3. Serving' = None
  BY <1>1 DEF QueueView, ServingUnique, Settled
<1>4. Served' = Served \cup {j}
  BY <1>1 DEF Served, Settled
<1>5. Waiting' = Waiting
  <2>1. \A n \in 1..Len(order) : order[n] \in Jobs
    BY DEF BInv, TypeOK
  <2>2. {n \in 1..Len(order) : Started(order[n])'} = {n \in 1..Len(order) : Started(order[n])}
    BY <1>1, <2>1 DEF Started
  <2> QED
    BY <1>1, <2>2 DEF Waiting, Begun
<1> QED
  BY <1>1, <1>2, <1>3, <1>4, <1>5 DEF Queue!Answer

\* The threads stop when nothing waits and nothing is served.
LEMMA KillThreadsStops ==
    ASSUME BInv, BInv', QueueView, QueueView', NEW c \in Closers, KillThreads(c)
    PROVE  [Queue!Next]_(Queue!vars)
<1> USE DEF KillThreads
<1>1. order' = order /\ job' = job
  OBVIOUS
<1>2. UNCHANGED <<Waiting, Serving, Served>>
  BY <1>1 DEF Waiting, Begun, Started, Serving, Served
<1>3. CASE threads' = threads
  BY <1>2, <1>3 DEF Queue!vars
<1>4. CASE threads' = "down"
  <2>1. Resolved(tail)
    BY DEF BInv, CloseAwaitsAll
  <2>2. \A n \in 1..Len(order) : job[order[n]] \in Settled
    BY <2>1, TailResolvedAll
  <2>3. Waiting = << >>
    <3>1. \A n \in 1..Len(order) : n <= Begun
      BY <2>2 DEF QueueView, BegunPrefix, Started
    <3>2. Len(Waiting) = 0 /\ Waiting \in Seq(Jobs)
      BY <3>1 DEF QueueView, BegunPrefix, WaitingPlaces, BInv, TypeOK
    <3> QED
      BY <3>2
  <2>4. Serving = None
    BY <2>2 DEF QueueView, ServingUnique, BInv, Listed, Chained, Settled
  <2>5. Queue!Stop
    BY <1>2, <1>4, <2>3, <2>4 DEF Queue!Stop
  <2> QED
    BY <2>5 DEF Queue!Next
<1> QED
  BY <1>3, <1>4

\* Every step of the backend is a step of the queue, or leaves it as it is.
LEMMA NextQueue ==
    ASSUME BInv, BInv', QueueView, QueueView', [Next]_vars
    PROVE  [Queue!Next]_(Queue!vars)
<1>1. ASSUME NEW j \in Jobs, Verify(j) PROVE UNCHANGED Queue!vars
  <2>1. /\ job[j] = "idle" /\ job'[j] \in {"refused", "built"}
        /\ UNCHANGED <<order, threads>>
        /\ \A k \in Jobs : k # j => job'[k] = job[k]
    BY <1>1 DEF Verify, BInv, TypeOK
  <2> QED
    BY <2>1, SameQueue DEF Settled
<1>2. ASSUME NEW j \in Jobs, RunExclusive(j) \/ StartSolve(j) \/ EndSolve(j)
      PROVE  [Queue!Next]_(Queue!vars)
  BY <1>2, RunExclusiveAdmits, StartSolveServes, EndSolveAnswers DEF Queue!Next
<1>3. ASSUME NEW c \in Closers, Close(c) \/ AwaitTail(c) \/ TailAwaited(c)
      PROVE  UNCHANGED Queue!vars
  <2>1. UNCHANGED <<order, threads, job>>
    BY <1>3 DEF Close, AwaitTail, TailAwaited
  <2> QED
    BY <2>1, SameQueue
<1>4. ASSUME NEW c \in Closers, KillThreads(c) PROVE [Queue!Next]_(Queue!vars)
  BY <1>4, KillThreadsStops
<1>5. CASE UNCHANGED vars
  <2>1. UNCHANGED <<order, threads, job>>
    BY <1>5 DEF vars
  <2> QED
    BY <2>1, SameQueue
<1> QED
  BY <1>1, <1>2, <1>3, <1>4, <1>5 DEF Next

\* A backend just made is an empty queue with its threads up.
LEMMA InitQueue == Init => Queue!Init
<1> SUFFICES ASSUME Init PROVE Queue!Init
  OBVIOUS
<1>1. BInv
  BY InitBInv
<1>2. QueueView
  BY <1>1, BInvQueueView
<1>3. Len(order) = 0 /\ Begun = 0
  BY <1>2 DEF Init, QueueView, BegunPrefix
<1>4. Waiting = << >>
  BY <1>2, <1>3 DEF QueueView, WaitingPlaces
<1>5. Serving = None /\ Served = {} /\ threads = "up"
  BY <1>2 DEF Init, QueueView, ServingUnique, Served, Settled
<1> QED
  BY <1>4, <1>5 DEF Queue!Init

(***************************************************************************)
(* The promise chain implements a first-in first-out queue with one        *)
(* server, whose threads stop only when it is empty: the promise of        *)
(* runExclusive and close(), for any number of callers.                    *)
(***************************************************************************)
THEOREM BackendImplementsQueue == Spec => ImplementsQueue
<1>1. Init => Queue!Init
  BY InitQueue
<1>2. BInv /\ BInv' /\ QueueView /\ QueueView' /\ [Next]_vars => [Queue!Next]_(Queue!vars)
  BY NextQueue
<1>3. BInv => QueueView
  BY BInvQueueView
<1> QED
  BY <1>1, <1>2, <1>3, AlwaysBInv, PTL DEF Spec, Queue!Spec, ImplementsQueue

-----------------------------------------------------------------------------
(* The collectors of divisors find those of an expression of any size, but *)
(* for those inside a String.                                              *)
(*                                                                         *)
(* The argument: the expressions on the stack share no divisor, as each is *)
(* named by a node of its own; so what is hidden in one operand of a node  *)
(* is not collected from another, and the difference of the unions is the  *)
(* union of the differences.                                               *)

Expression ==
    [sort: Sorts, occurring: SUBSET Nat, collected: SUBSET Nat, hidden: SUBSET Nat]

\* An expression of at most n nodes whose collector misses hidden divisors only.
Sound(e, n) ==
    /\ e \in Expression
    /\ e.occurring \subseteq 1..n
    /\ e.hidden \subseteq e.occurring
    /\ e.sort = "String" => e.hidden = e.occurring
    /\ e.collected = e.occurring \ e.hidden

Apart == \A i, j \in 1..Len(stack) :
            i # j => stack[i].occurring \cap stack[j].occurring = {}

DInv ==
    /\ nodes \in Nat
    /\ stack \in Seq(Expression)
    /\ \A i \in 1..Len(stack) : Sound(stack[i], nodes)
    /\ Apart

\* The operands of a node are the last of the stack.
LEMMA OperandsOnStack ==
    ASSUME DInv, NEW n \in Nat, n <= Len(stack), NEW e \in Operands(n)
    PROVE  \E i \in Len(stack) - n + 1 .. Len(stack) :
              i \in 1..Len(stack) /\ e = stack[i]
<1>1. PICK k \in 1..n : e = stack[Len(stack) - n + k]
  BY DEF Operands, Operand
<1>2. Len(stack) \in Nat
  BY DEF DInv
<1>3. /\ Len(stack) - n + k \in Len(stack) - n + 1 .. Len(stack)
      /\ Len(stack) - n + k \in 1..Len(stack)
  BY <1>1, <1>2
<1> QED
  BY <1>1, <1>3

\* What the operands hide, no other operand shows.
LEMMA OperandsSound ==
    ASSUME DInv, NEW n \in Nat, n <= Len(stack)
    PROVE  LET E == Operands(n)
           IN  /\ Occurring(E) \subseteq 1..nodes
               /\ Hidden(E) \subseteq Occurring(E)
               /\ Collected(E) = Occurring(E) \ Hidden(E)
<1>1. \A e \in Operands(n) : Sound(e, nodes)
  BY OperandsOnStack DEF DInv
<1>2. \A e, f \in Operands(n) : \A d : d \in e.occurring /\ d \in f.occurring => e = f
  <2> SUFFICES ASSUME NEW e \in Operands(n), NEW f \in Operands(n), NEW d,
                      d \in e.occurring, d \in f.occurring
               PROVE  e = f
    OBVIOUS
  <2>1. PICK i \in 1..Len(stack) : e = stack[i]
    BY OperandsOnStack
  <2>2. PICK j \in 1..Len(stack) : f = stack[j]
    BY OperandsOnStack
  <2>3. i = j
    BY <2>1, <2>2 DEF DInv, Apart
  <2> QED
    BY <2>1, <2>2, <2>3
<1> DEFINE E == Operands(n)
<1> HIDE DEF E
<1>3. \A e \in E : Sound(e, nodes)
  BY <1>1 DEF E
<1>4. \A e, f \in E : \A d : d \in e.occurring /\ d \in f.occurring => e = f
  BY <1>2 DEF E
<1>5. Occurring(E) \subseteq 1..nodes /\ Hidden(E) \subseteq Occurring(E)
  BY <1>3 DEF Occurring, Hidden, Sound
<1>6. Collected(E) \subseteq Occurring(E)
  BY <1>3 DEF Occurring, Collected, Sound
<1>7. ASSUME NEW d \in Occurring(E) PROVE d \in Collected(E) <=> d \notin Hidden(E)
  <2>1. PICK e \in E : d \in e.occurring
    BY DEF Occurring
  <2>2. d \in Collected(E) <=> d \in e.collected
    BY <1>3, <1>4, <2>1 DEF Collected, Sound
  <2>3. d \in Hidden(E) <=> d \in e.hidden
    BY <1>3, <1>4, <2>1 DEF Hidden, Sound
  <2> QED
    BY <1>3, <2>1, <2>2, <2>3 DEF Sound
<1>8. Collected(E) = Occurring(E) \ Hidden(E)
  BY <1>6, <1>7
<1> QED
  BY <1>5, <1>8 DEF E

\* Putting a sound node in the place of its operands preserves the invariant.
LEMMA BuildDInv ==
    ASSUME DInv, NEW n \in Nat, n <= Len(stack), NEW e, Build(n, e),
           Sound(e, nodes + 1),
           e.occurring \subseteq Occurring(Operands(n)) \cup {nodes + 1}
    PROVE  DInv'
<1> DEFINE m    == Len(stack) - n
           rest == SubSeq(stack, 1, m)
<1>1. /\ nodes \in Nat /\ Len(stack) \in Nat /\ m \in Nat /\ m <= Len(stack)
      /\ nodes' = nodes + 1 /\ stack' = Append(rest, e)
  BY DEF DInv, Build
<1>2. /\ rest \in Seq(Expression) /\ Len(rest) = m
      /\ \A i \in 1..m : rest[i] = stack[i]
  BY <1>1, SubSeqProperties DEF DInv
<1>3. e \in Expression
  BY DEF Sound
<1>4. /\ stack' \in Seq(Expression) /\ Len(stack') = m + 1
      /\ \A i \in 1..m : stack'[i] = stack[i]
      /\ stack'[m + 1] = e
  BY <1>1, <1>2, <1>3, AppendProperties
<1>5. \A i \in 1..m : i \in 1..Len(stack) /\ Sound(stack[i], nodes)
  BY <1>1 DEF DInv
<1>6. \A i \in 1..m : Sound(stack'[i], nodes')
  <2> SUFFICES ASSUME NEW i \in 1..m PROVE Sound(stack[i], nodes + 1)
    BY <1>1, <1>4
  <2>1. 1..nodes \subseteq 1..(nodes + 1)
    BY <1>1
  <2> QED
    BY <1>5, <2>1 DEF Sound
<1>7. \A i \in 1..m : stack[i].occurring \cap e.occurring = {}
  <2> SUFFICES ASSUME NEW i \in 1..m, NEW d \in stack[i].occurring, d \in e.occurring
               PROVE  FALSE
    OBVIOUS
  <2>1. d \in 1..nodes /\ d # nodes + 1
    BY <1>1, <1>5 DEF Sound
  <2>2. PICK f \in Operands(n) : d \in f.occurring
    BY <2>1 DEF Occurring
  <2>3. PICK j \in Len(stack) - n + 1 .. Len(stack) : j \in 1..Len(stack) /\ f = stack[j]
    BY OperandsOnStack
  <2>4. i # j /\ i \in 1..Len(stack)
    BY <1>1
  <2> QED
    BY <2>2, <2>3, <2>4 DEF DInv, Apart
<1>8. \A i \in 1..Len(stack') : i \in 1..m \/ i = m + 1
  BY <1>1, <1>4
<1>9. Apart'
  BY <1>4, <1>5, <1>7, <1>8 DEF DInv, Apart
<1>10. \A i \in 1..Len(stack') : Sound(stack'[i], nodes')
  BY <1>1, <1>4, <1>6, <1>8
<1>11. (\A i \in 1..Len(stack) : Sound(stack[i], nodes))'
  BY <1>10 DEF Sound
<1>12. (nodes \in Nat /\ stack \in Seq(Expression))'
  BY <1>1, <1>4
<1> QED
  BY <1>9, <1>11, <1>12 DEF DInv

\* A node whose collector descends is sound, unless it is of sort String.
LEMMA VisitedSound ==
    ASSUME DInv, NEW n \in Nat, n <= Len(stack), NEW sort \in {"Bool", "Int"}
    PROVE  LET v == Visited(sort, Operands(n))
           IN  Sound(v, nodes + 1) /\ v.occurring = Occurring(Operands(n))
<1>1. nodes \in Nat /\ 1..nodes \subseteq 1..(nodes + 1) /\ 1..nodes \subseteq Nat
  BY DEF DInv
<1> QED
  <2> DEFINE E == Operands(n)
  <2>1. /\ Occurring(E) \subseteq 1..nodes
        /\ Hidden(E) \subseteq Occurring(E)
        /\ Collected(E) = Occurring(E) \ Hidden(E)
    BY OperandsSound
  <2> HIDE DEF E
  <2>2. Sound(Visited(sort, E), nodes + 1) /\ Visited(sort, E).occurring = Occurring(E)
    BY <1>1, <2>1 DEF Visited, Sound, Expression, Sorts
  <2> QED
    BY <2>2 DEF E

\* Every constructor preserves the invariant.
LEMMA NextDInv == DInv /\ [CollectorNext]_collectorVars => DInv'
<1> SUFFICES ASSUME DInv, [CollectorNext]_collectorVars PROVE DInv'
  OBVIOUS
<1>1. /\ nodes \in Nat /\ Len(stack) \in Nat
      /\ 1..nodes \subseteq 1..(nodes + 1) /\ 1..nodes \subseteq Nat
      /\ nodes + 1 \in Nat /\ nodes + 1 \in 1..(nodes + 1) /\ nodes + 1 \notin 1..nodes
  BY DEF DInv
<1>2. ASSUME NEW n \in Nat, n <= Len(stack), NEW sort \in {"Bool", "Int"},
             Build(n, Visited(sort, Operands(n)))
      PROVE  DInv'
  BY <1>2, VisitedSound, BuildDInv
<1>3. CASE UNCHANGED collectorVars
  BY <1>3 DEF collectorVars, DInv, Apart
<1>4. ASSUME NEW sort \in Sorts, Leaf(sort) PROVE DInv'
  <2>1. Operands(0) = {} /\ Occurring({}) = {} /\ Hidden({}) = {} /\ Collected({}) = {}
    BY DEF Operands, Occurring, Hidden, Collected
  <2>2. Sound(Visited(sort, {}), nodes + 1) /\ Visited(sort, {}).occurring = {}
    BY <2>1 DEF Visited, Sound, Expression
  <2> QED
    BY <1>1, <1>4, <2>2, BuildDInv DEF Leaf
<1>5. CASE Arithmetic
  BY <1>2, <1>5 DEF Arithmetic, HasOperands
<1>6. CASE Division
  <2> DEFINE v == Visited("Int", Operands(2))
             e == [v EXCEPT !.occurring = @ \cup {nodes + 1},
                            !.collected = @ \cup {nodes + 1}]
  <2>1. 2 <= Len(stack) /\ Build(2, e)
    BY <1>6 DEF Division, HasOperands
  <2>2. Sound(e, nodes + 1) /\ e.occurring = Occurring(Operands(2)) \cup {nodes + 1}
    <3> DEFINE E == Operands(2)
    <3>1. /\ Occurring(E) \subseteq 1..nodes
          /\ Hidden(E) \subseteq Occurring(E)
          /\ Collected(E) = Occurring(E) \ Hidden(E)
      BY <2>1, OperandsSound
    <3>2. v \in Expression
      BY <1>1, <3>1 DEF Visited, Expression, Sorts
    <3>3. /\ e.sort = "Int" /\ e.hidden = Hidden(E)
          /\ e.occurring = Occurring(E) \cup {nodes + 1}
          /\ e.collected = Collected(E) \cup {nodes + 1}
      BY <3>2 DEF Visited, Expression
    <3>4. e \in Expression
      BY <1>1, <3>2 DEF Expression
    <3> HIDE DEF E, e
    <3>5. Sound(e, nodes + 1) /\ e.occurring = Occurring(E) \cup {nodes + 1}
      BY <1>1, <3>1, <3>3, <3>4 DEF Sound
    <3> QED
      BY <3>5 DEF E
  <2> QED
    BY <2>1, <2>2, BuildDInv
<1>7. CASE Not \/ Logical \/ Comparison
  BY <1>2, <1>7 DEF Not, Logical, Comparison, HasOperands
<1>8. CASE Equality
  <2> DEFINE v == Visited("Bool", Operands(2))
             e(sort) == [v EXCEPT !.collected = IF sort = "String" THEN {} ELSE @]
  <2>1. PICK sort \in Sorts : HasOperands(2, sort) /\ Build(2, e(sort))
    BY <1>8 DEF Equality
  <2>2. CASE sort # "String"
    <3>1. e(sort) = v
      BY <2>2 DEF Visited
    <3> QED
      BY <1>2, <2>1, <3>1 DEF HasOperands
  <2>3. CASE sort = "String"
    <3>1. \A f \in Operands(2) : f.hidden = f.occurring
      BY <2>1, <2>3, OperandsOnStack DEF HasOperands, DInv, Sound
    <3>2. Hidden(Operands(2)) = Occurring(Operands(2))
      BY <3>1 DEF Hidden, Occurring
    <3>3. 2 <= Len(stack)
      BY <2>1 DEF HasOperands
    <3>4. Sound(e("String"), nodes + 1) /\ e("String").occurring = Occurring(Operands(2))
      BY <1>1, <3>2, <3>3, OperandsSound DEF Visited, Sound, Expression, Sorts
    <3> QED
      BY <2>1, <2>3, <3>3, <3>4, BuildDInv
  <2> QED
    BY <2>2, <2>3
<1>9. CASE Conditional
  <2> DEFINE v(sort) == Visited(sort, Operands(3))
             e(sort) == [v(sort) EXCEPT
                            !.collected = IF sort = "String" THEN {} ELSE @,
                            !.hidden = IF sort = "String"
                                         THEN Occurring(Operands(3)) ELSE @]
  <2>1. PICK sort \in Sorts : Build(3, e(sort))
    BY <1>9 DEF Conditional
  <2>2. 3 <= Len(stack)
    BY <1>9 DEF Conditional
  <2>3. CASE sort # "String"
    <3>1. e(sort) = v(sort) /\ sort \in {"Bool", "Int"}
      BY <2>3 DEF Visited, Sorts
    <3> QED
      BY <1>2, <2>1, <2>2, <3>1
  <2>4. CASE sort = "String"
    <3>1. Sound(e("String"), nodes + 1) /\ e("String").occurring = Occurring(Operands(3))
      BY <1>1, <2>2, OperandsSound DEF Visited, Sound, Expression, Sorts
    <3> QED
      BY <2>1, <2>2, <2>4, <3>1, BuildDInv
  <2> QED
    BY <2>3, <2>4
<1> QED
  BY <1>3, <1>4, <1>5, <1>6, <1>7, <1>8, <1>9 DEF CollectorNext

\* The collectors miss no divisor but those inside a String, in an expression
\* of any size: what the checks on divisors are worth (CollectsEveryDivisor
\* asks for more, and is refuted by a String).
THEOREM DivisorsCollected == CollectorSpec => []CollectsOutsideStrings
<1>1. CollectorInit => DInv
  BY DEF CollectorInit, DInv, Apart
<1>2. DInv => CollectsOutsideStrings
  BY DEF DInv, CollectsOutsideStrings, Expressions, Sound
<1> QED
  BY <1>1, <1>2, NextDInv, PTL DEF CollectorSpec
=============================================================================
