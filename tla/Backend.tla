------------------------------ MODULE Backend ------------------------------
(***************************************************************************)
(* One Z3BackendImpl shared by concurrent callers: the promise chain that  *)
(* serializes verifications, and closing.                                  *)
(*                                                                         *)
(* verify() and close() only build Effects; what the Effect does happens   *)
(* when a fiber runs it.  The two moments are two actions, and anything    *)
(* may happen in between.  What solve() does is module Solve; here a job   *)
(* ends with an answer or throws.  Interrupting the fiber that waits for a *)
(* verification does not reach the promise, so it changes nothing here.    *)
(***************************************************************************)
EXTENDS Naturals, FiniteSets, Sequences

CONSTANTS
    Jobs,       \* calls of verify(), each run once
    Unbounded,  \* those of Jobs whose solve may never end
    Closers,    \* calls of close()
    None        \* the promise the chain starts from

ASSUME NoneAssumption == None \notin Jobs

ASSUME UnboundedAssumption == Unbounded \subseteq Jobs

VARIABLES
    closed,     \* the flag both verify and close test
    tail,       \* the job whose end the last promise of the chain follows
    after,      \* after[j]: the tail job j was chained to
    job,        \* job[j]: the state of call j of verify()
    closer,     \* closer[c]: the state of call c of close()
    until,      \* until[c]: the tail the run of close c awaits
    threads,    \* "up", or "down" once killThreads succeeded
    order       \* history: the jobs in the order they were chained

vars == <<closed, tail, after, job, closer, until, threads, order>>

Settled == {"answered", "threw"}

\* tail is result.then(() => undefined, () => undefined): it resolves either way.
Resolved(t) == t \in Jobs => job[t] \in Settled

\* A call of verify() or close() is always in one of the states named here.
TypeOK ==
    /\ closed \in BOOLEAN
    /\ tail \in Jobs \cup {None}
    /\ after \in [Jobs -> Jobs \cup {None}]
    /\ job \in [Jobs -> {"idle", "built", "refused", "chained", "solving"} \cup Settled]
    /\ closer \in [Closers -> {"idle", "built", "skipped", "waiting", "killing", "done", "failed"}]
    /\ until \in [Closers -> Jobs \cup {None}]
    /\ threads \in {"up", "down"}
    /\ order \in Seq(Jobs)

Init ==
    /\ closed = FALSE
    /\ tail = None
    /\ after = [j \in Jobs |-> None]
    /\ job = [j \in Jobs |-> "idle"]
    /\ closer = [c \in Closers |-> "idle"]
    /\ until = [c \in Closers |-> None]
    /\ threads = "up"
    /\ order = << >>

-----------------------------------------------------------------------------

\* verify(program): on a closed backend, an Effect that fails.
Verify(j) ==
    /\ job[j] = "idle"
    /\ job' = [job EXCEPT ![j] = IF closed THEN "refused" ELSE "built"]
    /\ UNCHANGED <<closed, tail, after, closer, until, threads, order>>

\* Mutant of RunExclusive: it trusts the test made when the Effect was built.
RunExclusiveUnchecked(j) ==
    /\ job[j] = "built"
    /\ job' = [job EXCEPT ![j] = "chained"]
    /\ after' = [after EXCEPT ![j] = tail]
    /\ tail' = j
    /\ order' = Append(order, j)
    /\ UNCHANGED <<closed, closer, until, threads>>

\* Mutant of RunExclusive: the chain is not extended.
RunExclusiveUnchained(j) ==
    /\ job[j] = "built"
    /\ IF closed
         THEN /\ job' = [job EXCEPT ![j] = "refused"]
              /\ UNCHANGED <<after, order>>
         ELSE /\ job' = [job EXCEPT ![j] = "chained"]
              /\ after' = [after EXCEPT ![j] = tail]
              /\ order' = Append(order, j)
    /\ UNCHANGED <<closed, tail, closer, until, threads>>

\* The Effect of verify() runs runExclusive, which tests the flag again.
RunExclusive(j) ==
    /\ job[j] = "built"
    /\ IF closed
         THEN /\ job' = [job EXCEPT ![j] = "refused"]
              /\ UNCHANGED <<tail, after, order>>
         ELSE /\ job' = [job EXCEPT ![j] = "chained"]
              /\ after' = [after EXCEPT ![j] = tail]
              /\ tail' = j
              /\ order' = Append(order, j)
    /\ UNCHANGED <<closed, closer, until, threads>>

\* Mutant of StartSolve: the tail is the result itself, so a job chained to one
\* that threw is rejected with its error and never solved.
StartSolveCascading(j) ==
    /\ job[j] = "chained"
    /\ Resolved(after[j])
    /\ job' = [job EXCEPT ![j] = IF after[j] \in Jobs /\ job[after[j]] = "threw"
                                   THEN "threw" ELSE "solving"]
    /\ UNCHANGED <<closed, tail, after, closer, until, threads, order>>

\* this.tail.then(() => this.solve(program))
StartSolve(j) ==
    /\ job[j] = "chained"
    /\ Resolved(after[j])
    /\ job' = [job EXCEPT ![j] = "solving"]
    /\ UNCHANGED <<closed, tail, after, closer, until, threads, order>>

\* Mutant of EndSolve: interrupting the waiting fiber drops the job.
EndSolveInterrupted(j) ==
    /\ job[j] = "solving"
    /\ \E end \in Settled \cup {"interrupted"} : job' = [job EXCEPT ![j] = end]
    /\ UNCHANGED <<closed, tail, after, closer, until, threads, order>>

EndSolve(j) ==
    /\ job[j] = "solving"
    /\ \E end \in Settled : job' = [job EXCEPT ![j] = end]
    /\ UNCHANGED <<closed, tail, after, closer, until, threads, order>>

\* close() sets the flag at once; a second call is an Effect that does nothing.
Close(c) ==
    /\ closer[c] = "idle"
    /\ closer' = [closer EXCEPT ![c] = IF closed THEN "skipped" ELSE "built"]
    /\ closed' = TRUE
    /\ UNCHANGED <<tail, after, job, until, threads, order>>

\* Mutant of AwaitTail: close() does not wait for the admitted jobs.
AwaitNothing(c) ==
    /\ closer[c] \in {"built", "failed"}
    /\ closer' = [closer EXCEPT ![c] = "waiting"]
    /\ until' = [until EXCEPT ![c] = None]
    /\ UNCHANGED <<closed, tail, after, job, threads, order>>

\* The Effect of close() runs, or runs again after it failed: await this.tail.
AwaitTail(c) ==
    /\ closer[c] \in {"built", "failed"}
    /\ closer' = [closer EXCEPT ![c] = "waiting"]
    /\ until' = [until EXCEPT ![c] = tail]
    /\ UNCHANGED <<closed, tail, after, job, threads, order>>

\* Mutant of TailAwaited: the tail is the result itself, so a close behind a job
\* that threw fails with its error and never gets to the threads.
TailAwaitedCascading(c) ==
    /\ closer[c] = "waiting"
    /\ Resolved(until[c])
    /\ closer' = [closer EXCEPT ![c] = IF until[c] \in Jobs /\ job[until[c]] = "threw"
                                         THEN "failed" ELSE "killing"]
    /\ UNCHANGED <<closed, tail, after, job, until, threads, order>>

\* this.tail has resolved.
TailAwaited(c) ==
    /\ closer[c] = "waiting"
    /\ Resolved(until[c])
    /\ closer' = [closer EXCEPT ![c] = "killing"]
    /\ UNCHANGED <<closed, tail, after, job, until, threads, order>>

\* await killThreads(this.api.em)
KillThreads(c) ==
    /\ closer[c] = "killing"
    /\ \/ /\ threads' = "down"
          /\ closer' = [closer EXCEPT ![c] = "done"]
       \/ /\ closer' = [closer EXCEPT ![c] = "failed"]
          /\ UNCHANGED threads
    /\ UNCHANGED <<closed, tail, after, job, until, order>>

Next ==
    \/ \E j \in Jobs : Verify(j) \/ RunExclusive(j) \/ StartSolve(j) \/ EndSolve(j)
    \/ \E c \in Closers : Close(c) \/ AwaitTail(c) \/ TailAwaited(c) \/ KillThreads(c)

Spec == Init /\ [][Next]_vars

(***************************************************************************)
(* Resolved promises run their continuations, and killThreads settles.  A  *)
(* solve ends when every check answers: with timeoutMilliseconds each one  *)
(* does; without, a solve on which Z3 does not terminate never ends and is *)
(* among Unbounded, of which nothing is required.  Callers owe nothing.    *)
(***************************************************************************)
Fairness ==
    /\ \A j \in Jobs : WF_vars(StartSolve(j))
    /\ \A j \in Jobs \ Unbounded : WF_vars(EndSolve(j))
    /\ \A c \in Closers : WF_vars(TailAwaited(c)) /\ WF_vars(KillThreads(c))

FairSpec == Spec /\ Fairness

-----------------------------------------------------------------------------
(* Properties.                                                             *)

Started(j) == job[j] \in {"solving"} \cup Settled

(***************************************************************************)
(* Jobs run one at a time in the order they were chained: one may have     *)
(* started only if every earlier one has settled, even by throwing.        *)
(***************************************************************************)
Serialized ==
    \A n \in 1..Len(order) : Started(order[n])
        => \A m \in 1..(n - 1) : job[order[m]] \in Settled

\* No admitted job is left without the threads it needs.
ThreadsOutliveJobs ==
    threads = "down" => \A n \in 1..Len(order) : job[order[n]] \in Settled

(***************************************************************************)
(* Once close() has been called nothing joins the chain, not even a        *)
(* verification whose Effect was built before.                             *)
(***************************************************************************)
ClosedAdmitsNothing == [][closed => order' = order]_vars

(***************************************************************************)
(* A chained job gets a solve of its own and settles by it, however the    *)
(* jobs ahead of it end: one that throws neither fails those behind it nor *)
(* holds them up.  What can is a job ahead whose solve does not end, and   *)
(* it holds up those behind it only.                                       *)
(***************************************************************************)
Ahead(j) == {order[m] : m \in {m \in 1..Len(order) :
                                  \E n \in m..Len(order) : order[n] = j}}

Stuck(jobs) == \E k \in jobs \cap Unbounded : job[k] = "solving"

ChainedSolved ==
    \A j \in Jobs :
        /\ job[j] = "chained" ~> job[j] = "solving" \/ Stuck(Ahead(j))
        /\ job[j] = "solving" ~> job[j] \in Settled \/ j \in Unbounded

(***************************************************************************)
(* A running close gets as far as terminating the threads, however many    *)
(* jobs it has to wait for and however they end, and then succeeds or      *)
(* fails by that; only a solve that does not end keeps it waiting.         *)
(***************************************************************************)
CloseTerminates ==
    \A c \in Closers :
        /\ closer[c] = "waiting" ~> closer[c] = "killing" \/ Stuck(Jobs)
        /\ closer[c] = "killing" ~> closer[c] \in {"done", "failed"}

(***************************************************************************)
(* "Node worker threads are cleaned up when the backend is closed": when   *)
(* every call of close() has run to its end and one of them reported       *)
(* success, no worker thread is left.  The code does not keep this: after  *)
(* a failed killThreads, calling close() again succeeds and does nothing.  *)
(***************************************************************************)
CloseCleansUp ==
    /\ \A c \in Closers : closer[c] \notin {"built", "waiting", "killing"}
    /\ \E c \in Closers : closer[c] \in {"skipped", "done"}
    => threads = "down"

(***************************************************************************)
(* The promise chain is a first-in first-out queue with one server: what   *)
(* is chained and has not started waits, in the order of chaining.         *)
(***************************************************************************)
Begun == Cardinality({n \in 1..Len(order) : Started(order[n])})

Waiting == SubSeq(order, Begun + 1, Len(order))

Serving ==
    IF \E j \in Jobs : job[j] = "solving"
      THEN CHOOSE j \in Jobs : job[j] = "solving" ELSE None

Served == {j \in Jobs : job[j] \in Settled}

Queue == INSTANCE SerialQueue WITH
    Calls   <- Jobs,
    waiting <- Waiting,
    serving <- Serving,
    served  <- Served,
    running <- threads = "up"

ImplementsQueue == Queue!Spec
=============================================================================
