----------------------------- MODULE ThreadPool -----------------------------
(***************************************************************************)
(* GD::ThreadPool: a list of jobs under mutex_, worker threads that wait   *)
(* on cond_, and an owner that shuts the pool down and activates it again. *)
(*                                                                         *)
(* A step is a critical section of mutex_, or an effect outside of it: the *)
(* return of a job, busyCount--, notify_all, the joins.  Any thread may    *)
(* enqueue at any time, as do the dispatcher of GDFileStore, the timers    *)
(* and the HTTP handlers.  One thread calls shutdown() and active(), as    *)
(* the constructors and destructors of the repository do.                  *)
(***************************************************************************)
EXTENDS Naturals, Sequences, SequencesExt, FiniteSets

CONSTANTS
    Jobs,      \* the function objects, told apart
    Threads,   \* names for the worker threads
    Rosters,   \* the sets of threads active(n) may start
    NoJob,     \* the fn of a worker that has none
    MaxCalls   \* bound on the calls of shutdown() and active()

\* hardware_concurrency() may be 0 and the configuration may say so: a pool
\* with no threads runs nothing, and nothing is said of it here.
ASSUME PoolAssumption ==
    /\ IsFiniteSet(Threads)
    /\ Rosters \subseteq (SUBSET Threads) \ {{}}
    /\ NoJob \notin Jobs
    /\ MaxCalls \in Nat

VARIABLES
    jobs_,      \* the list of jobs
    shutdown_,  \* the flag
    busyCount,  \* the atomic counter
    threads_,   \* the threads in the vector
    at,         \* where each thread is
    fn,         \* the job each thread has taken
    owner,      \* where the owner is in shutdown() or active()
    roster,     \* the threads active(n) will start; {} in a plain shutdown()
    calls,      \* the owner's calls so far
    accepted,   \* the jobs enqueued so far
    due,        \* those of them enqueued before the last effective shutdown()
    runs        \* how often each job has returned

pool   == <<jobs_, shutdown_, busyCount, threads_>>
worker == <<at, fn>>
caller == <<owner, roster, calls>>
vars   == <<pool, worker, caller, accepted, due, runs>>

Place == {"absent", "ready", "waiting", "calling", "returned", "exited"}
Step  == {"idle", "set", "notify", "join", "clear", "start"}

\* After the constructor: active(n) has started the first threads.
Init ==
    /\ jobs_ = <<>> /\ shutdown_ = FALSE /\ busyCount = 0
    /\ threads_ \in Rosters
    /\ at = [t \in Threads |-> IF t \in threads_ THEN "ready" ELSE "absent"]
    /\ fn = [t \in Threads |-> NoJob]
    /\ owner = "idle" /\ roster = {} /\ calls = 0
    /\ accepted = {} /\ due = {}
    /\ runs = [j \in Jobs |-> 0]

----------------------------------------------------------------------------
(* enqueue, by any thread. *)

Waiting == {t \in Threads : at[t] = "waiting"}

\* Mutant: nobody is notified.
Enqueue_Silent(j) ==
    /\ j \notin accepted
    /\ accepted' = accepted \cup {j}
    /\ jobs_' = Append(jobs_, j)
    /\ UNCHANGED <<shutdown_, busyCount, threads_, worker, caller, due, runs>>

\* notify_one, with the lock held, wakes one of the waiting threads.
Enqueue(j) ==
    /\ j \notin accepted
    /\ accepted' = accepted \cup {j}
    /\ jobs_' = Append(jobs_, j)
    /\ \/ Waiting = {} /\ at' = at
       \/ \E t \in Waiting : at' = [at EXCEPT ![t] = "ready"]
    /\ UNCHANGED <<shutdown_, busyCount, threads_, fn, caller, due, runs>>

----------------------------------------------------------------------------
(* A worker. *)

\* Mutant: the job stays in the list.
Fetch_NoPop(t) ==
    /\ at[t] = "ready" /\ jobs_ # <<>>
    /\ busyCount' = busyCount + 1
    /\ fn' = [fn EXCEPT ![t] = Head(jobs_)]
    /\ at' = [at EXCEPT ![t] = "calling"]
    /\ UNCHANGED <<jobs_, shutdown_, threads_, caller, accepted, due, runs>>

\* Mutant: busyCount++ is missing.
Fetch_NotBusy(t) ==
    /\ at[t] = "ready" /\ jobs_ # <<>>
    /\ fn' = [fn EXCEPT ![t] = Head(jobs_)]
    /\ jobs_' = Tail(jobs_)
    /\ at' = [at EXCEPT ![t] = "calling"]
    /\ UNCHANGED <<shutdown_, busyCount, threads_, caller, accepted, due, runs>>

Fetch(t) ==
    /\ at[t] = "ready" /\ jobs_ # <<>>
    /\ busyCount' = busyCount + 1
    /\ fn' = [fn EXCEPT ![t] = Head(jobs_)]
    /\ jobs_' = Tail(jobs_)
    /\ at' = [at EXCEPT ![t] = "calling"]
    /\ UNCHANGED <<shutdown_, threads_, caller, accepted, due, runs>>

\* The predicate is false: the lock is released and the thread waits.
Wait(t) ==
    /\ at[t] = "ready" /\ jobs_ = <<>> /\ ~shutdown_
    /\ at' = [at EXCEPT ![t] = "waiting"]
    /\ UNCHANGED <<pool, fn, caller, accepted, due, runs>>

SpuriousWakeup(t) ==
    /\ at[t] = "waiting"
    /\ at' = [at EXCEPT ![t] = "ready"]
    /\ UNCHANGED <<pool, fn, caller, accepted, due, runs>>

\* Mutant: a worker leaves as soon as the flag is set.
Exit_AtOnce(t) ==
    /\ at[t] = "ready" /\ shutdown_
    /\ at' = [at EXCEPT ![t] = "exited"]
    /\ UNCHANGED <<pool, fn, caller, accepted, due, runs>>

Exit(t) ==
    /\ at[t] = "ready" /\ jobs_ = <<>> /\ shutdown_
    /\ at' = [at EXCEPT ![t] = "exited"]
    /\ UNCHANGED <<pool, fn, caller, accepted, due, runs>>

\* fn() returns.
Return(t) ==
    /\ at[t] = "calling"
    /\ runs' = [runs EXCEPT ![fn[t]] = @ + 1]
    /\ at' = [at EXCEPT ![t] = "returned"]
    /\ UNCHANGED <<pool, fn, caller, accepted, due>>

\* Mutant: the counter goes down twice.
Release_Twice(t) ==
    /\ at[t] = "returned"
    /\ busyCount' = busyCount - 2
    /\ fn' = [fn EXCEPT ![t] = NoJob]
    /\ at' = [at EXCEPT ![t] = "ready"]
    /\ UNCHANGED <<jobs_, shutdown_, threads_, caller, accepted, due, runs>>

Release(t) ==
    /\ at[t] = "returned"
    /\ busyCount' = busyCount - 1
    /\ fn' = [fn EXCEPT ![t] = NoJob]
    /\ at' = [at EXCEPT ![t] = "ready"]
    /\ UNCHANGED <<jobs_, shutdown_, threads_, caller, accepted, due, runs>>

----------------------------------------------------------------------------
(* The owner. *)

\* shutdown() on its own (next is {}), or the one active(n) begins with.  A
\* second shutdown() "at a circle" returns at once.
Call(next) ==
    /\ owner = "idle" /\ calls < MaxCalls
    /\ calls' = calls + 1
    /\ roster' = next
    /\ owner' = IF ~shutdown_ THEN "set" ELSE IF next # {} THEN "start" ELSE "idle"
    /\ due' = IF shutdown_ THEN due ELSE accepted
    /\ UNCHANGED <<pool, worker, accepted, runs>>

SetFlag ==
    /\ owner = "set" /\ owner' = "notify"
    /\ shutdown_' = TRUE
    /\ UNCHANGED <<jobs_, busyCount, threads_, worker, roster, calls, accepted, due, runs>>

\* Mutant: notify_one instead of notify_all.
NotifyAll_One ==
    /\ owner = "notify" /\ owner' = "join"
    /\ \/ Waiting = {} /\ at' = at
       \/ \E t \in Waiting : at' = [at EXCEPT ![t] = "ready"]
    /\ UNCHANGED <<pool, fn, roster, calls, accepted, due, runs>>

NotifyAll ==
    /\ owner = "notify" /\ owner' = "join"
    /\ at' = [t \in Threads |-> IF t \in Waiting THEN "ready" ELSE at[t]]
    /\ UNCHANGED <<pool, fn, roster, calls, accepted, due, runs>>

\* The loop of joins ends when the last thread has exited.
Join ==
    /\ owner = "join" /\ owner' = "clear"
    /\ \A t \in threads_ : at[t] = "exited"
    /\ UNCHANGED <<pool, worker, roster, calls, accepted, due, runs>>

Clear ==
    /\ owner = "clear" /\ owner' = IF roster # {} THEN "start" ELSE "idle"
    /\ threads_' = {}
    /\ at' = [t \in Threads |-> "absent"]
    /\ UNCHANGED <<jobs_, shutdown_, busyCount, fn, roster, calls, accepted, due, runs>>

Start ==
    /\ owner = "start" /\ owner' = "idle"
    /\ shutdown_' = FALSE
    /\ threads_' = roster
    /\ at' = [t \in Threads |-> IF t \in roster THEN "ready" ELSE "absent"]
    /\ roster' = {}
    /\ UNCHANGED <<jobs_, busyCount, fn, calls, accepted, due, runs>>

Work(t) == Fetch(t) \/ Wait(t) \/ Exit(t) \/ Return(t) \/ Release(t)
Proceed == SetFlag \/ NotifyAll \/ Join \/ Clear \/ Start

Next ==
    \/ \E j \in Jobs : Enqueue(j)
    \/ \E t \in Threads : Work(t) \/ SpuriousWakeup(t)
    \/ \E next \in Rosters \cup {{}} : Call(next)
    \/ Proceed

Spec == Init /\ [][Next]_vars

\* The threads keep being scheduled and get the lock, jobs return, and the
\* owner goes on with what it has begun.  Nobody has to enqueue or to call.
Fairness == WF_vars(Proceed) /\ \A t \in Threads : WF_vars(Work(t))
FairSpec == Spec /\ Fairness

----------------------------------------------------------------------------
(* Correctness. *)

InQueue(j) == \E i \in DOMAIN jobs_ : jobs_[i] = j
HeldBy(j, t) == at[t] = "calling" /\ fn[t] = j

\* workerRunning()
workerRunning == busyCount + Len(jobs_)

\* Type invariant of the pool and of its callers.
TypeOK ==
    /\ jobs_ \in Seq(Jobs) /\ shutdown_ \in BOOLEAN /\ busyCount \in Nat
    /\ threads_ \subseteq Threads
    /\ at \in [Threads -> Place] /\ fn \in [Threads -> Jobs \cup {NoJob}]
    /\ owner \in Step /\ roster \in Rosters \cup {{}} /\ calls \in 0..MaxCalls
    /\ accepted \subseteq Jobs /\ due \subseteq accepted
    /\ runs \in [Jobs -> Nat]
    /\ \A t \in Threads : at[t] \in {"calling", "returned"} => fn[t] \in Jobs

\* A job is in the list, in the hands of one worker, or has returned, and in
\* one of these places only: none is lost and none runs twice, whatever
\* shutdowns and activations come between.
JobsConserved ==
    /\ IsInjective(jobs_)
    /\ \A j \in Jobs :
        /\ InQueue(j) => j \in accepted /\ runs[j] = 0
        /\ \A t \in Threads : HeldBy(j, t) =>
              /\ j \in accepted /\ runs[j] = 0 /\ ~InQueue(j)
              /\ \A u \in Threads : HeldBy(j, u) => t = u
        /\ runs[j] \in {0, 1} /\ (runs[j] = 1 => j \in accepted)
        /\ j \in accepted /\ runs[j] = 0 =>
              InQueue(j) \/ \E t \in Threads : HeldBy(j, t)

\* When shutdown() has returned, every job that was enqueued before it was
\* called has run to its end: the destructors of the stores rely on it.
ShutdownDrains ==
    shutdown_ /\ owner \in {"clear", "start", "idle"} => \A j \in due : runs[j] = 1

\* workerRunning() is 0 only when every job has returned: RestJobs() of the
\* timers, which is polled before a shutdown, relies on it.
IdleMeansDone ==
    workerRunning = 0 => \A j \in accepted : runs[j] = 1

\* Why they hold (the inductive invariant): threads that are not in the vector
\* do nothing, a thread exits only after the list was empty with the flag set,
\* and busyCount counts the threads that have taken a job.
Busy == {t \in Threads : at[t] \in {"calling", "returned"}}
ThreadsKnown == \A t \in Threads : t \in threads_ <=> at[t] # "absent"
BusyCounted  == busyCount = Cardinality(Busy)
OwnerInStep  ==
    /\ owner \in {"notify", "join", "clear", "start"} => shutdown_
    /\ owner = "set" => ~shutdown_
    /\ owner = "start" => threads_ = {} /\ roster # {}
    /\ owner = "idle" /\ shutdown_ => threads_ = {}
    /\ owner # "start" /\ ~(owner = "idle" /\ shutdown_) => threads_ # {}
    /\ owner = "clear" => \A t \in threads_ : at[t] = "exited"
ExitedDrained ==
    \A t \in Threads : at[t] = "exited" =>
        shutdown_ /\ \A j \in due : ~InQueue(j)
ClearedDrained ==
    shutdown_ /\ threads_ = {} => \A j \in due : runs[j] = 1
PoolInv ==
    /\ TypeOK /\ JobsConserved /\ ThreadsKnown /\ BusyCounted
    /\ OwnerInStep /\ ExitedDrained /\ ClearedDrained

\* A job that was enqueued runs in the end, unless the pool is shut down: no
\* notification is lost between the predicate and the wait.
EveryJobRuns ==
    \A j \in Jobs : j \in accepted ~> runs[j] = 1 \/ shutdown_

\* shutdown() returns: every worker sees the flag and leaves.
ShutdownReturns == owner = "set" ~> owner = "idle"
=============================================================================
