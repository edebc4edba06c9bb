------------------------------- MODULE Timers -------------------------------
(***************************************************************************)
(* TimerCaller and ConcTimerCaller: a list of timers in the order of their *)
(* times, a thread in run() that ticks, and, in a ConcTimerCaller, a pool  *)
(* whose workers call the timers.                                          *)
(*                                                                         *)
(* A step is a critical section of accesss_to_timers, or a part of one of  *)
(* the long ones: Tick(), which a TimerCaller leaves only when it has      *)
(* called the timers that are due, and RestJobs().  The mutex is           *)
(* recursive: a task called by Tick() may add timers.  The flag _shutdown  *)
(* is atomic and is set without the mutex.  The pool is abstracted to what *)
(* ThreadPool says of it.                                                  *)
(***************************************************************************)
EXTENDS Naturals, Sequences, SequencesExt, FiniteSets

CONSTANTS
    Timers,   \* the timers that are added, told apart
    When,     \* their first times
    Times,    \* how often each is to run (repeatation)
    Round,    \* the time between two runs
    End,      \* the timer of SetTerminationAtEnd
    Workers,  \* the threads of a ConcTimerCaller's pool
    NoTimer,  \* the job of a worker that has none
    MaxTime   \* bound on the clock

\* left: the runs that are left, this one included.
Timer == [id : Timers \cup {End}, when : Nat, left : Nat \ {0}]

ASSUME TimersAssumption ==
    /\ When \in [Timers -> Nat] /\ Times \in [Timers -> Nat \ {0}]
    /\ Round \in Nat /\ MaxTime \in Nat
    /\ End \notin Timers /\ NoTimer \notin Timer
    /\ IsFiniteSet(Workers)

VARIABLES
    pooled,    \* is this a ConcTimerCaller?
    now,       \* the clock
    shutdown_, \* the flag _shutdown
    timers,    \* the list, without the sentinel at its end
    lock,      \* who holds accesss_to_timers from one step to the next
    cursor,    \* Tick(): the position of its iterator
    ticker,    \* where the thread in run() is
    jobs,      \* the pool's list
    at, held,  \* per worker: where it is, and the timer it calls
    owner,     \* where the thread that ends all is
    size,      \* RestJobs(): timers.size() as it was read
    added,     \* the timers added so far, in this order
    runs,      \* how often each has run
    due,       \* the timers that were added when RestJobs() returned 0
    owed       \* how often each must have run before the end timer runs

ticking == <<lock, cursor, ticker>>
working == <<jobs, at, held>>
ending  == <<owner, size, due, owed>>
vars    == <<pooled, now, shutdown_, timers, ticking, working, ending, added, runs>>

\* After active(): the flag is not set.
Init ==
    /\ pooled \in BOOLEAN /\ now = 0 /\ shutdown_ = FALSE
    /\ timers = <<>>
    /\ lock = "free" /\ cursor = 1 /\ ticker = "asleep"
    /\ jobs = <<>>
    /\ at = [w \in Workers |-> "idle"] /\ held = [w \in Workers |-> NoTimer]
    /\ owner = "idle" /\ size = 0
    /\ added = <<>> /\ runs = [t \in Timers |-> 0]
    /\ due = {} /\ owed = [t \in Timers |-> 0]

Pass ==
    /\ now < MaxTime
    /\ now' = now + 1
    /\ UNCHANGED <<pooled, shutdown_, timers, ticking, working, ending, added, runs>>

----------------------------------------------------------------------------
(* AddTimer. *)

\* Mutant: before the first timer that is not earlier.
Place_NotEarlier(list, timer) ==
    CHOOSE i \in 1..Len(list) + 1 :
        /\ i <= Len(list) => list[i].when >= timer.when
        /\ \A j \in 1..i - 1 : list[j].when < timer.when

\* Before the first timer that is later; the sentinel is later than any.
Place(list, timer) ==
    CHOOSE i \in 1..Len(list) + 1 :
        /\ i <= Len(list) => list[i].when > timer.when
        /\ \A j \in 1..i - 1 : list[j].when <= timer.when

Added(list, timer) == InsertAt(list, Place(list, timer), timer)

\* Tick()'s iterator stays at its timer when one is inserted before it.
Moved(list, timer) == IF Place(list, timer) <= cursor THEN cursor + 1 ELSE cursor

New(t) == [id |-> t, when |-> When[t], left |-> Times[t]]

\* Mutant: the list has no sentinel, and the loop finds no place at its end.
Add_NoSentinel(t) ==
    /\ t \notin Range(added)
    /\ lock = "free"
    /\ added' = Append(added, t)
    /\ timers' = IF timers # <<>> /\ Place(timers, New(t)) = Len(timers) + 1
                 THEN timers ELSE Added(timers, New(t))
    /\ UNCHANGED <<pooled, now, shutdown_, ticking, working, ending, runs>>

\* By any thread; by a task that Tick() is calling, when it is a TimerCaller's.
Add(t) ==
    /\ t \notin Range(added)
    /\ lock = "free" \/ (ticker = "calling" /\ ~pooled)
    /\ added' = Append(added, t)
    /\ timers' = Added(timers, New(t))
    /\ cursor' = IF lock = "free" THEN cursor ELSE Moved(timers, New(t))
    /\ UNCHANGED <<pooled, now, shutdown_, lock, ticker, working, ending, runs>>

----------------------------------------------------------------------------
(* run() and Tick(). *)

TickBegin ==
    /\ ticker = "asleep" /\ ~shutdown_ /\ lock = "free"
    /\ ticker' = "looking" /\ lock' = "ticker" /\ cursor' = 1
    /\ UNCHANGED <<pooled, now, shutdown_, timers, working, ending, added, runs>>

RunEnds ==
    /\ ticker = "asleep" /\ shutdown_
    /\ ticker' = "done"
    /\ UNCHANGED <<pooled, now, shutdown_, timers, lock, cursor, working, ending, added, runs>>

Look ==
    /\ ticker = "looking"
    /\ IF cursor <= Len(timers) /\ timers[cursor].when <= now /\ ~shutdown_
       THEN ticker' = "calling" /\ lock' = lock
       ELSE ticker' = "asleep"  /\ lock' = "free"
    /\ UNCHANGED <<pooled, now, shutdown_, timers, cursor, working, ending, added, runs>>

Count(timer) ==
    runs' = IF timer.id \in Timers THEN [runs EXCEPT ![timer.id] = @ + 1] ELSE runs

\* The afterTask that SetRepeat installs adds the next run.
Next_(timer) == [timer EXCEPT !.when = @ + Round, !.left = @ - 1]
Repeated(list, timer) ==
    IF timer.left > 1 THEN Added(list, Next_(timer)) ELSE list

\* Mutant: Tick() does not erase the timer it has enqueued.
Enqueue_NoErase ==
    /\ ticker = "calling" /\ pooled
    /\ jobs' = Append(jobs, timers[cursor])
    /\ cursor' = cursor + 1
    /\ ticker' = "looking"
    /\ UNCHANGED <<pooled, now, shutdown_, timers, lock, at, held, ending, added, runs>>

\* ConcTimerCaller: the timer goes to the pool, which may have been shut down
\* since the flag was read.
Enqueue ==
    /\ ticker = "calling" /\ pooled
    /\ jobs' = Append(jobs, timers[cursor])
    /\ timers' = RemoveAt(timers, cursor)
    /\ ticker' = "looking"
    /\ UNCHANGED <<pooled, now, shutdown_, lock, cursor, at, held, ending, added, runs>>

\* TimerCaller: task and afterTask are called, then the timer is erased.
Call ==
    LET timer == timers[cursor]
    IN  /\ ticker = "calling" /\ ~pooled
        /\ Count(timer)
        /\ shutdown_' = (shutdown_ \/ timer.id = End)
        /\ timers' = Repeated(RemoveAt(timers, cursor), timer)
        /\ ticker' = "looking"
        /\ UNCHANGED <<pooled, now, lock, cursor, working, ending, added>>

----------------------------------------------------------------------------
(* A worker of the pool. *)

Fetch(w) ==
    /\ at[w] = "idle" /\ jobs # <<>>
    /\ held' = [held EXCEPT ![w] = Head(jobs)]
    /\ jobs' = Tail(jobs)
    /\ at' = [at EXCEPT ![w] = "task"]
    /\ UNCHANGED <<pooled, now, shutdown_, timers, ticking, ending, added, runs>>

RunTask(w) ==
    /\ at[w] = "task"
    /\ Count(held[w])
    /\ at' = [at EXCEPT ![w] = "after"]
    /\ UNCHANGED <<pooled, now, shutdown_, timers, ticking, jobs, held, ending, added>>

\* Mutant: a timer repeats once too often.
After_Again(w) ==
    /\ at[w] = "after" /\ lock = "free"
    /\ timers' = Added(timers, Next_(held[w]))
    /\ at' = [at EXCEPT ![w] = "release"]
    /\ UNCHANGED <<pooled, now, shutdown_, ticking, jobs, held, ending, added, runs>>

After(w) ==
    /\ at[w] = "after"
    /\ held[w].left > 1 => lock = "free"
    /\ timers' = Repeated(timers, held[w])
    /\ at' = [at EXCEPT ![w] = "release"]
    /\ UNCHANGED <<pooled, now, shutdown_, ticking, jobs, held, ending, added, runs>>

Release(w) ==
    /\ at[w] = "release"
    /\ at' = [at EXCEPT ![w] = "idle"]
    /\ held' = [held EXCEPT ![w] = NoTimer]
    /\ UNCHANGED <<pooled, now, shutdown_, timers, ticking, jobs, ending, added, runs>>

\* A worker leaves a pool that is shut down when the list is empty.
Exit(w) ==
    /\ at[w] = "idle" /\ jobs = <<>> /\ owner = "joining"
    /\ at' = [at EXCEPT ![w] = "gone"]
    /\ UNCHANGED <<pooled, now, shutdown_, timers, ticking, jobs, held, ending, added, runs>>

workerRunning == Len(jobs) + Cardinality({w \in Workers : held[w] # NoTimer})

----------------------------------------------------------------------------
(* The thread that ends all: it polls RestJobs(), shuts down, or, with a    *)
(* TimerCaller, calls SetTerminationAtEnd().                                *)

RestJobs ==
    /\ pooled /\ owner \in {"idle", "polled"} /\ lock = "free"
    /\ lock' = "owner" /\ owner' = "resting"
    /\ size' = Len(timers)
    /\ UNCHANGED <<pooled, now, shutdown_, timers, cursor, ticker, working, due, owed, added, runs>>

\* Mutant: the jobs of the pool do not count.
RestJobsReturns_TimersOnly ==
    /\ owner = "resting"
    /\ lock' = "free"
    /\ IF size = 0 THEN owner' = "polled" /\ due' = Range(added)
                   ELSE owner' = "idle" /\ due' = due
    /\ UNCHANGED <<pooled, now, shutdown_, timers, cursor, ticker, working, size, owed, added, runs>>

RestJobsReturns ==
    /\ owner = "resting"
    /\ lock' = "free"
    /\ IF size + workerRunning = 0 THEN owner' = "polled" /\ due' = Range(added)
                                   ELSE owner' = "idle" /\ due' = due
    /\ UNCHANGED <<pooled, now, shutdown_, timers, cursor, ticker, working, size, owed, added, runs>>

\* Mutant: shutdown() is called with accesss_to_timers held.
Shutdown_Locked ==
    /\ owner \in {"idle", "polled"} /\ lock = "free"
    /\ shutdown_' = TRUE /\ lock' = "owner"
    /\ owner' = IF pooled THEN "joining" ELSE "done"
    /\ UNCHANGED <<pooled, now, timers, cursor, ticker, working, size, due, owed, added, runs>>

Shutdown ==
    /\ owner \in {"idle", "polled"}
    /\ shutdown_' = TRUE
    /\ owner' = IF pooled THEN "joining" ELSE "done"
    /\ UNCHANGED <<pooled, now, timers, ticking, working, size, due, owed, added, runs>>

Join ==
    /\ owner = "joining" /\ \A w \in Workers : at[w] = "gone"
    /\ owner' = "done"
    /\ UNCHANGED <<pooled, now, shutdown_, timers, ticking, working, size, due, owed, added, runs>>

EndTimer == [id |-> End, when |-> timers[Len(timers)].when, left |-> 1]

SetTerminationAtEnd ==
    /\ ~pooled /\ owner \in {"idle", "polled"} /\ lock = "free"
    /\ IF timers = <<>>
       THEN shutdown_' = TRUE /\ owner' = "done" /\ UNCHANGED <<timers, owed>>
       ELSE /\ timers' = Added(timers, EndTimer)
            /\ owed' = [t \in Timers |-> runs[t] +
                           IF \E i \in DOMAIN timers : timers[i].id = t THEN 1 ELSE 0]
            /\ owner' = "ending" /\ shutdown_' = shutdown_
    /\ UNCHANGED <<pooled, now, ticking, working, size, due, added, runs>>

Tick    == TickBegin \/ Look \/ Enqueue \/ Call \/ RunEnds
Work(w) == Fetch(w) \/ RunTask(w) \/ After(w) \/ Release(w) \/ Exit(w)

Next ==
    \/ Pass
    \/ \E t \in Timers : Add(t)
    \/ Tick
    \/ \E w \in Workers : Work(w)
    \/ RestJobs \/ RestJobsReturns \/ Shutdown \/ Join \/ SetTerminationAtEnd

Spec == Init /\ [][Next]_vars

\* Time passes, threads keep being scheduled, tasks return, and a thread that
\* asks for the mutex again and again gets it (hence SF).  Nobody has to add,
\* to poll or to shut down.
Fairness ==
    /\ WF_vars(Pass) /\ SF_vars(Tick)
    /\ \A w \in Workers : SF_vars(Work(w))
    /\ WF_vars(RestJobsReturns \/ Join)
FairSpec == Spec /\ Fairness

----------------------------------------------------------------------------
(* Correctness. *)

\* Type invariant of the list, the pool and the callers.
TypeOK ==
    /\ pooled \in BOOLEAN /\ now \in 0..MaxTime /\ shutdown_ \in BOOLEAN
    /\ timers \in Seq(Timer) /\ jobs \in Seq(Timer)
    /\ lock \in {"free", "ticker", "owner"} /\ cursor \in 1..Len(timers) + 1
    /\ ticker \in {"asleep", "looking", "calling", "done"}
    /\ at \in [Workers -> {"idle", "task", "after", "release", "gone"}]
    /\ held \in [Workers -> Timer \cup {NoTimer}]
    /\ owner \in {"idle", "resting", "polled", "joining", "ending", "done"}
    /\ size \in Nat
    /\ added \in Seq(Timers) /\ due \subseteq Timers
    /\ runs \in [Timers -> Nat] /\ owed \in [Timers -> Nat]

\* The places where runs of t may be left, each with the number of them.
Left(t) ==
    {<<"list", i, timers[i].left>> : i \in {i \in DOMAIN timers : timers[i].id = t}}
    \cup {<<"pool", i, jobs[i].left>> : i \in {i \in DOMAIN jobs : jobs[i].id = t}}
    \cup {<<"task", w, held[w].left>> :
              w \in {w \in Workers : at[w] = "task" /\ held[w].id = t}}
    \cup {<<"after", w, held[w].left - 1>> :
              w \in {w \in Workers : at[w] = "after" /\ held[w].id = t /\ held[w].left > 1}}

\* A timer that was added is in one place, list, pool or worker, with the runs
\* that are left to it, until it has run as often as it is to: no run is lost
\* or doubled between the list, the pool and the repetition.
TimersConserved ==
    \A t \in Timers :
        IF t \notin Range(added) THEN Left(t) = {} /\ runs[t] = 0
        ELSE IF Left(t) = {} THEN runs[t] = Times[t]
        ELSE \E p \in Left(t) : Left(t) = {p} /\ p[3] + runs[t] = Times[t]

\* No run comes before its time, repetitions included.
NeverEarly ==
    \A t \in Timers : runs[t] > 0 => When[t] + (runs[t] - 1) * Round <= now

\* When RestJobs() has returned 0, every timer added before has done all its
\* runs: what polls it before a shutdown relies on that.
PolledIsDone == \A t \in due : runs[t] = Times[t]

\* The end timer shuts a TimerCaller down only after the timers that were in
\* the list have run.
EndComesLast ==
    owner = "ending" /\ shutdown_ => \A t \in Timers : runs[t] >= owed[t]

\* A TimerCaller calls timers of the same time in the order of their addition.
SameTimeInOrder ==
    \A i, j \in DOMAIN added :
        /\ ~pooled /\ i < j /\ When[added[i]] = When[added[j]]
        /\ runs[added[j]] > 0
        => runs[added[i]] > 0

\* What the sorted list and its cursor are for: no run comes early, none of a
\* timer of the same time overtakes, and the end comes last, whatever the tasks
\* add while the list is walked.
CalledInOrder == NeverEarly /\ SameTimeInOrder /\ EndComesLast

\* Every timer that was added does all its runs in the end, unless the caller
\* is shut down.
EveryTimerRuns ==
    \A t \in Timers :
        t \in Range(added) ~> shutdown_ \/ runs[t] = Times[t]

\* shutdown() returns, also while workers wait to add timers again.
ShutdownReturns == owner = "joining" ~> owner = "done"
=============================================================================
