-------------------------- MODULE ThreadPoolProofs --------------------------
(***************************************************************************)
(* Theorems about ThreadPool, for any jobs, any finite set of threads, any *)
(* rosters that are not empty and any number of shutdowns and activations. *)
(***************************************************************************)
EXTENDS ThreadPool, SequenceTheorems, FiniteSetTheorems, TLAPS

----------------------------------------------------------------------------
(* The list of jobs. *)

\* A job is in a list when some position holds it.
Holds(list, j) == \E i \in DOMAIN list : list[i] = j

\* push_back adds its job to the list, and keeps the list without repetition
\* when the job is not in it yet.
LEMMA AppendHolds ==
    ASSUME NEW S, NEW list \in Seq(S), NEW e \in S
    PROVE  /\ Append(list, e) \in Seq(S)
           /\ \A j : Holds(Append(list, e), j) <=> Holds(list, j) \/ j = e
           /\ IsInjective(list) /\ ~Holds(list, e) => IsInjective(Append(list, e))
<1>1. /\ Append(list, e) \in Seq(S)
      /\ Len(list) \in Nat
      /\ DOMAIN list = 1..Len(list)
      /\ DOMAIN Append(list, e) = 1..(Len(list) + 1)
      /\ \A i \in 1..Len(list) : Append(list, e)[i] = list[i]
      /\ Append(list, e)[Len(list) + 1] = e
    BY AppendProperties, LenProperties
<1>2. \A i \in 1..(Len(list) + 1) : i \in 1..Len(list) \/ i = Len(list) + 1
    BY <1>1
<1>3. ASSUME NEW j PROVE Holds(Append(list, e), j) <=> Holds(list, j) \/ j = e
  <2>1. ASSUME Holds(list, j) PROVE Holds(Append(list, e), j)
      BY <2>1, <1>1 DEF Holds
  <2>2. ASSUME j = e PROVE Holds(Append(list, e), j)
      BY <2>2, <1>1 DEF Holds
  <2>3. ASSUME Holds(Append(list, e), j) PROVE Holds(list, j) \/ j = e
      BY <2>3, <1>1, <1>2 DEF Holds
  <2> QED
      BY <2>1, <2>2, <2>3
<1>4. ASSUME IsInjective(list), ~Holds(list, e) PROVE IsInjective(Append(list, e))
    BY <1>4, <1>1, <1>2 DEF IsInjective, Holds
<1> QED
    BY <1>1, <1>3, <1>4

\* pop_front removes the first job and no other from a list without
\* repetition.
LEMMA TailHolds ==
    ASSUME NEW S, NEW list \in Seq(S), list # <<>>
    PROVE  /\ Tail(list) \in Seq(S) /\ Head(list) \in S
           /\ Holds(list, Head(list))
           /\ \A j : Holds(list, j) => j = Head(list) \/ Holds(Tail(list), j)
           /\ \A j : Holds(Tail(list), j) => Holds(list, j)
           /\ IsInjective(list) =>
                 IsInjective(Tail(list)) /\ ~Holds(Tail(list), Head(list))
<1>1. /\ Head(list) \in S /\ Head(list) = list[1]
      /\ Tail(list) \in Seq(S)
      /\ Len(list) \in Nat /\ Len(list) >= 1
      /\ DOMAIN list = 1..Len(list)
      /\ DOMAIN Tail(list) = 1..(Len(list) - 1)
      /\ \A i \in 1..(Len(list) - 1) : Tail(list)[i] = list[i + 1]
    BY HeadTailProperties, LenProperties, EmptySeq
<1>2. \A i \in 1..(Len(list) - 1) : i + 1 \in 1..Len(list) /\ i + 1 # 1
    BY <1>1
<1>3. \A i \in 1..Len(list) : i = 1 \/ (i - 1 \in 1..(Len(list) - 1) /\ (i - 1) + 1 = i)
    BY <1>1
<1>4. 1 \in 1..Len(list)
    BY <1>1
<1>5. Holds(list, Head(list))
    BY <1>1, <1>4 DEF Holds
<1>6. ASSUME NEW j, Holds(list, j) PROVE j = Head(list) \/ Holds(Tail(list), j)
  <2>1. PICK i \in 1..Len(list) : list[i] = j
      BY <1>6, <1>1 DEF Holds
  <2>2. CASE i = 1
      BY <2>1, <2>2, <1>1
  <2>3. CASE i # 1
    <3>1. i - 1 \in 1..(Len(list) - 1) /\ Tail(list)[i - 1] = list[(i - 1) + 1]
        BY <2>3, <1>1, <1>3
    <3> QED
        BY <3>1, <2>1, <1>1, <1>3, <2>3 DEF Holds
  <2> QED
      BY <2>2, <2>3
<1>7. ASSUME NEW j, Holds(Tail(list), j) PROVE Holds(list, j)
    BY <1>7, <1>1, <1>2 DEF Holds
<1>8. ASSUME IsInjective(list) PROVE IsInjective(Tail(list)) /\ ~Holds(Tail(list), Head(list))
  <2>1. \A i, k \in 1..Len(list) : list[i] = list[k] => i = k
      BY <1>8, <1>1 DEF IsInjective
  <2>2. ASSUME NEW i \in 1..(Len(list) - 1), NEW k \in 1..(Len(list) - 1),
               Tail(list)[i] = Tail(list)[k]
        PROVE  i = k
    <3>1. list[i + 1] = list[k + 1]
        BY <2>2, <1>1
    <3>2. i + 1 = k + 1
        BY <3>1, <2>1, <1>2
    <3> QED
        BY <3>2
  <2>3. ~Holds(Tail(list), Head(list))
    <3>1. ASSUME NEW i \in 1..(Len(list) - 1), Tail(list)[i] = Head(list) PROVE FALSE
      <4>1. list[i + 1] = list[1]
          BY <3>1, <1>1
      <4> QED
          BY <4>1, <2>1, <1>2, <1>4
    <3> QED
        BY <3>1, <1>1 DEF Holds
  <2> QED
      BY <2>2, <2>3, <1>1 DEF IsInjective
<1> QED
    BY <1>1, <1>5, <1>6, <1>7, <1>8

----------------------------------------------------------------------------
(* The inductive invariant. *)

\* It holds when the constructor has started the first threads.
LEMMA PoolInit == Init => PoolInv
<1> SUFFICES ASSUME Init PROVE PoolInv
    OBVIOUS
<1> USE PoolAssumption
<1>1. DOMAIN jobs_ = {}
    BY DEF Init
<1>2. threads_ \subseteq Threads /\ threads_ # {}
    BY DEF Init
<1>3. TypeOK
  <2>1. jobs_ \in Seq(Jobs) /\ threads_ \subseteq Threads
      BY <1>2, EmptySeq DEF Init
  <2>2. at \in [Threads -> Place] /\ \A t \in Threads : at[t] \in {"ready", "absent"}
      BY DEF Init, Place
  <2>3. fn \in [Threads -> Jobs \cup {NoJob}] /\ runs \in [Jobs -> Nat]
      BY DEF Init
  <2>4. busyCount \in Nat /\ calls \in 0..MaxCalls
      BY DEF Init
  <2>7. shutdown_ \in BOOLEAN
      BY Zenon DEF Init
  <2>5. /\ owner \in Step /\ roster \in Rosters \cup {{}}
        /\ accepted \subseteq Jobs /\ due \subseteq accepted
      BY DEF Init, Step
  <2>6. \A t \in Threads : at[t] \in {"calling", "returned"} => fn[t] \in Jobs
      BY <2>2
  <2> QED
      BY <2>1, <2>2, <2>3, <2>4, <2>5, <2>6, <2>7, Zenon DEF TypeOK
<1>4. JobsConserved
    BY <1>1 DEF Init, JobsConserved, IsInjective, InQueue, HeldBy
<1>5. ThreadsKnown
    BY <1>2 DEF Init, ThreadsKnown
<1>6. BusyCounted
  <2>1. Busy = {}
      BY <1>2 DEF Init, Busy
  <2> QED
      BY <2>1, FS_EmptySet DEF Init, BusyCounted
<1>7. OwnerInStep /\ ExitedDrained /\ ClearedDrained
    BY <1>2 DEF Init, OwnerInStep, ExitedDrained, ClearedDrained
<1> QED
    BY <1>3, <1>4, <1>5, <1>6, <1>7 DEF PoolInv

----------------------------------------------------------------------------
(* Every step keeps it. *)

\* enqueue() keeps the invariant.
LEMMA EnqueueStep ==
    ASSUME PoolInv, NEW j \in Jobs, Enqueue(j)
    PROVE  PoolInv'
<1> USE PoolAssumption DEF PoolInv
<1>1. PICK S \in SUBSET Threads :
          /\ S \subseteq Waiting
          /\ at' = [t \in Threads |-> IF t \in S THEN "ready" ELSE at[t]]
  <2>1. CASE at' = at
    <3>1. at' = [t \in Threads |-> IF t \in {} THEN "ready" ELSE at[t]]
        BY <2>1 DEF TypeOK
    <3> QED
        BY <3>1
  <2>2. CASE \E t \in Waiting : at' = [at EXCEPT ![t] = "ready"]
    <3>1. PICK u \in Waiting : at' = [at EXCEPT ![u] = "ready"]
        BY <2>2
    <3>2. at' = [t \in Threads |-> IF t \in {u} THEN "ready" ELSE at[t]]
        BY <3>1 DEF TypeOK
    <3>3. {u} \subseteq Waiting /\ {u} \in SUBSET Threads
        BY DEF Waiting
    <3> QED
        BY <3>2, <3>3
  <2> QED
      BY <2>1, <2>2 DEF Enqueue
<1>2. \A t \in Threads :
          /\ at'[t] = at[t] \/ (at[t] = "waiting" /\ at'[t] = "ready")
          /\ at'[t] \in {"calling", "returned", "exited", "absent"} <=>
                at[t] \in {"calling", "returned", "exited", "absent"}
          /\ at'[t] = "calling" <=> at[t] = "calling"
          /\ at'[t] = "exited" <=> at[t] = "exited"
          /\ at'[t] = "absent" <=> at[t] = "absent"
    BY <1>1 DEF Waiting, TypeOK
<1>3. /\ jobs_' \in Seq(Jobs)
      /\ \A x : InQueue(x)' <=> InQueue(x) \/ x = j
      /\ ~InQueue(j)
      /\ IsInjective(jobs_')
  <2>1. ~InQueue(j)
      BY DEF Enqueue, JobsConserved
  <2>2. jobs_ \in Seq(Jobs) /\ jobs_' = Append(jobs_, j) /\ IsInjective(jobs_)
      BY DEF Enqueue, TypeOK, JobsConserved
  <2>3. /\ \A x : InQueue(x) <=> Holds(jobs_, x)
        /\ \A x : InQueue(x)' <=> Holds(jobs_', x)
      BY DEF InQueue, Holds
  <2> QED
      BY <2>1, <2>2, <2>3, AppendHolds
<1>4. TypeOK'
    BY <1>1, <1>3 DEF Enqueue, TypeOK, caller, Place
<1>5. \A x, t : t \in Threads => (HeldBy(x, t)' <=> HeldBy(x, t))
    BY <1>2 DEF Enqueue, HeldBy
<1>6. runs[j] = 0 /\ \A t \in Threads : ~HeldBy(j, t)
    BY DEF Enqueue, JobsConserved, TypeOK
<1>7. JobsConserved'
    BY <1>3, <1>5, <1>6 DEF Enqueue, JobsConserved
<1>8. ThreadsKnown'
    BY <1>2 DEF Enqueue, ThreadsKnown
<1>9. BusyCounted'
  <2>1. Busy' = Busy
      BY <1>2 DEF Busy
  <2> QED
      BY <2>1 DEF Enqueue, BusyCounted
<1>10. OwnerInStep'
  <2>1. \A t \in threads_ : t \in Threads
      BY DEF TypeOK
  <2> QED
      BY <2>1, <1>2 DEF Enqueue, OwnerInStep, caller
<1>11. ExitedDrained'
  <2>1. j \notin due
      BY DEF Enqueue, TypeOK
  <2> QED
      BY <2>1, <1>2, <1>3 DEF Enqueue, ExitedDrained
<1>12. ClearedDrained'
    BY DEF Enqueue, ClearedDrained
<1> QED
    BY <1>4, <1>7, <1>8, <1>9, <1>10, <1>11, <1>12

\* A worker's critical section that takes a job keeps the invariant.
LEMMA FetchStep ==
    ASSUME PoolInv, NEW t \in Threads, Fetch(t)
    PROVE  PoolInv'
<1> USE PoolAssumption DEF PoolInv
<1>0. PICK h : h = Head(jobs_)
    OBVIOUS
<1>1. /\ h \in Jobs /\ jobs_' \in Seq(Jobs)
      /\ InQueue(h) /\ ~InQueue(h)'
      /\ \A x : InQueue(x) <=> x = h \/ InQueue(x)'
      /\ IsInjective(jobs_')
  <2>1. jobs_ \in Seq(Jobs) /\ jobs_ # <<>> /\ jobs_' = Tail(jobs_) /\ IsInjective(jobs_)
      BY DEF Fetch, TypeOK, JobsConserved
  <2>2. /\ \A x : InQueue(x) <=> Holds(jobs_, x)
        /\ \A x : InQueue(x)' <=> Holds(jobs_', x)
      BY DEF InQueue, Holds
  <2>3. /\ Tail(jobs_) \in Seq(Jobs) /\ h \in Jobs
        /\ Holds(jobs_, h)
        /\ \A j : Holds(jobs_, j) => j = h \/ Holds(Tail(jobs_), j)
        /\ \A j : Holds(Tail(jobs_), j) => Holds(jobs_, j)
        /\ IsInjective(Tail(jobs_)) /\ ~Holds(Tail(jobs_), h)
      BY <1>0, <2>1, TailHolds
  <2>4. \A x : InQueue(x) <=> x = h \/ InQueue(x)'
      BY <2>1, <2>2, <2>3, Zenon
  <2>5. InQueue(h) /\ ~InQueue(h)'
      BY <2>1, <2>2, <2>3, Zenon
  <2> QED
      BY <2>1, <2>3, <2>4, <2>5, Zenon
<1>2. /\ at[t] = "ready"
      /\ at' = [at EXCEPT ![t] = "calling"] /\ fn' = [fn EXCEPT ![t] = h]
      /\ at \in [Threads -> Place] /\ fn \in [Threads -> Jobs \cup {NoJob}]
    BY <1>0 DEF Fetch, TypeOK
<1>3. /\ at'[t] = "calling" /\ fn'[t] = h
      /\ \A u \in Threads \ {t} : at'[u] = at[u] /\ fn'[u] = fn[u]
    BY <1>2
<1>4. TypeOK'
  <2>1. at' \in [Threads -> Place] /\ fn' \in [Threads -> Jobs \cup {NoJob}]
      BY <1>1, <1>2 DEF Place
  <2>2. \A u \in Threads : at'[u] \in {"calling", "returned"} => fn'[u] \in Jobs
      BY <1>1, <1>3 DEF TypeOK
  <2>3. busyCount' \in Nat
      BY DEF Fetch, TypeOK
  <2> QED
      BY <1>1, <2>1, <2>2, <2>3, Zenon DEF Fetch, TypeOK, caller
<1>5. /\ HeldBy(h, t)'
      /\ \A j, u : u \in Threads /\ u # t => (HeldBy(j, u)' <=> HeldBy(j, u))
      /\ \A j : HeldBy(j, t)' => j = h
      /\ \A j : ~HeldBy(j, t)
  <2>1. HeldBy(h, t)'
      BY <1>3 DEF HeldBy
  <2>2. \A j : ~HeldBy(j, t) /\ (HeldBy(j, t)' => j = h)
      BY <1>2, <1>3 DEF HeldBy
  <2>3. ASSUME NEW j, NEW u \in Threads, u # t PROVE HeldBy(j, u)' <=> HeldBy(j, u)
      BY <2>3, <1>3 DEF HeldBy
  <2> QED
      BY <2>1, <2>2, <2>3
<1>6. h \in accepted /\ runs[h] = 0 /\ \A u \in Threads : ~HeldBy(h, u)
    BY <1>1 DEF JobsConserved
<1>7. JobsConserved'
  <2>1. UNCHANGED <<runs, accepted>>
      BY DEF Fetch
  <2>2. ASSUME NEW j \in Jobs, NEW u \in Threads, HeldBy(j, u)'
        PROVE  /\ j \in accepted /\ runs[j] = 0 /\ ~InQueue(j)'
               /\ \A x \in Threads : HeldBy(j, x)' => u = x
    <3>1. CASE u = t
        BY <3>1, <2>2, <1>1, <1>5, <1>6
    <3>2. CASE u # t
      <4>1. HeldBy(j, u) /\ j # h
          BY <3>2, <2>2, <1>5, <1>6
      <4> QED
          BY <4>1, <3>2, <1>1, <1>5 DEF JobsConserved
    <3> QED
        BY <3>1, <3>2
  <2>3. ASSUME NEW j \in Jobs, j \in accepted, runs[j] = 0
        PROVE  InQueue(j)' \/ \E u \in Threads : HeldBy(j, u)'
    <3>1. CASE j = h
        BY <3>1, <1>5
    <3>2. CASE j # h
      <4>1. InQueue(j) \/ \E u \in Threads : HeldBy(j, u)
          BY <2>3 DEF JobsConserved
      <4> QED
          BY <4>1, <3>2, <1>1, <1>5
    <3> QED
        BY <3>1, <3>2
  <2> QED
      BY <2>1, <2>2, <2>3, <1>1 DEF JobsConserved
<1>8. ThreadsKnown'
    BY <1>2, <1>3 DEF Fetch, ThreadsKnown
<1>9. BusyCounted'
  <2>1. Busy' = Busy \cup {t} /\ t \notin Busy
      BY <1>2, <1>3 DEF Busy
  <2>2. IsFiniteSet(Busy)
      BY FS_Subset DEF Busy
  <2>3. Cardinality(Busy \cup {t}) = Cardinality(Busy) + 1
      BY <2>1, <2>2, FS_AddElement
  <2> QED
      BY <2>1, <2>3 DEF Fetch, BusyCounted
<1>10. OwnerInStep'
  <2>1. t \in threads_
      BY <1>2 DEF ThreadsKnown
  <2>2. owner # "clear"
      BY <2>1, <1>2 DEF OwnerInStep
  <2> QED
      BY <2>1, <2>2 DEF Fetch, OwnerInStep, caller
<1>11. ExitedDrained'
    BY <1>1, <1>3 DEF Fetch, ExitedDrained
<1>12. ClearedDrained'
    BY DEF Fetch, ClearedDrained
<1> QED
    BY <1>4, <1>7, <1>8, <1>9, <1>10, <1>11, <1>12

\* A worker that only moves keeps the invariant: it waits, wakes up or exits.
LEMMA MoveStep ==
    ASSUME PoolInv, NEW t \in Threads, Wait(t) \/ SpuriousWakeup(t) \/ Exit(t)
    PROVE  PoolInv'
<1> USE PoolAssumption DEF PoolInv
<1>1. /\ UNCHANGED <<pool, fn, caller, accepted, due, runs>>
      /\ at \in [Threads -> Place] /\ at[t] \in {"ready", "waiting"}
      /\ \E p \in {"ready", "waiting", "exited"} :
            /\ at' = [at EXCEPT ![t] = p]
            /\ p = "exited" => Exit(t)
    BY DEF Wait, SpuriousWakeup, Exit, TypeOK
<1>2. /\ at'[t] \in {"ready", "waiting", "exited"}
      /\ at'[t] = "exited" => Exit(t)
      /\ \A u \in Threads \ {t} : at'[u] = at[u]
      /\ at' \in [Threads -> Place]
    BY <1>1 DEF Place
<1>3. TypeOK'
  <2>1. \A u \in Threads : at'[u] \in {"calling", "returned"} => fn'[u] \in Jobs
      BY <1>1, <1>2 DEF TypeOK
  <2> QED
      BY <2>1, <1>1, <1>2, Zenon DEF TypeOK, pool, caller
<1>4. \A j, u : u \in Threads => (HeldBy(j, u)' <=> HeldBy(j, u))
    BY <1>1, <1>2 DEF HeldBy
<1>5. \A j : InQueue(j)' <=> InQueue(j)
    BY <1>1 DEF InQueue, pool
<1>6. JobsConserved'
    BY <1>1, <1>4, <1>5 DEF JobsConserved, pool
<1>7. ThreadsKnown'
    BY <1>1, <1>2 DEF ThreadsKnown, pool
<1>8. BusyCounted'
  <2>1. Busy' = Busy
      BY <1>1, <1>2 DEF Busy
  <2> QED
      BY <2>1, <1>1 DEF BusyCounted, pool
<1>9. OwnerInStep'
  <2>1. t \in threads_
      BY <1>1 DEF ThreadsKnown
  <2>2. owner # "clear"
      BY <2>1, <1>1 DEF OwnerInStep
  <2> QED
      BY <2>1, <2>2, <1>1 DEF OwnerInStep, pool, caller
<1>10. ExitedDrained'
  <2>1. ASSUME Exit(t) PROVE shutdown_ /\ \A j : ~InQueue(j)
      BY <2>1, EmptySeq DEF Exit, InQueue
  <2> QED
      BY <2>1, <1>1, <1>2, <1>5 DEF ExitedDrained, pool
<1>11. ClearedDrained'
    BY <1>1 DEF ClearedDrained, pool
<1> QED
    BY <1>3, <1>6, <1>7, <1>8, <1>9, <1>10, <1>11

\* The return of a job keeps the invariant.
LEMMA ReturnStep ==
    ASSUME PoolInv, NEW t \in Threads, Return(t)
    PROVE  PoolInv'
<1> USE PoolAssumption DEF PoolInv
<1>0. PICK r : r = fn[t]
    OBVIOUS
<1>1. /\ at[t] = "calling" /\ r \in Jobs /\ runs[r] = 0 /\ r \in accepted
      /\ ~InQueue(r) /\ HeldBy(r, t) /\ \A u \in Threads : HeldBy(r, u) => u = t
  <2>1. HeldBy(r, t) /\ at[t] = "calling" /\ r \in Jobs
      BY <1>0 DEF Return, TypeOK, HeldBy
  <2> QED
      BY <2>1 DEF JobsConserved
<1>2. /\ at' = [at EXCEPT ![t] = "returned"] /\ runs' = [runs EXCEPT ![r] = runs[r] + 1]
      /\ at \in [Threads -> Place] /\ runs \in [Jobs -> Nat]
      /\ UNCHANGED <<pool, fn, caller, accepted, due>>
    BY <1>0 DEF Return, TypeOK
<1>3. /\ at'[t] = "returned" /\ at' \in [Threads -> Place]
      /\ \A u \in Threads \ {t} : at'[u] = at[u]
      /\ runs'[r] = 1 /\ runs' \in [Jobs -> Nat]
      /\ \A j \in Jobs \ {r} : runs'[j] = runs[j]
    BY <1>1, <1>2 DEF Place
<1>4. TypeOK'
  <2>1. \A u \in Threads : at'[u] \in {"calling", "returned"} => fn'[u] \in Jobs
      BY <1>0, <1>1, <1>2, <1>3 DEF TypeOK
  <2> QED
      BY <2>1, <1>2, <1>3, Zenon DEF TypeOK, pool, caller
<1>5. /\ \A j : ~HeldBy(j, t)'
      /\ \A j, u : u \in Threads /\ u # t => (HeldBy(j, u)' <=> HeldBy(j, u))
  <2>1. \A j : ~HeldBy(j, t)'
      BY <1>3 DEF HeldBy
  <2>2. ASSUME NEW j, NEW u \in Threads, u # t PROVE HeldBy(j, u)' <=> HeldBy(j, u)
      BY <2>2, <1>2, <1>3 DEF HeldBy
  <2> QED
      BY <2>1, <2>2
<1>6. \A j : InQueue(j)' <=> InQueue(j)
    BY <1>2 DEF InQueue, pool
<1>7. JobsConserved'
  <2>1. IsInjective(jobs_')
      BY <1>2 DEF pool, JobsConserved
  <2>2. ASSUME NEW j \in Jobs, NEW u \in Threads, HeldBy(j, u)'
        PROVE  /\ j \in accepted' /\ runs'[j] = 0 /\ ~InQueue(j)'
               /\ \A x \in Threads : HeldBy(j, x)' => u = x
    <3>1. u # t /\ HeldBy(j, u) /\ j # r
        BY <2>2, <1>1, <1>5
    <3> QED
        BY <3>1, <1>2, <1>3, <1>5, <1>6 DEF JobsConserved
  <2>3. ASSUME NEW j \in Jobs
        PROVE  /\ InQueue(j)' => j \in accepted' /\ runs'[j] = 0
               /\ runs'[j] \in {0, 1} /\ (runs'[j] = 1 => j \in accepted')
               /\ j \in accepted' /\ runs'[j] = 0 =>
                     InQueue(j)' \/ \E u \in Threads : HeldBy(j, u)'
    <3>1. CASE j = r
        BY <3>1, <1>1, <1>2, <1>3, <1>6
    <3>2. CASE j # r
      <4>1. \A u \in Threads : HeldBy(j, u) => u # t
          BY <3>2, <1>0 DEF HeldBy
      <4> QED
          BY <4>1, <3>2, <1>2, <1>3, <1>5, <1>6 DEF JobsConserved
    <3> QED
        BY <3>1, <3>2
  <2> QED
      BY <2>1, <2>2, <2>3 DEF JobsConserved
<1>8. ThreadsKnown'
    BY <1>1, <1>2, <1>3 DEF ThreadsKnown, pool
<1>9. BusyCounted'
  <2>1. Busy' = Busy
      BY <1>1, <1>3 DEF Busy
  <2> QED
      BY <2>1, <1>2 DEF BusyCounted, pool
<1>10. OwnerInStep'
  <2>1. t \in threads_
      BY <1>1 DEF ThreadsKnown
  <2>2. owner # "clear"
      BY <2>1, <1>1 DEF OwnerInStep
  <2> QED
      BY <2>1, <2>2, <1>2 DEF OwnerInStep, pool, caller
<1>11. ExitedDrained'
    BY <1>2, <1>3, <1>6 DEF ExitedDrained, pool
<1>12. ClearedDrained'
  <2>1. \A j \in due : runs[j] = 1 => runs'[j] = 1
      BY <1>1, <1>3 DEF TypeOK
  <2> QED
      BY <2>1, <1>2 DEF ClearedDrained, pool
<1> QED
    BY <1>4, <1>7, <1>8, <1>9, <1>10, <1>11, <1>12

\* busyCount-- keeps the invariant.
LEMMA ReleaseStep ==
    ASSUME PoolInv, NEW t \in Threads, Release(t)
    PROVE  PoolInv'
<1> USE PoolAssumption DEF PoolInv
<1>1. /\ at[t] = "returned"
      /\ at' = [at EXCEPT ![t] = "ready"] /\ fn' = [fn EXCEPT ![t] = NoJob]
      /\ at \in [Threads -> Place] /\ fn \in [Threads -> Jobs \cup {NoJob}]
      /\ UNCHANGED <<jobs_, shutdown_, threads_, caller, accepted, due, runs>>
    BY DEF Release, TypeOK
<1>2. /\ at'[t] = "ready" /\ at' \in [Threads -> Place]
      /\ \A u \in Threads \ {t} : at'[u] = at[u] /\ fn'[u] = fn[u]
      /\ fn' \in [Threads -> Jobs \cup {NoJob}]
    BY <1>1 DEF Place
<1>3. busyCount' \in Nat /\ busyCount' = Cardinality(Busy')
  <2>1. Busy' = Busy \ {t} /\ t \in Busy
      BY <1>1, <1>2 DEF Busy
  <2>2. IsFiniteSet(Busy)
      BY FS_Subset DEF Busy
  <2>3. Cardinality(Busy \ {t}) = Cardinality(Busy) - 1 /\ IsFiniteSet(Busy \ {t})
      BY <2>1, <2>2, FS_RemoveElement
  <2>4. Cardinality(Busy \ {t}) \in Nat
      BY <2>3, FS_CardinalityType
  <2> QED
      BY <2>1, <2>3, <2>4 DEF Release, BusyCounted
<1>4. TypeOK'
  <2>1. \A u \in Threads : at'[u] \in {"calling", "returned"} => fn'[u] \in Jobs
      BY <1>2 DEF TypeOK
  <2> QED
      BY <2>1, <1>1, <1>2, <1>3, Zenon DEF TypeOK, caller
<1>5. \A j, u : u \in Threads => (HeldBy(j, u)' <=> HeldBy(j, u))
  <2>1. ASSUME NEW j, NEW u \in Threads PROVE HeldBy(j, u)' <=> HeldBy(j, u)
    <3>1. CASE u = t
        BY <3>1, <1>1, <1>2 DEF HeldBy
    <3>2. CASE u # t
        BY <3>2, <1>2 DEF HeldBy
    <3> QED
        BY <3>1, <3>2
  <2> QED
      BY <2>1
<1>6. \A j : InQueue(j)' <=> InQueue(j)
    BY <1>1 DEF InQueue
<1>7. JobsConserved'
    BY <1>1, <1>5, <1>6 DEF JobsConserved
<1>8. ThreadsKnown' /\ BusyCounted'
    BY <1>1, <1>2, <1>3 DEF ThreadsKnown, BusyCounted
<1>9. OwnerInStep'
  <2>1. t \in threads_
      BY <1>1 DEF ThreadsKnown
  <2>2. owner # "clear"
      BY <2>1, <1>1 DEF OwnerInStep
  <2> QED
      BY <2>1, <2>2, <1>1 DEF OwnerInStep, caller
<1>10. ExitedDrained' /\ ClearedDrained'
    BY <1>1, <1>2, <1>6 DEF ExitedDrained, ClearedDrained
<1> QED
    BY <1>4, <1>7, <1>8, <1>9, <1>10

\* When all threads of the pool have exited, what was due has run: it is not in
\* the list any more, and nobody holds it.
LEMMA ExitedMeansDone ==
    ASSUME PoolInv, threads_ # {}, \A t \in threads_ : at[t] = "exited"
    PROVE  \A j \in due : runs[j] = 1
<1> USE DEF PoolInv
<1>1. PICK t \in threads_ : t \in Threads /\ at[t] = "exited"
    BY DEF TypeOK
<1>2. \A j \in due : ~InQueue(j)
    BY <1>1 DEF ExitedDrained
<1>3. \A j, u : u \in Threads => ~HeldBy(j, u)
    BY DEF HeldBy, ThreadsKnown
<1> QED
    BY <1>2, <1>3 DEF JobsConserved, TypeOK

\* A step of the owner that touches neither the list nor a running job keeps
\* the jobs where they are.
LEMMA JobsUntouched ==
    ASSUME JobsConserved, UNCHANGED <<jobs_, fn, accepted, runs>>,
           \A t \in Threads : at'[t] = "calling" <=> at[t] = "calling"
    PROVE  JobsConserved'
<1>1. \A j, t : t \in Threads => (HeldBy(j, t)' <=> HeldBy(j, t))
    BY DEF HeldBy
<1>2. \A j : InQueue(j)' <=> InQueue(j)
    BY DEF InQueue
<1> QED
    BY <1>1, <1>2 DEF JobsConserved

\* The call of shutdown() or active() keeps the invariant.
LEMMA CallStep ==
    ASSUME PoolInv, NEW next \in Rosters \cup {{}}, Call(next)
    PROVE  PoolInv'
<1> USE PoolAssumption DEF PoolInv
<1>1. UNCHANGED <<pool, worker, accepted, runs>> /\ owner = "idle" /\ roster' = next
    BY DEF Call
<1>2. due' = IF shutdown_ THEN due ELSE accepted
    BY DEF Call
<1>3. owner' = IF ~shutdown_ THEN "set" ELSE IF next # {} THEN "start" ELSE "idle"
    BY DEF Call
<1>4. TypeOK'
  <2>1. calls' \in 0..MaxCalls
      BY DEF Call, TypeOK
  <2>2. owner' \in Step /\ due' \subseteq accepted
      BY <1>2, <1>3 DEF Step, TypeOK
  <2> QED
      BY <2>1, <2>2, <1>1, Zenon DEF TypeOK, pool, worker
<1>5. JobsConserved'
    BY <1>1, JobsUntouched DEF pool, worker
<1>6. ThreadsKnown' /\ BusyCounted'
    BY <1>1 DEF ThreadsKnown, BusyCounted, Busy, pool, worker
<1>7. OwnerInStep'
  <2>1. CASE ~shutdown_
      BY <2>1, <1>1, <1>3 DEF OwnerInStep, pool, worker
  <2>2. CASE shutdown_
      BY <2>2, <1>1, <1>3 DEF OwnerInStep, pool, worker
  <2> QED
      BY <2>1, <2>2
<1>8. ExitedDrained'
    BY <1>1, <1>2 DEF ExitedDrained, InQueue, pool, worker
<1>9. ClearedDrained'
    BY <1>1, <1>2 DEF ClearedDrained, pool
<1> QED
    BY <1>4, <1>5, <1>6, <1>7, <1>8, <1>9

\* The rest of shutdown() and active() keeps the invariant.
LEMMA ProceedStep ==
    ASSUME PoolInv, Proceed
    PROVE  PoolInv'
<1> USE PoolAssumption DEF PoolInv
<1>1. CASE SetFlag
  <2>1. shutdown_' /\ shutdown_' \in BOOLEAN /\ owner' = "notify" /\ owner = "set"
      BY <1>1, Zenon DEF SetFlag
  <2>2. UNCHANGED <<jobs_, busyCount, threads_, worker, roster, calls, accepted, due, runs>>
      BY <1>1 DEF SetFlag
  <2>3. TypeOK'
    <3>1. owner' \in Step
        BY <2>1 DEF Step
    <3> QED
        BY <3>1, <2>1, <2>2, Zenon DEF TypeOK, worker
  <2>4. JobsConserved'
      BY <2>2, JobsUntouched DEF worker
  <2>5. ThreadsKnown' /\ BusyCounted'
      BY <2>2 DEF ThreadsKnown, BusyCounted, Busy, worker
  <2>6. threads_ # {}
      BY <2>1 DEF OwnerInStep
  <2>7. OwnerInStep'
      BY <2>1, <2>2, <2>6 DEF OwnerInStep, worker
  <2>8. ExitedDrained' /\ ClearedDrained'
      BY <2>1, <2>2, <2>6 DEF ExitedDrained, ClearedDrained, InQueue, worker
  <2> QED
      BY <2>3, <2>4, <2>5, <2>7, <2>8
<1>2. CASE NotifyAll
  <2>1. /\ UNCHANGED <<pool, fn, roster, calls, accepted, due, runs>>
        /\ owner = "notify" /\ owner' = "join"
        /\ at' = [t \in Threads |-> IF t \in Waiting THEN "ready" ELSE at[t]]
      BY <1>2 DEF NotifyAll
  <2>2. /\ at' \in [Threads -> Place]
        /\ \A t \in Threads :
              at'[t] = at[t] \/ (at[t] = "waiting" /\ at'[t] = "ready")
      BY <2>1 DEF Waiting, TypeOK, Place
  <2>3. TypeOK'
    <3>1. owner' \in Step
        BY <2>1 DEF Step
    <3>2. \A t \in Threads : at'[t] \in {"calling", "returned"} => fn'[t] \in Jobs
        BY <2>1, <2>2 DEF TypeOK
    <3> QED
        BY <3>1, <3>2, <2>1, <2>2, Zenon DEF TypeOK, pool
  <2>4. JobsConserved'
      BY <2>1, <2>2, JobsUntouched DEF pool
  <2>5. ThreadsKnown' /\ BusyCounted'
    <3>1. Busy' = Busy
        BY <2>2 DEF Busy
    <3> QED
        BY <3>1, <2>1, <2>2 DEF ThreadsKnown, BusyCounted, pool
  <2>6. OwnerInStep'
      BY <2>1 DEF OwnerInStep, pool
  <2>7. ExitedDrained' /\ ClearedDrained'
      BY <2>1, <2>2 DEF ExitedDrained, ClearedDrained, InQueue, pool
  <2> QED
      BY <2>3, <2>4, <2>5, <2>6, <2>7
<1>3. CASE Join
  <2>1. /\ UNCHANGED <<pool, worker, roster, calls, accepted, due, runs>>
        /\ owner = "join" /\ owner' = "clear"
        /\ \A t \in threads_ : at[t] = "exited"
      BY <1>3 DEF Join
  <2>2. TypeOK'
    <3>1. owner' \in Step
        BY <2>1 DEF Step
    <3> QED
        BY <3>1, <2>1, Zenon DEF TypeOK, pool, worker
  <2>3. JobsConserved'
      BY <2>1, JobsUntouched DEF pool, worker
  <2>4. ThreadsKnown' /\ BusyCounted'
      BY <2>1 DEF ThreadsKnown, BusyCounted, Busy, pool, worker
  <2>5. OwnerInStep'
      BY <2>1 DEF OwnerInStep, pool, worker
  <2>6. ExitedDrained' /\ ClearedDrained'
      BY <2>1 DEF ExitedDrained, ClearedDrained, InQueue, pool, worker
  <2> QED
      BY <2>2, <2>3, <2>4, <2>5, <2>6
<1>4. CASE Clear
  <2>1. /\ UNCHANGED <<jobs_, shutdown_, busyCount, fn, roster, calls, accepted, due, runs>>
        /\ owner = "clear" /\ owner' = (IF roster # {} THEN "start" ELSE "idle")
        /\ threads_' = {} /\ at' = [t \in Threads |-> "absent"]
      BY <1>4 DEF Clear
  <2>2. /\ shutdown_ /\ threads_ # {} /\ \A t \in threads_ : at[t] = "exited"
      BY <2>1 DEF OwnerInStep
  <2>3. \A t \in Threads : at[t] \in {"exited", "absent"} /\ at'[t] = "absent"
      BY <2>1, <2>2 DEF ThreadsKnown
  <2>4. TypeOK'
    <3>1. owner' \in Step /\ at' \in [Threads -> Place] /\ threads_' \subseteq Threads
        BY <2>1 DEF Step, Place
    <3>2. \A t \in Threads : at'[t] \in {"calling", "returned"} => fn'[t] \in Jobs
        BY <2>3
    <3> QED
        BY <3>1, <3>2, <2>1, Zenon DEF TypeOK
  <2>5. JobsConserved'
      BY <2>1, <2>3, JobsUntouched
  <2>6. ThreadsKnown' /\ BusyCounted'
    <3>1. Busy' = Busy
        BY <2>3 DEF Busy
    <3> QED
        BY <3>1, <2>1, <2>3 DEF ThreadsKnown, BusyCounted
  <2>7. OwnerInStep'
      BY <2>1, <2>2 DEF OwnerInStep
  <2>8. ExitedDrained'
      BY <2>3 DEF ExitedDrained
  <2>9. ClearedDrained'
      BY <2>1, <2>2, ExitedMeansDone DEF ClearedDrained
  <2> QED
      BY <2>4, <2>5, <2>6, <2>7, <2>8, <2>9
<1>5. CASE Start
  <2>1. /\ UNCHANGED <<jobs_, busyCount, fn, calls, accepted, due, runs>>
        /\ owner = "start" /\ owner' = "idle" /\ threads_' = roster /\ roster' = {}
        /\ at' = [t \in Threads |-> IF t \in roster THEN "ready" ELSE "absent"]
      BY <1>5 DEF Start
  <2>2. ~shutdown_' /\ shutdown_' \in BOOLEAN
      BY <1>5, Zenon DEF Start
  <2>3. roster # {} /\ threads_ = {} /\ roster \subseteq Threads
      BY <2>1 DEF OwnerInStep, TypeOK
  <2>4. \A t \in Threads : /\ at[t] = "absent"
                           /\ at'[t] = (IF t \in roster THEN "ready" ELSE "absent")
      BY <2>1, <2>3 DEF ThreadsKnown
  <2>5. TypeOK'
    <3>1. owner' \in Step /\ at' \in [Threads -> Place] /\ threads_' \subseteq Threads
        BY <2>1, <2>3 DEF Step, Place
    <3>2. \A t \in Threads : at'[t] \in {"calling", "returned"} => fn'[t] \in Jobs
        BY <2>4
    <3>3. roster' \in Rosters \cup {{}}
        BY <2>1
    <3> QED
        BY <3>1, <3>2, <3>3, <2>1, <2>2, Zenon DEF TypeOK
  <2>6. JobsConserved'
      BY <2>1, <2>4, JobsUntouched
  <2>7. ThreadsKnown' /\ BusyCounted'
    <3>1. Busy' = Busy
        BY <2>4 DEF Busy
    <3> QED
        BY <3>1, <2>1, <2>4 DEF ThreadsKnown, BusyCounted
  <2>8. OwnerInStep'
      BY <2>1, <2>2, <2>3 DEF OwnerInStep
  <2>9. ExitedDrained' /\ ClearedDrained'
      BY <2>2, <2>4 DEF ExitedDrained, ClearedDrained
  <2> QED
      BY <2>5, <2>6, <2>7, <2>8, <2>9
<1> QED
    BY <1>1, <1>2, <1>3, <1>4, <1>5 DEF Proceed

\* A step that changes nothing keeps the invariant.
LEMMA StutterStep == PoolInv /\ UNCHANGED vars => PoolInv'
<1> SUFFICES ASSUME PoolInv, UNCHANGED vars PROVE PoolInv'
    OBVIOUS
<1> USE DEF vars, pool, worker, caller, PoolInv
<1>1. TypeOK'
    BY Zenon DEF TypeOK
<1>2. JobsConserved'
    BY JobsUntouched
<1> QED
    BY <1>1, <1>2 DEF ThreadsKnown, BusyCounted, Busy, OwnerInStep, ExitedDrained,
       ClearedDrained, InQueue

----------------------------------------------------------------------------
(* The theorems. *)

\* The inductive invariant of the pool.
THEOREM PoolInvariant == Spec => []PoolInv
<1>1. ASSUME PoolInv, [Next]_vars PROVE PoolInv'
  <2>1. CASE \E j \in Jobs : Enqueue(j)
      BY <1>1, <2>1, EnqueueStep
  <2>2. CASE \E t \in Threads : Work(t) \/ SpuriousWakeup(t)
      BY <1>1, <2>2, FetchStep, MoveStep, ReturnStep, ReleaseStep DEF Work
  <2>3. CASE \E next \in Rosters \cup {{}} : Call(next)
      BY <1>1, <2>3, CallStep
  <2>4. CASE Proceed
      BY <1>1, <2>4, ProceedStep
  <2>5. CASE UNCHANGED vars
      BY <1>1, <2>5, StutterStep
  <2> QED
      BY <1>1, <2>1, <2>2, <2>3, <2>4, <2>5 DEF Next
<1> QED
    BY <1>1, PoolInit, PTL DEF Spec

\* Type correctness of the pool, its workers and its callers.
THEOREM PoolTypeCorrect == Spec => []TypeOK
<1>1. PoolInv => TypeOK
    BY DEF PoolInv
<1> QED
    BY <1>1, PoolInvariant, PTL

\* No job is lost and none runs twice, for any number of threads, jobs,
\* shutdowns and activations.
THEOREM JobsAlwaysConserved == Spec => []JobsConserved
<1>1. PoolInv => JobsConserved
    BY DEF PoolInv
<1> QED
    BY <1>1, PoolInvariant, PTL

\* A shutdown() that has returned leaves no job behind that was enqueued before
\* it was called, whatever is enqueued meanwhile.
THEOREM ShutdownAlwaysDrains == Spec => []ShutdownDrains
<1>1. PoolInv => ShutdownDrains
  <2> SUFFICES ASSUME PoolInv, shutdown_, owner \in {"clear", "start", "idle"}
               PROVE  \A j \in due : runs[j] = 1
      BY DEF ShutdownDrains
  <2>1. CASE owner = "clear"
    <3>1. threads_ # {} /\ \A t \in threads_ : at[t] = "exited"
        BY <2>1 DEF PoolInv, OwnerInStep
    <3> QED
        BY <3>1, ExitedMeansDone
  <2>2. CASE owner \in {"start", "idle"}
    <3>1. threads_ = {}
        BY <2>2 DEF PoolInv, OwnerInStep
    <3> QED
        BY <3>1 DEF PoolInv, ClearedDrained
  <2> QED
      BY <2>1, <2>2
<1> QED
    BY <1>1, PoolInvariant, PTL

\* workerRunning() returns 0 only when every job enqueued so far has returned.
THEOREM IdleAlwaysMeansDone == Spec => []IdleMeansDone
<1>1. PoolInv => IdleMeansDone
  <2> SUFFICES ASSUME PoolInv, workerRunning = 0
               PROVE  \A j \in accepted : runs[j] = 1
      BY DEF IdleMeansDone
  <2> USE PoolAssumption DEF PoolInv
  <2>1. busyCount = 0 /\ Len(jobs_) = 0
      BY LenProperties DEF workerRunning, TypeOK
  <2>2. \A j : ~InQueue(j)
      BY <2>1, LenProperties DEF InQueue, TypeOK
  <2>3. Busy = {}
    <3>1. IsFiniteSet(Busy)
        BY FS_Subset DEF Busy
    <3> QED
        BY <2>1, <3>1, FS_EmptySet DEF BusyCounted
  <2>4. \A j, t : t \in Threads => ~HeldBy(j, t)
      BY <2>3 DEF HeldBy, Busy
  <2> QED
      BY <2>2, <2>4 DEF JobsConserved, TypeOK
<1> QED
    BY <1>1, PoolInvariant, PTL
=============================================================================
