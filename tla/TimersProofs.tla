---------------------------- MODULE TimersProofs ----------------------------
(***************************************************************************)
(* Theorems about Timers, for every value of its constants: any timers,    *)
(* times, repetitions and workers, tasks that add timers while the list is *)
(* walked, and a shutdown at any time.                                     *)
(***************************************************************************)
EXTENDS Timers, ListLemmas

----------------------------------------------------------------------------
(* The inductive invariant. *)

Walking == ticker \in {"looking", "calling"}

\* The mutex, the thread that has it, and what that thread has seen.
LockInv ==
    /\ lock = "ticker" <=> Walking
    /\ lock = "owner" <=> owner = "resting"
    /\ owner = "resting" => size = Len(timers)
    /\ ticker = "calling" => cursor \in DOMAIN timers /\ timers[cursor].when <= now
    /\ owner \in {"resting", "joining"} => pooled
    /\ owner = "ending" => ~pooled

\* Workers hold timers where they need them, and a TimerCaller has none.
WorkersInv ==
    /\ \A w \in Workers : held[w] = NoTimer <=> at[w] \in {"idle", "gone"}
    /\ ~pooled => jobs = <<>> /\ \A w \in Workers : held[w] = NoTimer

Listed == Range(timers)
Pooled == Range(jobs)
Carries(w) == at[w] = "task" \/ (at[w] = "after" /\ held[w].left > 1)

Somewhere(t) ==
    \/ \E x \in Listed \cup Pooled : x.id = t
    \/ \E w \in Workers : Carries(w) /\ held[w].id = t

\* A timer is in one place only, the end timer in a list that is ending.
Distinct(list) == \A i, j \in DOMAIN list : list[i].id = list[j].id => i = j
ApartInv ==
    /\ Distinct(timers) /\ Distinct(jobs)
    /\ \A x \in Listed, y \in Pooled : x.id # y.id
    /\ \A w \in Workers : Carries(w) =>
          /\ \A x \in Listed \cup Pooled : x.id # held[w].id
          /\ \A v \in Workers : Carries(v) /\ held[v].id = held[w].id => v = w
    /\ Somewhere(End) => owner = "ending"

\* What a timer's entry says of the runs that are left and of the next one.
Owes(x) ==
    x.id \in Timers =>
        /\ x.id \in Range(added)
        /\ x.left + runs[x.id] = Times[x.id]
        /\ x.when = When[x.id] + runs[x.id] * Round
OwesInv ==
    /\ \A x \in Listed \cup Pooled : Owes(x)
    /\ \A w \in Workers : Carries(w) =>
          Owes(IF at[w] = "task" THEN held[w] ELSE Next_(held[w]))

\* A timer that is nowhere has done all its runs, or was never added.
DoneInv ==
    \A t \in Timers :
        IF t \in Range(added) THEN Somewhere(t) \/ runs[t] = Times[t] ELSE runs[t] = 0

\* Timers in the pool and tasks are due.
DueInv ==
    /\ \A x \in Pooled : x.when <= now
    /\ \A w \in Workers : at[w] = "task" => held[w].when <= now

ConservedInv == ApartInv /\ OwesInv /\ DoneInv /\ DueInv /\ NeverEarly /\ PolledIsDone

\* The list is sorted.  What Tick() has passed was added while it walked, for
\* times before those of all the timers that are left.
Sorted(list) == \A i, j \in DOMAIN list : i <= j => list[i].when <= list[j].when
Passed(list, c) ==
    \A i, j \in DOMAIN list : i < c /\ c <= j => list[i].when < list[j].when
SortedInv == Sorted(timers) /\ (Walking => Passed(timers, cursor))

\* Timers of the same time that have not run yet are in the order of their
\* addition.
InOrder(list, t, u) ==
    \A p, q \in DOMAIN list : list[p].id = t /\ list[q].id = u => p < q
FirstRuns ==
    ~pooled =>
        \A i, j \in DOMAIN added :
            i < j /\ When[added[i]] = When[added[j]] /\ runs[added[i]] = 0 =>
                runs[added[j]] = 0 /\ InOrder(timers, added[i], added[j])

\* While the end timer waits, what has to run before it comes before it, and
\* Tick() has not passed it.
ComesBeforeEnd(t) ==
    /\ ~shutdown_ /\ owed[t] = runs[t] + 1
    /\ \E p, q \in DOMAIN timers :
          /\ timers[p].id = t /\ timers[q].id = End /\ p < q
          /\ Walking => cursor <= p
EndInv ==
    /\ owner \in {"idle", "resting", "polled"} => ~shutdown_
    /\ owner = "ending" => \A t \in Timers : runs[t] >= owed[t] \/ ComesBeforeEnd(t)

CallInv == SortedInv /\ FirstRuns /\ EndInv

AddedOnce == \A i, j \in DOMAIN added : added[i] = added[j] => i = j

----------------------------------------------------------------------------
(* Lists of timers. *)

LEMMA TimerFields ==
    ASSUME NEW x \in Timer
    PROVE  /\ x.id \in Timers \cup {End} /\ x.when \in Nat /\ x.left \in Nat \ {0}
           /\ x # NoTimer
BY TimersAssumption DEF Timer

LEMMA ListFields ==
    ASSUME NEW list \in Seq(Timer)
    PROVE  /\ DOMAIN list = 1..Len(list) /\ Len(list) \in Nat
           /\ \A i \in DOMAIN list :
                 /\ list[i] \in Timer /\ list[i].id \in Timers \cup {End}
                 /\ list[i].when \in Nat /\ list[i].left \in Nat \ {0}
<1>1. DOMAIN list = 1..Len(list) /\ Len(list) \in Nat
    BY LenProperties
<1>2. \A i \in DOMAIN list : list[i] \in Timer
    BY <1>1, ElementOfSeq
<1> QED
    BY <1>1, <1>2, TimerFields

\* A timer is placed before the first later one.
LEMMA PlaceIs ==
    ASSUME NEW list \in Seq(Timer), NEW x \in Timer
    PROVE  /\ Place(list, x) \in 1..Len(list) + 1
           /\ Place(list, x) <= Len(list) => list[Place(list, x)].when > x.when
           /\ \A j \in 1..Place(list, x) - 1 : list[j].when <= x.when
<1> DEFINE S == {i \in 1..Len(list) + 1 : i <= Len(list) => list[i].when > x.when}
<1>1. DOMAIN list = 1..Len(list) /\ Len(list) \in Nat /\ x.when \in Nat
      /\ \A i \in DOMAIN list : list[i].when \in Nat
    BY ListFields, TimerFields
<1>2. S \subseteq Nat /\ Len(list) + 1 \in S
    BY <1>1
<1>3. PICK i \in S : \A j \in S : i <= j
  <2> HIDE DEF S
  <2> QED
      BY <1>2, Least
<1>4. ASSUME NEW j \in 1..i - 1 PROVE list[j].when <= x.when
    BY <1>1, <1>3
<1> QED
    BY <1>1, <1>3, <1>4 DEF Place

\* new is list with x at p.
Inserted(new, list, p, x) ==
    /\ new \in Seq(Timer) /\ Len(new) = Len(list) + 1 /\ p \in 1..Len(list) + 1
    /\ \A i \in 1..Len(list) + 1 :
          new[i] = IF i < p THEN list[i] ELSE IF i = p THEN x ELSE list[i - 1]

\* new is list without its element at p.
Removed(new, list, p) ==
    /\ new \in Seq(Timer) /\ Len(new) = Len(list) - 1 /\ p \in 1..Len(list)
    /\ \A i \in 1..Len(list) - 1 : new[i] = IF i < p THEN list[i] ELSE list[i + 1]

LEMMA AddedInserts ==
    ASSUME NEW list \in Seq(Timer), NEW x \in Timer
    PROVE  Inserted(Added(list, x), list, Place(list, x), x)
<1>1. PICK p : p = Place(list, x)
    OBVIOUS
<1>2. p \in 1..Len(list) + 1
    BY <1>1, PlaceIs
<1>3. PICK new : new = InsertAt(list, p, x)
    OBVIOUS
<1>4. /\ InsertAt(list, p, x) \in Seq(Timer) /\ Len(InsertAt(list, p, x)) = Len(list) + 1
      /\ \A i \in 1..(Len(list) + 1) :
            InsertAt(list, p, x)[i] = IF i < p THEN list[i] ELSE IF i = p THEN x ELSE list[i - 1]
    BY <1>2, InsertAtIndices
<1>5. Inserted(new, list, p, x)
    BY <1>2, <1>3, <1>4 DEF Inserted
<1> QED
    BY <1>1, <1>3, <1>5 DEF Added

LEMMA RemoveAtRemoves ==
    ASSUME NEW list \in Seq(Timer), NEW p \in 1..Len(list)
    PROVE  Removed(RemoveAt(list, p), list, p)
BY RemoveAtIndices DEF Removed

\* Where the old elements are.
LEMMA InsertedOld ==
    ASSUME NEW list \in Seq(Timer), NEW x \in Timer, NEW new, NEW p, Inserted(new, list, p, x)
    PROVE  /\ \A i \in DOMAIN list : LET k == IF i < p THEN i ELSE i + 1
                                     IN  k \in DOMAIN new /\ new[k] = list[i]
           /\ p \in DOMAIN new /\ new[p] = x
           /\ \A k \in DOMAIN new : k # p =>
                 LET i == IF k < p THEN k ELSE k - 1
                 IN  i \in DOMAIN list /\ new[k] = list[i]
<1>1. /\ DOMAIN list = 1..Len(list) /\ Len(list) \in Nat
      /\ DOMAIN new = 1..Len(list) + 1 /\ p \in 1..Len(list) + 1
    BY ListFields DEF Inserted
<1> QED
    BY <1>1 DEF Inserted

LEMMA RemovedOld ==
    ASSUME NEW list \in Seq(Timer), NEW new, NEW p, Removed(new, list, p)
    PROVE  /\ \A i \in DOMAIN list : i # p =>
                 LET k == IF i < p THEN i ELSE i - 1
                 IN  k \in DOMAIN new /\ new[k] = list[i]
           /\ \A k \in DOMAIN new : LET i == IF k < p THEN k ELSE k + 1
                                    IN  i \in DOMAIN list /\ new[k] = list[i]
<1>1. /\ DOMAIN list = 1..Len(list) /\ Len(list) \in Nat
      /\ DOMAIN new = 1..Len(list) - 1 /\ p \in 1..Len(list)
    BY ListFields DEF Removed
<1> QED
    BY <1>1 DEF Removed

LEMMA InsertedRange ==
    ASSUME NEW list \in Seq(Timer), NEW x \in Timer, NEW new, NEW p, Inserted(new, list, p, x)
    PROVE  /\ Range(new) = Range(list) \cup {x}
           /\ Distinct(list) /\ (\A y \in Range(list) : y.id # x.id) => Distinct(new)
<1>0. DOMAIN list \subseteq Nat /\ DOMAIN new \subseteq Nat /\ p \in Nat
    BY ListFields DEF Inserted
<1>1. Range(new) = Range(list) \cup {x}
    BY InsertedOld DEF Range
<1>2. ASSUME Distinct(list), \A y \in Range(list) : y.id # x.id,
             NEW i \in DOMAIN new, NEW j \in DOMAIN new, new[i].id = new[j].id
      PROVE  i = j
  <2>1. \A k \in DOMAIN new : k # p =>
           LET l == IF k < p THEN k ELSE k - 1
           IN  l \in DOMAIN list /\ new[k] = list[l] /\ new[k] \in Range(list)
      BY <1>0, InsertedOld DEF Range
  <2>2. new[p] = x
      BY InsertedOld
  <2>3. CASE i = p \/ j = p
      BY <1>2, <2>1, <2>2, <2>3
  <2>4. CASE i # p /\ j # p
      BY <1>0, <1>2, <2>1, <2>4 DEF Distinct
  <2> QED
      BY <2>3, <2>4
<1> QED
    BY <1>1, <1>2 DEF Distinct

LEMMA RemovedRange ==
    ASSUME NEW list \in Seq(Timer), NEW new, NEW p, Removed(new, list, p), Distinct(list)
    PROVE  /\ Range(new) = Range(list) \ {list[p]}
           /\ list[p] \in Range(list)
           /\ Distinct(new) /\ \A y \in Range(new) : y.id # list[p].id
<1>0. DOMAIN list \subseteq Nat /\ DOMAIN new \subseteq Nat /\ p \in DOMAIN list
    BY ListFields DEF Removed
<1>1. ASSUME NEW k \in DOMAIN new
      PROVE  new[k] \in Range(list) /\ new[k].id # list[p].id
    BY <1>0, RemovedOld DEF Range, Distinct
<1>2. ASSUME NEW y \in Range(list), y # list[p] PROVE y \in Range(new)
    BY <1>0, <1>2, RemovedOld DEF Range
<1>3. Distinct(new)
    BY <1>0, RemovedOld DEF Distinct
<1> QED
    BY <1>0, <1>1, <1>2, <1>3 DEF Range

LEMMA ExtendedRange ==
    ASSUME NEW new, NEW list, NEW n, NEW x,
           DOMAIN new = DOMAIN list \cup {n}, n \notin DOMAIN list,
           \A i \in DOMAIN list : new[i] = list[i], new[n] = x
    PROVE  Range(new) = Range(list) \cup {x}
BY DEF Range

LEMMA AppendedRange ==
    ASSUME NEW list \in Seq(Timer), NEW x \in Timer
    PROVE  /\ Append(list, x) \in Seq(Timer)
           /\ Range(Append(list, x)) = Range(list) \cup {x}
           /\ Distinct(list) /\ (\A y \in Range(list) : y.id # x.id) => Distinct(Append(list, x))
<1>1. Append(list, x) \in Seq(Timer)
    OBVIOUS
<1>2. PICK new, n : new = Append(list, x) /\ n = Len(list) + 1
    OBVIOUS
<1>3. /\ DOMAIN new = DOMAIN list \cup {n} /\ n \notin DOMAIN list
      /\ \A i \in DOMAIN list : new[i] = list[i]
      /\ new[n] = x
    BY <1>2, AppendIndices
<1>4. Range(new) = Range(list) \cup {x}
    BY <1>3, ExtendedRange
<1>5. ASSUME Distinct(list), \A y \in Range(list) : y.id # x.id PROVE Distinct(new)
  <2>1. \A i \in DOMAIN list : list[i].id # x.id
      BY <1>5 DEF Range
  <2> QED
      BY <1>3, <1>5, <2>1 DEF Distinct
<1> QED
    BY <1>1, <1>2, <1>4, <1>5

LEMMA TailRange ==
    ASSUME NEW list \in Seq(Timer), list # <<>>, Distinct(list)
    PROVE  /\ Tail(list) \in Seq(Timer) /\ Head(list) \in Timer
           /\ Head(list) \in Range(list)
           /\ Range(Tail(list)) = Range(list) \ {Head(list)}
           /\ Distinct(Tail(list)) /\ \A y \in Range(Tail(list)) : y.id # Head(list).id
<1>1. /\ Tail(list) \in Seq(Timer) /\ Head(list) \in Timer
      /\ Len(Tail(list)) = Len(list) - 1
    BY HeadTailProperties
<1>2. /\ 1 \in DOMAIN list /\ Head(list) = list[1]
      /\ \A i \in DOMAIN Tail(list) : i + 1 \in DOMAIN list /\ Tail(list)[i] = list[i + 1] /\ i \in Nat
    BY TailIndices
<1>3. Removed(Tail(list), list, 1)
    BY <1>1, <1>2, ListFields DEF Removed
<1> QED
    BY <1>1, <1>2, <1>3, RemovedRange


----------------------------------------------------------------------------
(* Types, the mutex and the workers. *)

\* What is added to the list: a new timer, a timer's next run, the end timer.
LEMMA NewType ==
    ASSUME NEW t \in Timers
    PROVE  /\ New(t) \in Timer
           /\ New(t).id = t /\ New(t).when = When[t] /\ New(t).left = Times[t]
BY TimersAssumption DEF New, Timer

LEMMA NextType ==
    ASSUME NEW x \in Timer, x.left > 1
    PROVE  /\ Next_(x) \in Timer /\ Next_(x).id = x.id
           /\ Next_(x).when = x.when + Round /\ Next_(x).left = x.left - 1
<1>1. x.when + Round \in Nat /\ x.left - 1 \in Nat \ {0} /\ x.id \in Timers \cup {End}
    BY TimersAssumption, TimerFields
<1>2. Next_(x) = [id |-> x.id, when |-> x.when + Round, left |-> x.left - 1]
  <2>1. x = [id |-> x.id, when |-> x.when, left |-> x.left]
      BY DEF Timer
  <2>2. PICK y : y = [x EXCEPT !.when = @ + Round]
      OBVIOUS
  <2>3. y = [id |-> x.id, when |-> x.when + Round, left |-> x.left]
      BY <2>1, <2>2
  <2>4. [y EXCEPT !.left = @ - 1] = [id |-> x.id, when |-> x.when + Round, left |-> x.left - 1]
      BY <2>3
  <2> QED
      BY <2>2, <2>4 DEF Next_
<1> QED
    BY <1>1, <1>2 DEF Timer

LEMMA EndTimerType ==
    ASSUME timers \in Seq(Timer), timers # <<>>
    PROVE  /\ EndTimer \in Timer /\ EndTimer.id = End
           /\ Len(timers) \in DOMAIN timers /\ EndTimer.when = timers[Len(timers)].when
<1>1. Len(timers) \in DOMAIN timers /\ timers[Len(timers)].when \in Nat
    BY ListFields, EmptySeq
<1> QED
    BY <1>1 DEF EndTimer, Timer

LEMMA RepeatedType ==
    ASSUME NEW list \in Seq(Timer), NEW x \in Timer
    PROVE  Repeated(list, x) \in Seq(Timer) /\ Len(Repeated(list, x)) >= Len(list)
<1>1. Len(list) \in Nat
    BY LenProperties
<1>2. CASE x.left > 1
  <2>1. Inserted(Added(list, Next_(x)), list, Place(list, Next_(x)), Next_(x))
      BY <1>2, NextType, AddedInserts
  <2> QED
      BY <1>1, <1>2, <2>1 DEF Inserted, Repeated
<1>3. CASE ~(x.left > 1)
    BY <1>1, <1>3 DEF Repeated
<1> QED
    BY <1>2, <1>3

\* The timer that Tick() is at, and the list without it.
LEMMA CursorTimer ==
    ASSUME TypeOK, LockInv, ticker = "calling"
    PROVE  /\ timers[cursor] \in Timer /\ timers[cursor] \in Listed
           /\ timers[cursor].when <= now /\ cursor \in 1..Len(timers)
           /\ Removed(RemoveAt(timers, cursor), timers, cursor)
           /\ RemoveAt(timers, cursor) \in Seq(Timer)
           /\ Len(RemoveAt(timers, cursor)) = Len(timers) - 1
<1>1. cursor \in 1..Len(timers) /\ timers \in Seq(Timer) /\ timers[cursor].when <= now
    BY ListFields DEF TypeOK, LockInv
<1>2. timers[cursor] \in Timer /\ timers[cursor] \in Listed
    BY <1>1, ListFields DEF Listed, Range
<1>3. Removed(RemoveAt(timers, cursor), timers, cursor)
    BY <1>1, RemoveAtRemoves
<1> QED
    BY <1>1, <1>2, <1>3 DEF Removed

\* The timer a worker is busy with.
LEMMA HeldTimer ==
    ASSUME TypeOK, WorkersInv, NEW w \in Workers, at[w] \in {"task", "after"}
    PROVE  /\ held[w] \in Timer /\ held[w].id \in Timers \cup {End}
           /\ held[w].left \in Nat \ {0} /\ held[w].when \in Nat
           /\ pooled
<1>1. held[w] \in Timer
    BY DEF TypeOK, WorkersInv
<1> QED
    BY <1>1, TimerFields DEF WorkersInv

LEMMA RunsType ==
    ASSUME TypeOK, NEW x \in Timer, Count(x)
    PROVE  /\ runs' \in [Timers -> Nat]
           /\ x.id \in Timers => runs'[x.id] = runs[x.id] + 1
           /\ \A t \in Timers : t # x.id => runs'[t] = runs[t]
           /\ \A t \in Timers : runs'[t] >= runs[t]
<1>1. runs \in [Timers -> Nat]
    BY DEF TypeOK
<1>2. CASE x.id \in Timers
    BY <1>1, <1>2 DEF Count
<1>3. CASE x.id \notin Timers
    BY <1>1, <1>3 DEF Count
<1> QED
    BY <1>2, <1>3

\* The effects of the steps that change the list.
LEMMA AddType ==
    ASSUME TypeOK, NEW t \in Timers, Add(t)
    PROVE  /\ Inserted(timers', timers, Place(timers, New(t)), New(t))
           /\ added' \in Seq(Timers) /\ Range(added') = Range(added) \cup {t}
           /\ cursor' \in 1..Len(timers') + 1
<1>1. timers \in Seq(Timer) /\ Len(timers) \in Nat /\ cursor \in 1..Len(timers) + 1
    BY ListFields DEF TypeOK
<1>2. Inserted(timers', timers, Place(timers, New(t)), New(t))
    BY <1>1, NewType, AddedInserts DEF Add
<1>3. cursor' \in 1..Len(timers') + 1
    BY <1>1, <1>2 DEF Inserted, Add, Moved
<1>4. added \in Seq(Timers) /\ added' = Append(added, t)
    BY DEF TypeOK, Add
<1>5. /\ DOMAIN added' = DOMAIN added \cup {Len(added) + 1}
      /\ Len(added) + 1 \notin DOMAIN added
      /\ \A i \in DOMAIN added : added'[i] = added[i]
      /\ added'[Len(added) + 1] = t
    BY <1>4, AppendIndices
<1>6. Range(added') = Range(added) \cup {t}
    BY <1>5, ExtendedRange
<1> QED
    BY <1>2, <1>3, <1>4, <1>6

LEMMA TypeStep ==
    ASSUME TypeOK, LockInv, WorkersInv, [Next]_vars
    PROVE  TypeOK'
<1> USE TimersAssumption
<1>0. timers \in Seq(Timer) /\ Len(timers) \in Nat /\ cursor \in 1..Len(timers) + 1
    BY ListFields DEF TypeOK
<1>1. CASE Pass
    BY <1>1 DEF Pass, TypeOK, ticking, working, ending
<1>2. ASSUME NEW t \in Timers, Add(t) PROVE TypeOK'
  <2>1. timers' \in Seq(Timer) /\ added' \in Seq(Timers) /\ cursor' \in 1..Len(timers') + 1
      BY <1>2, AddType DEF Inserted
  <2> QED
      BY <1>2, <2>1 DEF Add, TypeOK, working, ending
<1>3. CASE TickBegin
    BY <1>0, <1>3 DEF TickBegin, TypeOK, working, ending
<1>4. CASE Look
    BY <1>4 DEF Look, TypeOK, working, ending
<1>5. CASE Enqueue
  <2>1. /\ timers[cursor] \in Timer /\ timers' \in Seq(Timer)
        /\ cursor' \in 1..Len(timers') + 1
      BY <1>0, <1>5, CursorTimer DEF Enqueue
  <2>2. jobs' \in Seq(Timer)
      BY <1>5, <2>1, AppendedRange DEF Enqueue, TypeOK
  <2> QED
      BY <1>5, <2>1, <2>2 DEF Enqueue, TypeOK, ending
<1>6. CASE Call
  <2>1. PICK x \in Timer : x = timers[cursor]
      BY <1>6, CursorTimer DEF Call
  <2>2. /\ timers' \in Seq(Timer) /\ Len(timers') >= Len(timers) - 1
        /\ cursor \in 1..Len(timers)
      BY <1>0, <1>6, <2>1, CursorTimer, RepeatedType DEF Call
  <2>3. cursor' \in 1..Len(timers') + 1 /\ cursor' = cursor
      BY <1>0, <1>6, <2>2, ListFields DEF Call
  <2>4. runs' \in [Timers -> Nat] /\ shutdown_' \in BOOLEAN
      BY <1>6, <2>1, RunsType DEF Call, TypeOK
  <2> QED
      BY <1>6, <2>2, <2>3, <2>4 DEF Call, TypeOK, working, ending
<1>7. CASE RunEnds
    BY <1>7 DEF RunEnds, TypeOK, working, ending
<1>8. ASSUME NEW w \in Workers, Fetch(w) PROVE TypeOK'
  <2>1. jobs' \in Seq(Timer) /\ Head(jobs) \in Timer
      BY <1>8, HeadTailProperties DEF Fetch, TypeOK
  <2> QED
      BY <1>8, <2>1 DEF Fetch, TypeOK, ticking, ending
<1>9. ASSUME NEW w \in Workers, RunTask(w) PROVE TypeOK'
  <2>1. runs' \in [Timers -> Nat]
      BY <1>9, HeldTimer, RunsType DEF RunTask
  <2> QED
      BY <1>9, <2>1 DEF RunTask, TypeOK, ticking, ending
<1>10. ASSUME NEW w \in Workers, After(w) PROVE TypeOK'
  <2>1. timers' \in Seq(Timer) /\ Len(timers') >= Len(timers)
      BY <1>0, <1>10, HeldTimer, RepeatedType DEF After
  <2>2. cursor \in 1..Len(timers') + 1
      BY <1>0, <2>1, ListFields
  <2> QED
      BY <1>10, <2>1, <2>2 DEF After, TypeOK, ticking, ending
<1>11. ASSUME NEW w \in Workers, Release(w) PROVE TypeOK'
    BY <1>11 DEF Release, TypeOK, ticking, ending
<1>12. ASSUME NEW w \in Workers, Exit(w) PROVE TypeOK'
    BY <1>12 DEF Exit, TypeOK, ticking, ending
<1>13. CASE RestJobs
    BY <1>0, <1>13 DEF RestJobs, TypeOK, working
<1>14. CASE RestJobsReturns
  <2>1. Range(added) \subseteq Timers
      BY ElementOfSeq, LenProperties DEF TypeOK, Range
  <2> QED
      BY <1>14, <2>1 DEF RestJobsReturns, TypeOK, working
<1>15. CASE Shutdown
    BY <1>15 DEF Shutdown, TypeOK, ticking, working
<1>16. CASE Join
    BY <1>16 DEF Join, TypeOK, ticking, working
<1>17. CASE SetTerminationAtEnd
  <2>1. CASE timers = <<>>
      BY <1>17, <2>1 DEF SetTerminationAtEnd, TypeOK, ticking, working
  <2>2. CASE timers # <<>>
    <3>1. Inserted(timers', timers, Place(timers, EndTimer), EndTimer)
        BY <1>0, <1>17, <2>2, EndTimerType, AddedInserts DEF SetTerminationAtEnd
    <3>2. timers' \in Seq(Timer) /\ cursor \in 1..Len(timers') + 1
        BY <1>0, <3>1 DEF Inserted
    <3>3. owed' \in [Timers -> Nat]
      <4> DEFINE more(t) == IF \E i \in DOMAIN timers : timers[i].id = t THEN 1 ELSE 0
      <4>1. \A t \in Timers : more(t) \in Nat
          OBVIOUS
      <4>2. owed' = [t \in Timers |-> runs[t] + more(t)]
          BY <1>17, <2>2 DEF SetTerminationAtEnd
      <4> HIDE DEF more
      <4> QED
          BY <4>1, <4>2 DEF TypeOK
    <3> QED
        BY <1>17, <2>2, <3>2, <3>3 DEF SetTerminationAtEnd, TypeOK, ticking, working
  <2> QED
      BY <2>1, <2>2
<1>18. CASE UNCHANGED vars
    BY <1>18 DEF vars, TypeOK, ticking, working, ending
<1> QED
    BY <1>1, <1>2, <1>3, <1>4, <1>5, <1>6, <1>7, <1>8, <1>9, <1>10, <1>11, <1>12, <1>13,
       <1>14, <1>15, <1>16, <1>17, <1>18 DEF Next, Tick, Work


\* A task of a TimerCaller adds a timer while Tick() is at its own.
LEMMA CursorMoves ==
    ASSUME TypeOK, LockInv, NEW t \in Timers, Add(t), ticker = "calling"
    PROVE  /\ cursor' \in DOMAIN timers' /\ timers'[cursor'] = timers[cursor]
           /\ cursor' = IF Place(timers, New(t)) <= cursor THEN cursor + 1 ELSE cursor
           /\ ~pooled
<1> DEFINE p == Place(timers, New(t))
<1>1. timers \in Seq(Timer) /\ cursor \in DOMAIN timers /\ DOMAIN timers = 1..Len(timers)
    BY ListFields DEF TypeOK, LockInv
<1>2. Inserted(timers', timers, p, New(t)) /\ p \in Nat
    BY AddType DEF Inserted
<1>3. lock # "free" /\ cursor' = IF p <= cursor THEN cursor + 1 ELSE cursor
    BY DEF Add, LockInv, Walking, Moved
<1> HIDE DEF p
<1>4. LET k == IF cursor < p THEN cursor ELSE cursor + 1
      IN  k \in DOMAIN timers' /\ timers'[k] = timers[cursor]
    BY <1>1, <1>2, NewType, InsertedOld
<1>5. cursor' = IF cursor < p THEN cursor ELSE cursor + 1
    BY <1>1, <1>2, <1>3
<1>6. ~pooled
    BY <1>3 DEF Add
<1> QED
    BY <1>3, <1>4, <1>5, <1>6 DEF p

LEMMA LockStep ==
    ASSUME TypeOK, LockInv, WorkersInv, [Next]_vars
    PROVE  LockInv'
<1> USE DEF Walking
<1>1. CASE Pass
  <2>1. cursor \in DOMAIN timers => timers[cursor].when \in Nat
      BY ListFields DEF TypeOK
  <2> QED
      BY <1>1, <2>1 DEF Pass, LockInv, TypeOK, ticking, working, ending
<1>2. ASSUME NEW t \in Timers, Add(t) PROVE LockInv'
  <2>1. CASE lock = "free"
      BY <1>2, <2>1 DEF Add, LockInv, working, ending
  <2>2. CASE lock # "free"
    <3>1. ticker = "calling" /\ ticker' = "calling" /\ lock' = lock /\ now' = now
          /\ owner' = owner /\ pooled' = pooled
        BY <1>2, <2>2 DEF Add, ending
    <3>2. cursor' \in DOMAIN timers' /\ timers'[cursor'].when <= now'
        BY <1>2, <3>1, CursorMoves DEF LockInv
    <3> QED
        BY <3>1, <3>2 DEF LockInv
  <2> QED
      BY <2>1, <2>2
<1>3. CASE TickBegin
    BY <1>3 DEF TickBegin, LockInv, working, ending
<1>4. CASE Look
  <2>1. cursor <= Len(timers) => cursor \in DOMAIN timers
      BY ListFields DEF TypeOK
  <2> QED
      BY <1>4, <2>1 DEF Look, LockInv, TypeOK, working, ending
<1>5. CASE Enqueue
    BY <1>5 DEF Enqueue, LockInv, ending
<1>6. CASE Call
    BY <1>6 DEF Call, LockInv, working, ending
<1>7. CASE RunEnds
    BY <1>7 DEF RunEnds, LockInv, working, ending
<1>8. ASSUME NEW w \in Workers, Fetch(w) PROVE LockInv'
    BY <1>8 DEF Fetch, LockInv, ticking, ending
<1>9. ASSUME NEW w \in Workers, RunTask(w) PROVE LockInv'
    BY <1>9 DEF RunTask, LockInv, ticking, ending
<1>10. ASSUME NEW w \in Workers, After(w) PROVE LockInv'
  <2>1. held[w].left > 1 \/ timers' = timers
      BY <1>10 DEF After, Repeated
  <2> QED
      BY <1>10, <2>1 DEF After, LockInv, ticking, ending
<1>11. ASSUME NEW w \in Workers, Release(w) PROVE LockInv'
    BY <1>11 DEF Release, LockInv, ticking, ending
<1>12. ASSUME NEW w \in Workers, Exit(w) PROVE LockInv'
    BY <1>12 DEF Exit, LockInv, ticking, ending
<1>13. CASE RestJobs
    BY <1>13 DEF RestJobs, LockInv, working
<1>14. CASE RestJobsReturns
    BY <1>14 DEF RestJobsReturns, LockInv, working
<1>15. CASE Shutdown
    BY <1>15 DEF Shutdown, LockInv, ticking, working
<1>16. CASE Join
    BY <1>16 DEF Join, LockInv, ticking, working
<1>17. CASE SetTerminationAtEnd
    BY <1>17 DEF SetTerminationAtEnd, LockInv, ticking, working
<1>18. CASE UNCHANGED vars
    BY <1>18 DEF vars, LockInv, ticking, working, ending
<1> QED
    BY <1>1, <1>2, <1>3, <1>4, <1>5, <1>6, <1>7, <1>8, <1>9, <1>10, <1>11, <1>12, <1>13,
       <1>14, <1>15, <1>16, <1>17, <1>18 DEF Next, Tick, Work

\* The steps that are not a worker's leave the workers alone, and only Tick()
\* gives the pool something to do.
LEMMA WorkersAside ==
    ASSUME [Next]_vars, \A w \in Workers : ~Work(w)
    PROVE  UNCHANGED <<at, held>> /\ (jobs' = jobs \/ (pooled /\ Enqueue)) /\ pooled' = pooled
BY DEF Next, vars, Tick, Pass, Add, TickBegin, Look, Enqueue, Call, RunEnds, RestJobs,
       RestJobsReturns, Shutdown, Join, SetTerminationAtEnd, ticking, working, ending

LEMMA WorkersStep ==
    ASSUME TypeOK, LockInv, WorkersInv, [Next]_vars
    PROVE  WorkersInv'
<1>1. CASE \A w \in Workers : ~Work(w)
    BY <1>1, WorkersAside DEF WorkersInv
<1>2. ASSUME NEW w \in Workers, Fetch(w) PROVE WorkersInv'
  <2>1. Head(jobs) \in Timer /\ Head(jobs) # NoTimer
      BY <1>2, HeadTailProperties, TimerFields DEF Fetch, TypeOK
  <2> QED
      BY <1>2, <2>1 DEF Fetch, WorkersInv, TypeOK
<1>3. ASSUME NEW w \in Workers, RunTask(w) PROVE WorkersInv'
    BY <1>3 DEF RunTask, WorkersInv, TypeOK
<1>4. ASSUME NEW w \in Workers, After(w) PROVE WorkersInv'
    BY <1>4 DEF After, WorkersInv, TypeOK
<1>5. ASSUME NEW w \in Workers, Release(w) PROVE WorkersInv'
    BY <1>5 DEF Release, WorkersInv, TypeOK
<1>6. ASSUME NEW w \in Workers, Exit(w) PROVE WorkersInv'
    BY <1>6 DEF Exit, WorkersInv, TypeOK
<1> QED
    BY <1>1, <1>2, <1>3, <1>4, <1>5, <1>6 DEF Work

LEMMA AddedOnceStep ==
    ASSUME TypeOK, AddedOnce, [Next]_vars
    PROVE  AddedOnce'
<1>1. CASE added' = added
    BY <1>1 DEF AddedOnce
<1>2. ASSUME NEW t \in Timers, Add(t) PROVE AddedOnce'
  <2>1. added \in Seq(Timers) /\ added' = Append(added, t) /\ t \notin Range(added)
      BY <1>2 DEF Add, TypeOK
  <2>2. /\ DOMAIN added' = DOMAIN added \cup {Len(added) + 1}
        /\ Len(added) + 1 \notin DOMAIN added
        /\ \A i \in DOMAIN added : added'[i] = added[i]
        /\ added'[Len(added) + 1] = t
      BY <2>1, AppendIndices
  <2> QED
    <3>1. \A i \in DOMAIN added : added[i] # t
        BY <2>1, Zenon DEF Range
    <3> QED
        BY <2>2, <3>1 DEF AddedOnce
<1>3. added' = added \/ \E t \in Timers : Add(t)
    BY DEF Next, vars, Tick, Work, Pass, TickBegin, Look, Enqueue, Call, RunEnds, Fetch, RunTask,
           After, Release, Exit, RestJobs, RestJobsReturns, Shutdown, Join, SetTerminationAtEnd
<1> QED
    BY <1>1, <1>2, <1>3

LEMMA TimersTypeInvariant == Spec => [](TypeOK /\ AddedOnce /\ LockInv /\ WorkersInv)
<1>1. Init => TypeOK /\ AddedOnce /\ LockInv /\ WorkersInv
  <2> SUFFICES ASSUME Init PROVE TypeOK /\ AddedOnce /\ LockInv /\ WorkersInv
      OBVIOUS
  <2>1. timers \in Seq(Timer) /\ jobs \in Seq(Timer) /\ added \in Seq(Timers) /\ Len(timers) = 0
      BY DEF Init
  <2> QED
    <3>1. TypeOK
      <4>1. /\ at \in [Workers -> {"idle", "task", "after", "release", "gone"}]
            /\ held \in [Workers -> Timer \cup {NoTimer}]
            /\ runs \in [Timers -> Nat] /\ owed \in [Timers -> Nat]
          BY DEF Init
      <4>2. now \in 0..MaxTime /\ cursor \in 1..Len(timers) + 1
        <5>1. MaxTime \in Nat /\ now = 0 /\ cursor = 1
            BY TimersAssumption DEF Init
        <5> QED
            BY <2>1, <5>1
      <4>3. /\ pooled \in BOOLEAN /\ shutdown_ \in BOOLEAN
            /\ lock \in {"free", "ticker", "owner"}
            /\ ticker \in {"asleep", "looking", "calling", "done"}
            /\ owner \in {"idle", "resting", "polled", "joining", "ending", "done"}
            /\ size \in Nat /\ due \subseteq Timers
          BY DEF Init
      <4> QED
          BY <2>1, <4>1, <4>2, <4>3 DEF TypeOK
    <3>2. AddedOnce
        BY DEF Init, AddedOnce
    <3>3. LockInv
        BY DEF Init, LockInv, Walking
    <3>4. WorkersInv
        BY DEF Init, WorkersInv
    <3> QED
        BY <3>1, <3>2, <3>3, <3>4
<1>2. TypeOK /\ AddedOnce /\ LockInv /\ WorkersInv /\ [Next]_vars
      => TypeOK' /\ AddedOnce' /\ LockInv' /\ WorkersInv'
    BY TypeStep, AddedOnceStep, LockStep, WorkersStep
<1> QED
    BY <1>1, <1>2, PTL DEF Spec

\* The list, the pool's list and the callers are what they are declared to be:
\* no step of any thread leaves an iterator past the sentinel.
THEOREM TimersTypeCorrect == Spec => []TypeOK
BY TimersTypeInvariant, PTL


----------------------------------------------------------------------------
(* A timer is in one place, with the runs that are left. *)

Placed == ApartInv /\ OwesInv /\ DoneInv
Wise   == TypeOK /\ AddedOnce /\ LockInv /\ WorkersInv

\* The timer a worker carries: its task's, or the next run it is to add.
LEMMA CarriedTimer ==
    ASSUME Wise, NEW w \in Workers, Carries(w)
    PROVE  /\ held[w] \in Timer /\ held[w].id \in Timers \cup {End} /\ pooled
           /\ at[w] \in {"task", "after"}
           /\ at[w] = "after" => Next_(held[w]) \in Timer /\ Next_(held[w]).id = held[w].id
<1>1. at[w] \in {"task", "after"}
    BY DEF Carries
<1>2. held[w] \in Timer /\ held[w].id \in Timers \cup {End} /\ pooled
    BY <1>1, HeldTimer DEF Wise
<1> QED
    BY <1>1, <1>2, NextType DEF Carries

LEMMA ElementType ==
    ASSUME TypeOK
    PROVE  \A x \in Listed \cup Pooled : x \in Timer
BY ListFields DEF TypeOK, Listed, Pooled, Range

\* A timer that was not added is nowhere.
LEMMA NotAdded ==
    ASSUME Wise, OwesInv, NEW t \in Timers, t \notin Range(added)
    PROVE  ~Somewhere(t)
<1>1. \A x \in Listed \cup Pooled : x.id # t
    BY DEF OwesInv, Owes
<1>2. \A w \in Workers : Carries(w) => held[w].id # t
    BY CarriedTimer DEF OwesInv, Owes
<1> QED
    BY <1>1, <1>2 DEF Somewhere

\* Steps that move no timer.
LEMMA StillPlaced ==
    ASSUME Placed, UNCHANGED <<timers, jobs, added, runs>>,
           owner = "ending" => owner' = "ending",
           \A w \in Workers : Carries(w)' <=> Carries(w),
           \A w \in Workers : Carries(w) => at'[w] = at[w] /\ held'[w] = held[w]
    PROVE  Placed'
<1>1. Listed' = Listed /\ Pooled' = Pooled /\ Distinct(timers)' = Distinct(timers)
      /\ Distinct(jobs)' = Distinct(jobs) /\ Range(added') = Range(added)
    BY DEF Listed, Pooled
<1>2. \A x : Owes(x)' = Owes(x)
    BY DEF Owes
<1>3. ApartInv'
    BY <1>1 DEF Placed, ApartInv, Somewhere
<1>4. OwesInv'
    BY <1>1, <1>2 DEF Placed, OwesInv
<1>5. DoneInv'
  <2>1. \A t \in Timers : Somewhere(t)' = Somewhere(t)
      BY <1>1 DEF Somewhere
  <2> QED
      BY <1>1, <2>1 DEF Placed, DoneInv
<1> QED
    BY <1>3, <1>4, <1>5 DEF Placed

LEMMA AddPlaces ==
    ASSUME Wise, Placed, NEW t \in Timers, Add(t)
    PROVE  Placed'
<1>1. ~Somewhere(t) /\ runs[t] = 0 /\ t \notin Range(added)
    BY NotAdded DEF Placed, DoneInv, Add
<1>2. New(t) \in Timer /\ New(t).id = t /\ New(t).when = When[t] /\ New(t).left = Times[t]
    BY NewType
<1>3. /\ Listed' = Listed \cup {New(t)} /\ Distinct(timers')
  <2>1. timers \in Seq(Timer) /\ Inserted(timers', timers, Place(timers, New(t)), New(t))
      BY AddType DEF Wise, TypeOK
  <2>2. Distinct(timers) /\ \A x \in Range(timers) : x.id # New(t).id
      BY <1>1, <1>2 DEF Placed, ApartInv, Somewhere, Listed
  <2> QED
      BY <1>2, <2>1, <2>2, InsertedRange DEF Listed
<1>4. /\ Pooled' = Pooled /\ jobs' = jobs /\ at' = at /\ held' = held
      /\ runs' = runs /\ owner' = owner
    BY DEF Add, Pooled, working, ending
<1>5. Range(added') = Range(added) \cup {t}
    BY AddType DEF Wise
<1>6. \A w \in Workers : Carries(w)' = Carries(w)
    BY <1>4 DEF Carries
<1>7. ApartInv'
  <2>1. \A w \in Workers : Carries(w) => held[w].id # t
      BY <1>1 DEF Somewhere
  <2>2. \A y \in Pooled : y.id # t
      BY <1>1 DEF Somewhere
  <2>3. t # End
      BY TimersAssumption
  <2> QED
      BY <1>2, <1>3, <1>4, <1>6, <2>1, <2>2, <2>3 DEF Placed, ApartInv, Somewhere
<1>8. OwesInv'
  <2>1. \A x : Owes(x) => Owes(x)'
      BY <1>4, <1>5 DEF Owes
  <2>2. Owes(New(t))'
      BY <1>1, <1>2, <1>4, <1>5, TimersAssumption DEF Owes
  <2> QED
      BY <1>3, <1>4, <1>6, <2>1, <2>2 DEF Placed, OwesInv
<1>9. DoneInv'
  <2>1. \A u \in Timers : Somewhere(u) => Somewhere(u)'
      BY <1>3, <1>4, <1>6 DEF Somewhere
  <2>2. Somewhere(t)'
      BY <1>2, <1>3 DEF Somewhere
  <2> QED
      BY <1>4, <1>5, <2>1, <2>2 DEF Placed, DoneInv
<1> QED
    BY <1>7, <1>8, <1>9 DEF Placed

LEMMA EndPlaces ==
    ASSUME Wise, Placed, SetTerminationAtEnd
    PROVE  Placed'
<1>1. CASE timers = <<>>
    BY <1>1, StillPlaced DEF SetTerminationAtEnd, working, Carries
<1>2. CASE timers # <<>>
  <2>1. timers \in Seq(Timer) /\ EndTimer \in Timer /\ EndTimer.id = End
      BY <1>2, EndTimerType DEF Wise, TypeOK
  <2>2. /\ timers' = Added(timers, EndTimer) /\ owner # "ending" /\ owner' = "ending"
        /\ ~pooled /\ jobs' = jobs /\ at' = at /\ held' = held /\ runs' = runs /\ added' = added
      BY <1>2 DEF SetTerminationAtEnd, working
  <2>3. \A w \in Workers : ~Carries(w) /\ ~Carries(w)'
      BY <2>2 DEF Wise, WorkersInv, Carries
  <2>4. Pooled = {} /\ Pooled' = {}
      BY <2>2 DEF Wise, WorkersInv, Pooled, Range
  <2>5. Listed' = Listed \cup {EndTimer} /\ Distinct(timers')
    <3>1. \A x \in Range(timers) : x.id # End
        BY <2>2 DEF Placed, ApartInv, Listed, Somewhere
    <3>2. Inserted(timers', timers, Place(timers, EndTimer), EndTimer)
        BY <2>1, <2>2, AddedInserts
    <3> QED
        BY <2>1, <3>1, <3>2, InsertedRange DEF Placed, ApartInv, Listed
  <2>6. ApartInv'
      BY <2>2, <2>3, <2>4, <2>5 DEF Placed, ApartInv, Somewhere
  <2>7. OwesInv'
    <3>1. \A x : Owes(x) => Owes(x)'
        BY <2>2 DEF Owes
    <3>2. PICK x : x = EndTimer
        OBVIOUS
    <3>3. Owes(x)'
        BY <2>1, <3>2, TimersAssumption DEF Owes
    <3> QED
        BY <2>3, <2>4, <2>5, <3>1, <3>2, <3>3 DEF Placed, OwesInv
  <2>8. DoneInv'
    <3>1. \A u \in Timers : Somewhere(u) => Somewhere(u)'
        BY <2>3, <2>4, <2>5 DEF Somewhere
    <3> QED
        BY <2>2, <3>1 DEF Placed, DoneInv
  <2> QED
      BY <2>6, <2>7, <2>8 DEF Placed
<1> QED
    BY <1>1, <1>2

LEMMA EnqueuePlaces ==
    ASSUME Wise, Placed, Enqueue
    PROVE  Placed'
<1> DEFINE x == timers[cursor]
<1>1. /\ x \in Timer /\ x \in Listed /\ timers' = RemoveAt(timers, cursor)
      /\ Removed(timers', timers, cursor) /\ timers \in Seq(Timer)
      /\ jobs' = Append(jobs, x) /\ jobs \in Seq(Timer)
      /\ at' = at /\ held' = held /\ runs' = runs /\ added' = added /\ owner' = owner
    BY CursorTimer DEF Wise, TypeOK, Enqueue, ending
<1> HIDE DEF x
<1>2. /\ Listed' = Listed \ {x} /\ Distinct(timers') /\ \A y \in Listed' : y.id # x.id
    BY <1>1, RemovedRange DEF Placed, ApartInv, Listed, x
<1>3. Pooled' = Pooled \cup {x} /\ Distinct(jobs')
    BY <1>1, AppendedRange DEF Placed, ApartInv, Pooled
<1>4. \A w \in Workers : Carries(w)' = Carries(w)
    BY <1>1 DEF Carries
<1>5. ApartInv'
    BY <1>1, <1>2, <1>3, <1>4 DEF Placed, ApartInv, Somewhere
<1>6. OwesInv'
  <2>1. \A y : Owes(y)' = Owes(y)
      BY <1>1 DEF Owes
  <2> QED
      BY <1>1, <1>2, <1>3, <1>4, <2>1 DEF Placed, OwesInv
<1>7. DoneInv'
  <2>1. \A u \in Timers : Somewhere(u) => Somewhere(u)'
      BY <1>1, <1>2, <1>3, <1>4 DEF Somewhere
  <2> QED
      BY <1>1, <2>1 DEF Placed, DoneInv
<1> QED
    BY <1>5, <1>6, <1>7 DEF Placed


\* Once a timer has run, its next entry owes one run less, Round later.
LEMMA OwesNext ==
    ASSUME Wise, NEW x \in Timer, Owes(x), Count(x), added' = added
    PROVE  /\ x.left > 1 => Owes(Next_(x))'
           /\ \A y : Owes(y) /\ y.id # x.id => Owes(y)'
           /\ x.id \in Timers /\ ~(x.left > 1) => runs'[x.id] = Times[x.id]
<1>1. /\ runs' \in [Timers -> Nat]
      /\ x.id \in Timers => runs'[x.id] = runs[x.id] + 1
      /\ \A t \in Timers : t # x.id => runs'[t] = runs[t]
    BY RunsType DEF Wise
<1>2. ASSUME x.left > 1 PROVE Owes(Next_(x))'
  <2>1. PICK y : y = Next_(x)
      OBVIOUS
  <2>2. y.id = x.id /\ y.when = x.when + Round /\ y.left = x.left - 1
      BY <1>2, <2>1, NextType
  <2>3. ASSUME x.id \in Timers PROVE Owes(y)'
    <3>1. PICK r \in Nat, d \in Nat, n \in Nat : r = runs[x.id] /\ d = Round /\ n = When[x.id]
        BY <2>3, TimersAssumption DEF Wise, TypeOK
    <3>2. n + (r + 1) * d = n + r * d + d
        OBVIOUS
    <3>3. x.id \in Range(added) /\ x.left + r = Times[x.id] /\ x.when = n + r * d
        BY <2>3, <3>1 DEF Owes
    <3>4. runs'[x.id] = r + 1
        BY <1>1, <2>3, <3>1
    <3>5. y.when = When[x.id] + runs'[x.id] * Round
        BY <2>2, <3>1, <3>2, <3>3, <3>4
    <3>6. x.left \in Nat /\ y.left = x.left - 1
        BY <2>2, TimerFields
    <3>7. y.left + runs'[x.id] = Times[x.id]
        BY <3>3, <3>4, <3>6
    <3> QED
        BY <2>2, <3>3, <3>5, <3>7 DEF Owes
  <2>4. ASSUME x.id \notin Timers PROVE Owes(y)'
      BY <2>2, <2>4 DEF Owes
  <2> QED
      BY <2>1, <2>3, <2>4 DEF Next_
<1>3. ASSUME NEW y, Owes(y), y.id # x.id PROVE Owes(y)'
    BY <1>1, <1>3 DEF Owes
<1>4. ASSUME x.id \in Timers, ~(x.left > 1) PROVE runs'[x.id] = Times[x.id]
  <2>1. x.left = 1
      BY <1>4, TimerFields
  <2>2. 1 + runs[x.id] = Times[x.id] /\ runs[x.id] \in Nat
      BY <1>4, <2>1 DEF Owes, Wise, TypeOK
  <2> QED
      BY <1>1, <1>4, <2>2
<1> QED
    BY <1>2, <1>3, <1>4

\* What a repetition adds to the list.
LEMMA RepeatedRange ==
    ASSUME NEW list \in Seq(Timer), NEW x \in Timer, Distinct(list),
           \A y \in Range(list) : y.id # x.id
    PROVE  /\ Range(Repeated(list, x)) = Range(list) \cup (IF x.left > 1 THEN {Next_(x)} ELSE {})
           /\ Distinct(Repeated(list, x))
<1>1. CASE x.left > 1
  <2>1. Next_(x) \in Timer /\ Next_(x).id = x.id
      BY <1>1, NextType
  <2>2. Inserted(Added(list, Next_(x)), list, Place(list, Next_(x)), Next_(x))
      BY <2>1, AddedInserts
  <2>3. /\ Range(Added(list, Next_(x))) = Range(list) \cup {Next_(x)}
        /\ Distinct(Added(list, Next_(x)))
      BY <2>1, <2>2, InsertedRange
  <2> QED
      BY <1>1, <2>3 DEF Repeated
<1>2. CASE ~(x.left > 1)
    BY <1>2 DEF Repeated
<1> QED
    BY <1>1, <1>2

LEMMA CallPlaces ==
    ASSUME Wise, Placed, Call
    PROVE  Placed'
<1>1. PICK x : x = timers[cursor]
    OBVIOUS
<1>2. PICK rest : rest = RemoveAt(timers, cursor)
    OBVIOUS
<1>3. PICK next : next = IF x.left > 1 THEN {Next_(x)} ELSE {}
    OBVIOUS
<1>4. /\ x \in Timer /\ x \in Listed /\ Removed(rest, timers, cursor) /\ rest \in Seq(Timer)
      /\ timers \in Seq(Timer) /\ timers' = Repeated(rest, x) /\ Count(x)
      /\ jobs' = jobs /\ at' = at /\ held' = held /\ added' = added /\ owner' = owner
      /\ ~pooled
    BY <1>1, <1>2, CursorTimer DEF Wise, TypeOK, Call, working, ending
<1>5. /\ Range(rest) = Listed \ {x} /\ Distinct(rest) /\ \A y \in Range(rest) : y.id # x.id
    BY <1>1, <1>4, RemovedRange DEF Placed, ApartInv, Listed
<1>6. Listed' = (Listed \ {x}) \cup next /\ Distinct(timers')
    BY <1>3, <1>4, <1>5, RepeatedRange DEF Listed
<1>7. \A y \in next : y.id = x.id /\ x.left > 1 /\ y = Next_(x)
    BY <1>3, <1>4, NextType
<1>8. /\ Pooled = {} /\ Pooled' = {} /\ \A w \in Workers : ~Carries(w) /\ ~Carries(w)'
    BY <1>4 DEF Wise, WorkersInv, Pooled, Range, Carries
<1>9. ApartInv'
    BY <1>4, <1>6, <1>7, <1>8 DEF Placed, ApartInv, Somewhere
<1>10. /\ x.left > 1 => Owes(Next_(x))'
       /\ \A y : Owes(y) /\ y.id # x.id => Owes(y)'
       /\ x.id \in Timers /\ ~(x.left > 1) => runs'[x.id] = Times[x.id]
    BY <1>4, OwesNext DEF Placed, OwesInv
<1>11. OwesInv'
  <2>1. \A y \in next : Owes(y)'
    <3> SUFFICES ASSUME NEW y \in next PROVE Owes(y)'
        OBVIOUS
    <3>1. x.left > 1 /\ y = Next_(x)
        BY <1>7
    <3>2. Owes(Next_(x))'
        BY <1>10, <3>1
    <3> QED
        BY <3>1, <3>2, Zenon DEF Next_
  <2>2. \A y \in Listed \ {x} : Owes(y)'
      BY <1>5, <1>10 DEF Placed, OwesInv
  <2> QED
      BY <1>6, <1>8, <2>1, <2>2 DEF OwesInv
<1>12. DoneInv'
  <2>1. ASSUME NEW t \in Timers, t # x.id
        PROVE  (Somewhere(t) => Somewhere(t)') /\ runs'[t] = runs[t]
      BY <1>4, <1>6, <1>8, <2>1, RunsType DEF Somewhere, Wise
  <2>2. CASE x.left > 1
    <3>1. Next_(x) \in Listed' /\ Next_(x).id = x.id
        BY <1>3, <1>4, <1>6, <1>7, <2>2
    <3>2. Somewhere(x.id)'
        BY <3>1, <1>7, <2>2 DEF Somewhere
    <3> QED
        BY <1>4, <2>1, <3>2 DEF Placed, DoneInv, OwesInv, Owes
  <2>3. CASE ~(x.left > 1)
      BY <1>4, <1>10, <2>1, <2>3 DEF Placed, DoneInv, OwesInv, Owes
  <2> QED
      BY <2>2, <2>3
<1> QED
    BY <1>9, <1>11, <1>12 DEF Placed

LEMMA FetchPlaces ==
    ASSUME Wise, Placed, NEW w \in Workers, Fetch(w)
    PROVE  Placed'
<1>1. PICK x : x = Head(jobs)
    OBVIOUS
<1>2. /\ x \in Timer /\ x \in Pooled /\ Pooled' = Pooled \ {x}
      /\ Distinct(jobs') /\ \A y \in Pooled' : y.id # x.id
    BY <1>1, TailRange DEF Wise, TypeOK, Fetch, Placed, ApartInv, Pooled
<1>3. /\ at[w] = "idle" /\ at'[w] = "task" /\ held'[w] = x
      /\ \A v \in Workers : v # w => at'[v] = at[v] /\ held'[v] = held[v]
      /\ timers' = timers /\ Listed' = Listed /\ runs' = runs /\ added' = added /\ owner' = owner
    BY <1>1 DEF Wise, TypeOK, Fetch, ending, Listed
<1>4. Carries(w)' /\ ~Carries(w) /\ \A v \in Workers : v # w => Carries(v)' = Carries(v)
    BY <1>3 DEF Carries
<1>5. ApartInv'
    BY <1>2, <1>3, <1>4 DEF Placed, ApartInv, Somewhere
<1>6. OwesInv'
  <2>1. \A y : Owes(y)' = Owes(y)
      BY <1>3 DEF Owes
  <2> QED
      BY <1>2, <1>3, <1>4, <2>1 DEF Placed, OwesInv
<1>7. DoneInv'
  <2>1. \A u \in Timers : Somewhere(u) => Somewhere(u)'
      BY <1>2, <1>3, <1>4 DEF Somewhere
  <2> QED
      BY <1>3, <2>1 DEF Placed, DoneInv
<1> QED
    BY <1>5, <1>6, <1>7 DEF Placed

LEMMA RunTaskPlaces ==
    ASSUME Wise, Placed, NEW w \in Workers, RunTask(w)
    PROVE  Placed'
<1>1. PICK x : x = held[w]
    OBVIOUS
<1>2. /\ at[w] = "task" /\ at'[w] = "after" /\ held' = held /\ Count(x)
      /\ \A v \in Workers : v # w => at'[v] = at[v]
      /\ timers' = timers /\ Listed' = Listed /\ jobs' = jobs /\ Pooled' = Pooled
      /\ added' = added /\ owner' = owner
    BY <1>1 DEF Wise, TypeOK, RunTask, ending, Listed, Pooled
<1>3. Carries(w) /\ x \in Timer /\ Owes(x)
    BY <1>1, <1>2, HeldTimer DEF Carries, Placed, OwesInv, Wise
<1>4. /\ \A v \in Workers : v # w => Carries(v)' = Carries(v)
      /\ Carries(w)' <=> x.left > 1
    BY <1>1, <1>2 DEF Carries
<1>5. ApartInv'
    BY <1>2, <1>3, <1>4 DEF Placed, ApartInv, Somewhere
<1>6. /\ x.left > 1 => Owes(Next_(x))'
      /\ \A y : Owes(y) /\ y.id # x.id => Owes(y)'
      /\ x.id \in Timers /\ ~(x.left > 1) => runs'[x.id] = Times[x.id]
    BY <1>2, <1>3, OwesNext
<1>7. OwesInv'
  <2>1. \A y \in Listed' \cup Pooled' : Owes(y)'
      BY <1>1, <1>2, <1>3, <1>6 DEF Placed, ApartInv, OwesInv
  <2>2. ASSUME NEW v \in Workers, Carries(v)', v # w
        PROVE  Owes(IF at[v] = "task" THEN held[v] ELSE Next_(held[v]))'
    <3>1. Carries(v) /\ held[v].id # x.id
        BY <1>1, <1>3, <1>4, <2>2 DEF Placed, ApartInv
    <3>2. PICK y : y = IF at[v] = "task" THEN held[v] ELSE Next_(held[v])
        OBVIOUS
    <3>3. Owes(y) /\ y.id # x.id
        BY <3>1, <3>2, CarriedTimer DEF Placed, OwesInv, Carries
    <3>4. Owes(y)' /\ at'[v] = at[v] /\ held'[v] = held[v]
        BY <1>2, <1>6, <2>2, <3>3
    <3> QED
        BY <3>2, <3>4 DEF Next_
  <2>3. ASSUME Carries(w)'
        PROVE  Owes(IF at[w] = "task" THEN held[w] ELSE Next_(held[w]))'
    <3>1. x.left > 1 /\ at'[w] = "after" /\ held'[w] = x
        BY <1>1, <1>2, <1>4, <2>3
    <3> QED
        BY <1>6, <3>1 DEF Next_
  <2> QED
      BY <2>1, <2>2, <2>3 DEF OwesInv
<1>8. DoneInv'
  <2>1. ASSUME NEW t \in Timers, t # x.id
        PROVE  (Somewhere(t) => Somewhere(t)') /\ runs'[t] = runs[t]
      BY <1>1, <1>2, <1>3, <1>4, <2>1, RunsType DEF Somewhere, Wise
  <2>2. CASE x.left > 1
    <3>1. Somewhere(x.id)'
        BY <1>1, <1>2, <1>4, <2>2 DEF Somewhere
    <3> QED
        BY <1>2, <1>3, <2>1, <3>1 DEF Placed, DoneInv, Owes
  <2>3. CASE ~(x.left > 1)
      BY <1>2, <1>3, <1>6, <2>1, <2>3 DEF Placed, DoneInv, Owes
  <2> QED
      BY <2>2, <2>3
<1> QED
    BY <1>5, <1>7, <1>8 DEF Placed

LEMMA AfterPlaces ==
    ASSUME Wise, Placed, NEW w \in Workers, After(w)
    PROVE  Placed'
<1>1. PICK x : x = held[w]
    OBVIOUS
<1>2. /\ at[w] = "after" /\ at'[w] = "release" /\ held' = held
      /\ \A v \in Workers : v # w => at'[v] = at[v]
      /\ timers' = Repeated(timers, x) /\ jobs' = jobs /\ Pooled' = Pooled
      /\ runs' = runs /\ added' = added /\ owner' = owner
    BY <1>1 DEF Wise, TypeOK, After, ending, Pooled
<1>3. /\ \A v \in Workers : v # w => Carries(v)' = Carries(v)
      /\ ~Carries(w)' /\ (Carries(w) <=> x.left > 1)
    BY <1>1, <1>2 DEF Carries
<1>4. CASE ~(x.left > 1)
    BY <1>2, <1>3, <1>4, StillPlaced DEF Repeated
<1>5. CASE x.left > 1
  <2>1. x \in Timer /\ timers \in Seq(Timer) /\ Carries(w)
      BY <1>1, <1>3, <1>5, CarriedTimer DEF Wise, TypeOK
  <2>2. PICK y : y = Next_(x)
      OBVIOUS
  <2>3. y \in Timer /\ y.id = x.id
      BY <1>5, <2>1, <2>2, NextType
  <2>4. Listed' = Listed \cup {y} /\ Distinct(timers')
    <3>1. Distinct(timers) /\ \A z \in Range(timers) : z.id # x.id
        BY <1>1, <2>1 DEF Placed, ApartInv, Listed
    <3> QED
        BY <1>2, <1>5, <2>1, <2>2, <3>1, RepeatedRange DEF Listed
  <2>5. ApartInv'
    <3>1. x.id # End
      <4>1. pooled /\ owner # "ending"
          BY <2>1, CarriedTimer DEF Wise, LockInv
      <4> QED
          BY <1>1, <2>1, <4>1 DEF Placed, ApartInv, Somewhere
    <3> QED
        BY <1>1, <1>2, <1>3, <2>1, <2>3, <2>4, <3>1 DEF Placed, ApartInv, Somewhere
  <2>6. OwesInv'
    <3>1. \A z : Owes(z)' = Owes(z)
        BY <1>2 DEF Owes
    <3>2. Owes(y)
        BY <1>1, <1>2, <2>1, <2>2 DEF Placed, OwesInv
    <3> QED
        BY <1>2, <1>3, <2>4, <3>1, <3>2 DEF Placed, OwesInv
  <2>7. DoneInv'
    <3>1. \A u \in Timers : Somewhere(u) => Somewhere(u)'
        BY <1>1, <1>2, <1>3, <2>3, <2>4 DEF Somewhere
    <3> QED
        BY <1>2, <3>1 DEF Placed, DoneInv
  <2> QED
      BY <2>5, <2>6, <2>7 DEF Placed
<1> QED
    BY <1>4, <1>5


LEMMA PlacedStep ==
    ASSUME Wise, Placed, [Next]_vars
    PROVE  Placed'
<1>1. CASE Pass
    BY <1>1, StillPlaced DEF Pass, working, ending, Carries
<1>2. ASSUME NEW t \in Timers, Add(t) PROVE Placed'
    BY <1>2, AddPlaces
<1>3. CASE TickBegin \/ Look \/ RunEnds
    BY <1>3, StillPlaced DEF TickBegin, Look, RunEnds, working, ending, Carries
<1>4. CASE Enqueue
    BY <1>4, EnqueuePlaces
<1>5. CASE Call
    BY <1>5, CallPlaces
<1>6. ASSUME NEW w \in Workers, Fetch(w) PROVE Placed'
    BY <1>6, FetchPlaces
<1>7. ASSUME NEW w \in Workers, RunTask(w) PROVE Placed'
    BY <1>7, RunTaskPlaces
<1>8. ASSUME NEW w \in Workers, After(w) PROVE Placed'
    BY <1>8, AfterPlaces
<1>9. ASSUME NEW w \in Workers, Release(w) \/ Exit(w) PROVE Placed'
  <2>1. /\ UNCHANGED <<timers, jobs, added, runs, owner>>
        /\ \A v \in Workers : v # w => at'[v] = at[v] /\ held'[v] = held[v]
        /\ at[w] \notin {"task", "after"} /\ at'[w] \notin {"task", "after"}
      BY <1>9 DEF Wise, TypeOK, Release, Exit, ending
  <2>2. \A v \in Workers : /\ Carries(v)' <=> Carries(v)
                           /\ Carries(v) => at'[v] = at[v] /\ held'[v] = held[v]
      BY <2>1 DEF Carries
  <2> QED
      BY <2>1, <2>2, StillPlaced
<1>10. CASE RestJobs \/ RestJobsReturns \/ Shutdown \/ Join
    BY <1>10, StillPlaced DEF RestJobs, RestJobsReturns, Shutdown, Join, working, Carries
<1>11. CASE SetTerminationAtEnd
    BY <1>11, EndPlaces
<1>12. CASE UNCHANGED vars
    BY <1>12, StillPlaced DEF vars, working, ending, Carries
<1> QED
    BY <1>1, <1>2, <1>3, <1>4, <1>5, <1>6, <1>7, <1>8, <1>9, <1>10, <1>11, <1>12 DEF Next, Tick, Work

----------------------------------------------------------------------------
(* Runs are counted once, at their time, and never beyond the last. *)

\* A run is that of a timer that is due, by Tick() or by a worker.
LEMMA WhatRuns ==
    ASSUME Wise, Placed, DueInv, [Next]_vars
    PROVE  \/ runs' = runs
           \/ \E x \in Timer : /\ Owes(x) /\ Count(x) /\ x.when <= now
                               /\ UNCHANGED <<now, due, added>>
<1>1. CASE Call
    BY <1>1, CursorTimer DEF Call, Wise, Placed, OwesInv, ending
<1>2. ASSUME NEW w \in Workers, RunTask(w)
      PROVE  \E x \in Timer : /\ Owes(x) /\ Count(x) /\ x.when <= now
                              /\ UNCHANGED <<now, due, added>>
    BY <1>2, HeldTimer DEF RunTask, Wise, Placed, OwesInv, Carries, DueInv, ending
<1>3. runs' = runs \/ Call \/ \E w \in Workers : RunTask(w)
    BY DEF Next, vars, Tick, Work, Pass, Add, TickBegin, Look, Enqueue, RunEnds, Fetch, After,
           Release, Exit, RestJobs, RestJobsReturns, Shutdown, Join, SetTerminationAtEnd
<1> QED
    BY <1>1, <1>2, <1>3

LEMMA TimeGoesOn ==
    ASSUME TypeOK, [Next]_vars
    PROVE  now \in Nat /\ now' \in Nat /\ now <= now'
<1>1. now \in Nat
    BY TimersAssumption DEF TypeOK
<1>2. now' = now \/ now' = now + 1
    BY DEF Next, vars, Tick, Work, Pass, Add, TickBegin, Look, Enqueue, Call, RunEnds, Fetch,
           RunTask, After, Release, Exit, RestJobs, RestJobsReturns, Shutdown, Join,
           SetTerminationAtEnd
<1> QED
    BY <1>1, <1>2

LEMMA DueStep ==
    ASSUME Wise, Placed, DueInv, [Next]_vars
    PROVE  DueInv'
<1>1. now \in Nat /\ now' \in Nat /\ now <= now'
    BY TimeGoesOn DEF Wise
<1>2. \A x \in Timer : x.when <= now => x.when <= now'
    BY <1>1, TimerFields
<1>3. \A x \in Pooled : x \in Timer
    BY ElementType DEF Wise
<1>4. \A w \in Workers : at[w] = "task" => held[w] \in Timer
    BY HeldTimer DEF Wise
<1>5. CASE UNCHANGED <<jobs, at, held>>
    BY <1>2, <1>3, <1>4, <1>5 DEF DueInv, Pooled
<1>6. CASE Enqueue
  <2>1. timers[cursor] \in Timer /\ timers[cursor].when <= now /\ jobs \in Seq(Timer)
      BY <1>6, CursorTimer DEF Enqueue, Wise, TypeOK
  <2>2. Pooled' = Pooled \cup {timers[cursor]} /\ UNCHANGED <<at, held>>
      BY <1>6, <2>1, AppendedRange DEF Enqueue, Pooled
  <2> QED
      BY <1>2, <1>3, <1>4, <2>1, <2>2 DEF DueInv
<1>7. ASSUME NEW w \in Workers, Fetch(w) PROVE DueInv'
  <2>1. Head(jobs) \in Pooled /\ Pooled' \subseteq Pooled
      BY <1>7, TailRange DEF Fetch, Pooled, Placed, ApartInv, Wise, TypeOK
  <2> QED
      BY <1>2, <1>3, <1>4, <1>7, <2>1 DEF DueInv, Fetch, Wise, TypeOK
<1>8. ASSUME NEW w \in Workers, RunTask(w) \/ After(w) \/ Release(w) \/ Exit(w) PROVE DueInv'
  <2>1. /\ Pooled' = Pooled
        /\ \A v \in Workers : at'[v] = "task" => at[v] = "task" /\ held'[v] = held[v]
      BY <1>8 DEF RunTask, After, Release, Exit, Pooled, Wise, TypeOK
  <2> QED
      BY <1>2, <1>3, <1>4, <2>1 DEF DueInv
<1> QED
    BY <1>5, <1>6, <1>7, <1>8, WorkersAside DEF Work

LEMMA EarlyStep ==
    ASSUME Wise, Placed, DueInv, NeverEarly, [Next]_vars
    PROVE  NeverEarly'
<1> SUFFICES ASSUME NEW t \in Timers, runs'[t] > 0
             PROVE  When[t] + (runs'[t] - 1) * Round <= now'
    BY DEF NeverEarly
<1>1. PICK r \in Nat, n \in Nat, d \in Nat : r = runs[t] /\ n = When[t] /\ d = Round
    BY TimersAssumption DEF Wise, TypeOK
<1>2. now \in Nat /\ now' \in Nat /\ now <= now'
    BY TimeGoesOn DEF Wise
<1>3. CASE runs'[t] = r
  <2>1. n + (r - 1) * d <= now /\ r > 0
      BY <1>1, <1>3 DEF NeverEarly
  <2>2. (r - 1) * d \in Nat
      BY <2>1
  <2> QED
      BY <1>1, <1>2, <1>3, <2>1, <2>2
<1>4. CASE runs'[t] # r
  <2>1. PICK x \in Timer : Owes(x) /\ Count(x) /\ x.when <= now
      BY <1>1, <1>4, WhatRuns
  <2>2. x.id = t /\ runs'[t] = r + 1
      BY <1>1, <1>4, <2>1, RunsType DEF Wise
  <2>3. n + r * d <= now /\ (r + 1) - 1 = r /\ r * d \in Nat
      BY <1>1, <2>1, <2>2 DEF Owes
  <2> QED
      BY <1>1, <1>2, <2>2, <2>3
<1> QED
    BY <1>3, <1>4

\* RestJobs() returns 0 when the list was empty under the mutex it still holds
\* and the pool has neither jobs nor busy workers.
LEMMA RestJobsSees ==
    ASSUME Wise, Placed, owner = "resting", size + workerRunning = 0
    PROVE  \A t \in Timers : ~Somewhere(t)
<1> DEFINE Busy == {w \in Workers : held[w] # NoTimer}
<1>1. IsFiniteSet(Busy)
    BY TimersAssumption, FS_Subset
<1>2. Cardinality(Busy) \in Nat /\ (Cardinality(Busy) = 0 <=> Busy = {})
    BY <1>1, FS_CardinalityType, FS_EmptySet
<1>3. size = Len(timers) /\ size \in Nat /\ Len(jobs) \in Nat
    BY LenProperties DEF Wise, LockInv, TypeOK
<1>4. Len(timers) = 0 /\ Len(jobs) = 0 /\ Busy = {}
    BY <1>2, <1>3 DEF workerRunning
<1>5. Listed = {} /\ Pooled = {}
    BY <1>4, EmptySeq DEF Wise, TypeOK, Listed, Pooled, Range
<1>6. \A w \in Workers : ~Carries(w)
    BY <1>4 DEF Wise, WorkersInv, Carries
<1> QED
    BY <1>5, <1>6 DEF Somewhere

LEMMA PolledStep ==
    ASSUME Wise, Placed, DueInv, PolledIsDone, [Next]_vars
    PROVE  PolledIsDone'
<1>1. due \subseteq Timers
    BY DEF Wise, TypeOK
<1>2. CASE runs' = runs /\ due' = due
    BY <1>2 DEF PolledIsDone
<1>3. CASE runs' # runs
  <2>1. PICK x \in Timer : Owes(x) /\ Count(x) /\ due' = due
      BY <1>3, WhatRuns
  <2>2. ASSUME NEW t \in due PROVE t # x.id
    <3>1. t \in Timers /\ runs[t] \in Nat /\ runs[t] = Times[t] /\ x.left \in Nat \ {0}
        BY <1>1, TimerFields DEF Wise, TypeOK, PolledIsDone
    <3> QED
        BY <2>1, <3>1 DEF Owes
  <2> QED
      BY <1>1, <2>1, <2>2, RunsType DEF Wise, PolledIsDone
<1>4. CASE RestJobsReturns
  <2>1. CASE due' = due
      BY <1>4, <2>1 DEF RestJobsReturns, PolledIsDone
  <2>2. CASE due' # due
    <3>1. /\ owner = "resting" /\ size + workerRunning = 0 /\ due' = Range(added) /\ runs' = runs
        BY <1>4, <2>2 DEF RestJobsReturns
    <3>2. Range(added) \subseteq Timers
        BY ElementOfSeq, LenProperties DEF Wise, TypeOK, Range
    <3> QED
        BY <3>1, <3>2, RestJobsSees DEF PolledIsDone, Placed, DoneInv
  <2> QED
      BY <2>1, <2>2
<1>5. due' = due \/ RestJobsReturns
    BY DEF Next, vars, Tick, Work, Pass, Add, TickBegin, Look, Enqueue, Call, RunEnds, Fetch,
           RunTask, After, Release, Exit, RestJobs, Shutdown, Join, SetTerminationAtEnd, ending
<1> QED
    BY <1>2, <1>3, <1>4, <1>5

LEMMA ConservedInvariant == Spec => [](Wise /\ ConservedInv)
<1>1. Init => ConservedInv
  <2> SUFFICES ASSUME Init PROVE ConservedInv
      OBVIOUS
  <2>1. Listed = {} /\ Pooled = {} /\ Range(added) = {} /\ \A w \in Workers : ~Carries(w)
      BY DEF Init, Listed, Pooled, Range, Carries
  <2>2. Distinct(timers) /\ Distinct(jobs)
      BY DEF Init, Distinct
  <2>3. ApartInv /\ OwesInv
      BY <2>1, <2>2 DEF ApartInv, OwesInv, Somewhere
  <2>4. DoneInv /\ DueInv /\ NeverEarly /\ PolledIsDone
      BY <2>1 DEF Init, DoneInv, DueInv, NeverEarly, PolledIsDone
  <2> QED
      BY <2>3, <2>4 DEF ConservedInv
<1>2. Wise /\ ConservedInv /\ [Next]_vars => ConservedInv'
  <2> SUFFICES ASSUME Wise, ConservedInv, [Next]_vars PROVE ConservedInv'
      OBVIOUS
  <2>1. Placed /\ DueInv /\ NeverEarly /\ PolledIsDone
      BY DEF ConservedInv, Placed
  <2>2. Placed' /\ DueInv' /\ NeverEarly' /\ PolledIsDone'
      BY <2>1, PlacedStep, DueStep, EarlyStep, PolledStep
  <2> QED
      BY <2>2 DEF ConservedInv, Placed
<1>3. Spec => []Wise
    BY TimersTypeInvariant, PTL DEF Wise
<1> QED
    BY <1>1, <1>2, <1>3, PTL DEF Spec

\* What Left(t) is made of.
LEMMA LeftIs ==
    ASSUME NEW t, NEW p
    PROVE  p \in Left(t) <=>
              \/ \E i \in DOMAIN timers : timers[i].id = t /\ p = <<"list", i, timers[i].left>>
              \/ \E i \in DOMAIN jobs : jobs[i].id = t /\ p = <<"pool", i, jobs[i].left>>
              \/ \E w \in Workers : /\ at[w] = "task" /\ held[w].id = t
                                    /\ p = <<"task", w, held[w].left>>
              \/ \E w \in Workers : /\ at[w] = "after" /\ held[w].id = t /\ held[w].left > 1
                                    /\ p = <<"after", w, held[w].left - 1>>
BY DEF Left

LEMMA LeftNowhere ==
    ASSUME NEW t, ~Somewhere(t)
    PROVE  Left(t) = {}
<1>1. \A i \in DOMAIN timers : timers[i].id # t
    BY DEF Somewhere, Listed, Range
<1>2. \A i \in DOMAIN jobs : jobs[i].id # t
    BY DEF Somewhere, Pooled, Range
<1>3. \A w \in Workers : Carries(w) => held[w].id # t
    BY DEF Somewhere
<1>4. ASSUME NEW p \in Left(t) PROVE FALSE
    BY <1>1, <1>2, <1>3, LeftIs, Zenon DEF Carries
<1> QED
    BY <1>4

\* A timer that is somewhere is there once.
LEMMA LeftOnce ==
    ASSUME Wise, Placed, NEW t \in Timers, Somewhere(t)
    PROVE  \E p \in Left(t) : Left(t) = {p} /\ p[3] + runs[t] = Times[t]
<1>1. CASE \E x \in Listed : x.id = t
  <2>1. PICK i \in DOMAIN timers : timers[i].id = t
      BY <1>1 DEF Listed, Range
  <2>2. timers[i] \in Listed /\ timers[i].left + runs[t] = Times[t]
      BY <2>1 DEF Listed, Range, Placed, OwesInv, Owes
  <2>3. /\ \A j \in DOMAIN timers : timers[j].id = t => j = i
        /\ \A j \in DOMAIN jobs : jobs[j].id # t
        /\ \A w \in Workers : Carries(w) => held[w].id # t
      BY <2>1, <2>2 DEF Placed, ApartInv, Distinct, Pooled, Range
  <2>4. PICK p : p = <<"list", i, timers[i].left>>
      OBVIOUS
  <2>5. p \in Left(t)
      BY <2>1, <2>4, LeftIs, Zenon
  <2>6. ASSUME NEW q \in Left(t) PROVE q = p
      BY <2>3, <2>4, LeftIs, Zenon DEF Carries
  <2> QED
      BY <2>2, <2>4, <2>5, <2>6
<1>2. CASE \E x \in Pooled : x.id = t
  <2>1. PICK i \in DOMAIN jobs : jobs[i].id = t
      BY <1>2 DEF Pooled, Range
  <2>2. jobs[i] \in Pooled /\ jobs[i].left + runs[t] = Times[t]
      BY <2>1 DEF Pooled, Range, Placed, OwesInv, Owes
  <2>3. /\ \A j \in DOMAIN jobs : jobs[j].id = t => j = i
        /\ \A j \in DOMAIN timers : timers[j].id # t
        /\ \A w \in Workers : Carries(w) => held[w].id # t
      BY <2>1, <2>2 DEF Placed, ApartInv, Distinct, Listed, Range
  <2>4. PICK p : p = <<"pool", i, jobs[i].left>>
      OBVIOUS
  <2>5. p \in Left(t)
      BY <2>1, <2>4, LeftIs, Zenon
  <2>6. ASSUME NEW q \in Left(t) PROVE q = p
      BY <2>3, <2>4, LeftIs, Zenon DEF Carries
  <2> QED
      BY <2>2, <2>4, <2>5, <2>6
<1>3. ASSUME NEW w \in Workers, Carries(w), held[w].id = t
      PROVE  \E p \in Left(t) : Left(t) = {p} /\ p[3] + runs[t] = Times[t]
  <2>1. /\ \A j \in DOMAIN timers : timers[j].id # t
        /\ \A j \in DOMAIN jobs : jobs[j].id # t
        /\ \A v \in Workers : Carries(v) /\ held[v].id = t => v = w
      BY <1>3 DEF Placed, ApartInv, Listed, Pooled, Range
  <2>2. held[w] \in Timer
      BY <1>3, CarriedTimer
  <2>3. CASE at[w] = "task"
    <3>1. PICK p : p = <<"task", w, held[w].left>>
        OBVIOUS
    <3>2. p \in Left(t)
        BY <1>3, <2>3, <3>1, LeftIs, Zenon
    <3>3. ASSUME NEW q \in Left(t) PROVE q = p
      <4>1. at[w] # "after"
          BY <2>3
      <4>2. \A v \in Workers : at[v] = "task" /\ held[v].id = t => v = w
          BY <2>1 DEF Carries
      <4>3. \A v \in Workers : ~(at[v] = "after" /\ held[v].id = t /\ held[v].left > 1)
          BY <2>1, <4>1, Zenon DEF Carries
      <4> QED
          BY <2>1, <3>1, <4>2, <4>3, LeftIs, Zenon
    <3>4. held[w].left + runs[t] = Times[t]
        BY <1>3, <2>3 DEF Placed, OwesInv, Owes
    <3> QED
        BY <3>1, <3>2, <3>3, <3>4
  <2>4. CASE at[w] # "task"
    <3>1. at[w] = "after" /\ held[w].left > 1
        BY <1>3, <2>4 DEF Carries
    <3>2. PICK p : p = <<"after", w, held[w].left - 1>>
        OBVIOUS
    <3>3. p \in Left(t)
        BY <1>3, <3>1, <3>2, LeftIs, Zenon
    <3>4. ASSUME NEW q \in Left(t) PROVE q = p
        BY <2>1, <2>4, <3>2, LeftIs, Zenon DEF Carries
    <3>5. Next_(held[w]).id = t /\ Next_(held[w]).left = held[w].left - 1
        BY <1>3, <2>2, <3>1, NextType
    <3>6. held[w].left - 1 + runs[t] = Times[t]
        BY <1>3, <2>4, <3>5 DEF Placed, OwesInv, Owes
    <3> QED
        BY <3>2, <3>3, <3>4, <3>6
  <2> QED
      BY <2>3, <2>4
<1> QED
    BY <1>1, <1>2, <1>3 DEF Somewhere

\* A timer that was added is in the list, in the pool or with a worker, with
\* the runs that are left to it, until it has run as often as it is to.
THEOREM TimersAlwaysConserved == Spec => []TimersConserved
<1>1. Wise /\ ConservedInv => TimersConserved
  <2> SUFFICES ASSUME Wise, ConservedInv, NEW t \in Timers
               PROVE  IF t \notin Range(added) THEN Left(t) = {} /\ runs[t] = 0
                      ELSE IF Left(t) = {} THEN runs[t] = Times[t]
                      ELSE \E p \in Left(t) : Left(t) = {p} /\ p[3] + runs[t] = Times[t]
      BY DEF TimersConserved
  <2>1. Placed
      BY DEF ConservedInv, Placed
  <2>2. CASE t \notin Range(added)
      BY <2>1, <2>2, NotAdded, LeftNowhere DEF Placed, DoneInv
  <2>3. CASE t \in Range(added) /\ ~Somewhere(t)
      BY <2>1, <2>3, LeftNowhere DEF Placed, DoneInv
  <2>4. CASE t \in Range(added) /\ Somewhere(t)
      BY <2>1, <2>4, LeftOnce
  <2> QED
      BY <2>2, <2>3, <2>4
<1> QED
    BY <1>1, ConservedInvariant, PTL

\* When RestJobs() returned 0, all the timers added before are done for good.
THEOREM PolledAlwaysDone == Spec => []PolledIsDone
<1>1. ConservedInv => PolledIsDone
    BY DEF ConservedInv
<1> QED
    BY <1>1, ConservedInvariant, PTL


----------------------------------------------------------------------------
(* The order of the calls. *)

LEMMA InsertedSorted ==
    ASSUME NEW list \in Seq(Timer), NEW x \in Timer, NEW new, NEW p,
           Inserted(new, list, p, x), p = Place(list, x), Sorted(list)
    PROVE  /\ Sorted(new)
           /\ \A i \in DOMAIN list : i < p <=> list[i].when <= x.when
<1>1. /\ p \in 1..Len(list) + 1
      /\ p <= Len(list) => list[p].when > x.when
      /\ \A j \in 1..p - 1 : list[j].when <= x.when
    BY PlaceIs
<1>2. /\ DOMAIN list = 1..Len(list) /\ Len(list) \in Nat /\ x.when \in Nat
      /\ \A i \in DOMAIN list : list[i].when \in Nat
    BY ListFields, TimerFields
<1>3. ASSUME NEW i \in DOMAIN list PROVE i < p <=> list[i].when <= x.when
    BY <1>1, <1>2 DEF Sorted
<1>4. ASSUME NEW i \in DOMAIN new, NEW j \in DOMAIN new, i <= j
      PROVE  new[i].when <= new[j].when
  <2>1. i \in Nat /\ j \in Nat /\ p \in Nat
      BY <1>1, ListFields DEF Inserted
  <2>2. \A k \in DOMAIN new : k # p =>
           LET l == IF k < p THEN k ELSE k - 1
           IN  l \in DOMAIN list /\ new[k] = list[l]
      BY InsertedOld
  <2>3. new[p] = x
      BY InsertedOld
  <2>4. CASE i = p /\ j = p
      BY <1>2, <2>3, <2>4
  <2>5. CASE i = p /\ j # p
    <3>1. j - 1 \in DOMAIN list /\ new[j] = list[j - 1] /\ ~(j - 1 < p)
        BY <1>4, <2>1, <2>2, <2>5
    <3> QED
        BY <1>2, <1>3, <2>3, <2>5, <3>1
  <2>6. CASE i # p /\ j = p
    <3>1. i \in DOMAIN list /\ new[i] = list[i] /\ i < p
        BY <1>4, <2>1, <2>2, <2>6
    <3> QED
        BY <1>2, <1>3, <2>3, <2>6, <3>1
  <2>7. CASE i # p /\ j # p
    <3>1. PICK k \in DOMAIN list : k = (IF i < p THEN i ELSE i - 1) /\ new[i] = list[k]
        BY <2>2, <2>7
    <3>2. PICK l \in DOMAIN list : l = (IF j < p THEN j ELSE j - 1) /\ new[j] = list[l]
        BY <2>2, <2>7
    <3>3. k <= l
        BY <1>4, <2>1, <2>7, <3>1, <3>2
    <3> QED
        BY <3>1, <3>2, <3>3 DEF Sorted
  <2> QED
      BY <2>4, <2>5, <2>6, <2>7
<1> QED
    BY <1>3, <1>4 DEF Sorted

\* A timer added while Tick() is at c goes to one side of c or the other.
LEMMA InsertedPassed ==
    ASSUME NEW list \in Seq(Timer), NEW x \in Timer, NEW new, NEW p, NEW c \in DOMAIN list,
           Inserted(new, list, p, x), p = Place(list, x), Sorted(list), Passed(list, c)
    PROVE  Passed(new, IF p <= c THEN c + 1 ELSE c)
<1> DEFINE d == IF p <= c THEN c + 1 ELSE c
<1>1. /\ DOMAIN list \subseteq Nat /\ DOMAIN new \subseteq Nat /\ p \in Nat /\ x.when \in Nat
      /\ \A i \in DOMAIN list : list[i].when \in Nat
    BY ListFields, TimerFields DEF Inserted
<1>2. \A i \in DOMAIN list : i < p <=> list[i].when <= x.when
    BY InsertedSorted
<1> SUFFICES ASSUME NEW i \in DOMAIN new, NEW j \in DOMAIN new, i < d, d <= j
             PROVE  new[i].when < new[j].when
    BY DEF Passed
<1>3. \A k \in DOMAIN new : k # p =>
         LET l == IF k < p THEN k ELSE k - 1
         IN  l \in DOMAIN list /\ new[k] = list[l]
    BY InsertedOld
<1>4. new[p] = x
    BY InsertedOld
<1>5. CASE i = p
  <2>1. p <= c /\ j # p /\ ~(j < p)
      BY <1>1, <1>5
  <2>2. j - 1 \in DOMAIN list /\ new[j] = list[j - 1] /\ c <= j - 1
      BY <1>1, <1>3, <1>5, <2>1
  <2>3. ~(list[c].when <= x.when) /\ list[c].when <= list[j - 1].when
      BY <1>1, <1>2, <2>1, <2>2 DEF Sorted
  <2> QED
      BY <1>1, <1>4, <1>5, <2>2, <2>3
<1>6. CASE j = p
  <2>1. c < p /\ i # p /\ i < p /\ i < c
      BY <1>1, <1>6
  <2>2. i \in DOMAIN list /\ new[i] = list[i]
      BY <1>3, <2>1
  <2>3. list[c].when <= x.when /\ list[i].when < list[c].when
      BY <1>1, <1>2, <2>1, <2>2 DEF Passed
  <2> QED
      BY <1>1, <1>4, <1>6, <2>2, <2>3
<1>7. CASE i # p /\ j # p
  <2>1. PICK k \in DOMAIN list : k = (IF i < p THEN i ELSE i - 1) /\ new[i] = list[k]
      BY <1>3, <1>7
  <2>2. PICK l \in DOMAIN list : l = (IF j < p THEN j ELSE j - 1) /\ new[j] = list[l]
      BY <1>3, <1>7
  <2>3. k < c /\ c <= l
      BY <1>1, <1>7, <2>1, <2>2
  <2> QED
      BY <2>1, <2>2, <2>3 DEF Passed
<1> QED
    BY <1>5, <1>6, <1>7

LEMMA RemovedSorted ==
    ASSUME NEW list \in Seq(Timer), NEW new, NEW c, Removed(new, list, c),
           Sorted(list), Passed(list, c)
    PROVE  Sorted(new) /\ Passed(new, c)
<1>1. DOMAIN list \subseteq Nat /\ DOMAIN new \subseteq Nat /\ c \in Nat
    BY ListFields DEF Removed
<1>2. \A k \in DOMAIN new : LET i == IF k < c THEN k ELSE k + 1
                            IN  i \in DOMAIN list /\ new[k] = list[i]
    BY RemovedOld
<1>3. ASSUME NEW i \in DOMAIN new, NEW j \in DOMAIN new
      PROVE  /\ i <= j => new[i].when <= new[j].when
             /\ i < c /\ c <= j => new[i].when < new[j].when
  <2>1. PICK k \in DOMAIN list : k = (IF i < c THEN i ELSE i + 1) /\ new[i] = list[k]
      BY <1>2
  <2>2. PICK l \in DOMAIN list : l = (IF j < c THEN j ELSE j + 1) /\ new[j] = list[l]
      BY <1>2
  <2>3. (i <= j => k <= l) /\ (i < c /\ c <= j => k < c /\ c <= l)
      BY <1>1, <2>1, <2>2
  <2> QED
      BY <2>1, <2>2, <2>3 DEF Sorted, Passed
<1> QED
    BY <1>3 DEF Sorted, Passed

\* The next run of the timer that Tick() has just called is not passed.
LEMMA RepeatedPassed ==
    ASSUME NEW list \in Seq(Timer), NEW x \in Timer, NEW new, NEW p, NEW c \in 1..Len(list) + 1,
           Inserted(new, list, p, x), p = Place(list, x), Sorted(list), Passed(list, c),
           \A i \in DOMAIN list : i < c => list[i].when < x.when
    PROVE  Passed(new, c)
<1>1. /\ DOMAIN list = 1..Len(list) /\ Len(list) \in Nat /\ DOMAIN new \subseteq Nat /\ p \in Nat
      /\ x.when \in Nat /\ \A i \in DOMAIN list : list[i].when \in Nat
    BY ListFields, TimerFields DEF Inserted
<1>2. \A i \in DOMAIN list : i < p <=> list[i].when <= x.when
    BY InsertedSorted
<1>3. c <= p
  <2> SUFFICES ASSUME p < c PROVE FALSE
      BY <1>1
  <2>1. p \in DOMAIN list
      BY <1>1 DEF Inserted
  <2> QED
      BY <1>1, <1>2, <2>1
<1> SUFFICES ASSUME NEW i \in DOMAIN new, NEW j \in DOMAIN new, i < c, c <= j
             PROVE  new[i].when < new[j].when
    BY DEF Passed
<1>4. \A k \in DOMAIN new : k # p =>
         LET l == IF k < p THEN k ELSE k - 1
         IN  l \in DOMAIN list /\ new[k] = list[l]
    BY InsertedOld
<1>5. i \in DOMAIN list /\ new[i] = list[i]
    BY <1>1, <1>3, <1>4
<1>6. CASE j = p
    BY <1>5, <1>6, InsertedOld
<1>7. CASE j # p
  <2>1. PICK l \in DOMAIN list : l = (IF j < p THEN j ELSE j - 1) /\ new[j] = list[l]
      BY <1>4, <1>7
  <2>2. c <= l
      BY <1>1, <1>3, <1>7, <2>1
  <2> QED
      BY <1>5, <2>1, <2>2 DEF Passed
<1> QED
    BY <1>6, <1>7

\* Insertions and removals keep the order of what stays.
LEMMA InsertedInOrder ==
    ASSUME NEW list \in Seq(Timer), NEW x \in Timer, NEW new, NEW n, Inserted(new, list, n, x),
           NEW t, NEW u, InOrder(list, t, u), x.id # t, x.id # u
    PROVE  InOrder(new, t, u)
<1> SUFFICES ASSUME NEW p \in DOMAIN new, NEW q \in DOMAIN new, new[p].id = t, new[q].id = u
             PROVE  p < q
    BY DEF InOrder
<1>1. DOMAIN list \subseteq Nat /\ DOMAIN new \subseteq Nat /\ n \in Nat
    BY ListFields DEF Inserted
<1>2. p # n /\ q # n
    BY InsertedOld
<1>3. PICK k \in DOMAIN list : k = (IF p < n THEN p ELSE p - 1) /\ new[p] = list[k]
    BY <1>2, InsertedOld
<1>4. PICK l \in DOMAIN list : l = (IF q < n THEN q ELSE q - 1) /\ new[q] = list[l]
    BY <1>2, InsertedOld
<1>5. k < l
    BY <1>3, <1>4 DEF InOrder
<1> QED
    BY <1>1, <1>2, <1>3, <1>4, <1>5

LEMMA RemovedInOrder ==
    ASSUME NEW list \in Seq(Timer), NEW new, NEW n, Removed(new, list, n),
           NEW t, NEW u, InOrder(list, t, u)
    PROVE  InOrder(new, t, u)
<1> SUFFICES ASSUME NEW p \in DOMAIN new, NEW q \in DOMAIN new, new[p].id = t, new[q].id = u
             PROVE  p < q
    BY DEF InOrder
<1>1. DOMAIN list \subseteq Nat /\ DOMAIN new \subseteq Nat /\ n \in Nat
    BY ListFields DEF Removed
<1>2. PICK k \in DOMAIN list : k = (IF p < n THEN p ELSE p + 1) /\ new[p] = list[k]
    BY RemovedOld
<1>3. PICK l \in DOMAIN list : l = (IF q < n THEN q ELSE q + 1) /\ new[q] = list[l]
    BY RemovedOld
<1>4. k < l
    BY <1>2, <1>3 DEF InOrder
<1> QED
    BY <1>1, <1>2, <1>3, <1>4

\* What the steps do to the list: nothing, an addition at a timer's place, or
\* the removal of the cursor's timer and, perhaps, the addition of its next run.
LEMMA AddsOrKeeps ==
    ASSUME Wise, [Next]_vars
    PROVE  \/ timers' = timers
           \/ \E t \in Timers : Add(t)
           \/ Enqueue \/ Call
           \/ SetTerminationAtEnd /\ timers # <<>>
           \/ /\ ~Walking /\ ~Walking' /\ pooled
              /\ \E x \in Timer : Inserted(timers', timers, Place(timers, x), x)
<1>1. ASSUME NEW w \in Workers, After(w), timers' # timers
      PROVE  /\ ~Walking /\ ~Walking' /\ pooled
             /\ \E x \in Timer : Inserted(timers', timers, Place(timers, x), x)
  <2>1. held[w] \in Timer /\ held[w].left > 1 /\ timers \in Seq(Timer) /\ pooled
      BY <1>1, HeldTimer DEF After, Repeated, Wise, TypeOK
  <2>2. Next_(held[w]) \in Timer /\ timers' = Added(timers, Next_(held[w]))
      BY <1>1, <2>1, NextType DEF After, Repeated
  <2>3. ~Walking /\ ~Walking'
      BY <1>1, <2>1 DEF After, Wise, LockInv, Walking, ticking
  <2> QED
      BY <2>1, <2>2, <2>3, AddedInserts
<1> QED
    BY <1>1 DEF Next, vars, Tick, Work, Pass, TickBegin, Look, RunEnds, Fetch, RunTask, Release,
               Exit, RestJobs, RestJobsReturns, Shutdown, Join, SetTerminationAtEnd

\* Tick() leaves what it walks to others between two walks only.
LEMMA CursorKept ==
    ASSUME Wise, [Next]_vars, timers' = timers, Walking'
    PROVE  (Walking /\ cursor' = cursor) \/ cursor' = 1
<1>1. CASE TickBegin
    BY <1>1 DEF TickBegin
<1>2. ASSUME NEW t \in Timers, Add(t) PROVE FALSE
    BY <1>2, AddType, LenProperties DEF Inserted, Wise, TypeOK
<1> QED
    BY <1>1, <1>2
    DEF Walking, Next, vars, Tick, Work, Pass, Look, Enqueue, Call, RunEnds, Fetch, RunTask, After,
        Release, Exit, RestJobs, RestJobsReturns, Shutdown, Join, SetTerminationAtEnd, ticking


\* Tick() calls or hands over the timer at its cursor and walks on.
LEMMA CallSorted ==
    ASSUME Wise, SortedInv, Call \/ Enqueue
    PROVE  SortedInv'
<1>1. PICK x : x = timers[cursor]
    OBVIOUS
<1>2. PICK rest : rest = RemoveAt(timers, cursor)
    OBVIOUS
<1>3. /\ x \in Timer /\ Removed(rest, timers, cursor) /\ rest \in Seq(Timer)
      /\ Len(rest) = Len(timers) - 1 /\ timers \in Seq(Timer) /\ cursor \in DOMAIN timers
    BY <1>1, <1>2, CursorTimer, ListFields DEF Wise, TypeOK, Call, Enqueue
<1>4. Sorted(timers) /\ Passed(timers, cursor) /\ cursor' = cursor
    BY DEF SortedInv, Walking, Call, Enqueue
<1>5. Sorted(rest) /\ Passed(rest, cursor)
    BY <1>3, <1>4, RemovedSorted
<1>6. CASE timers' = rest
    BY <1>4, <1>5, <1>6 DEF SortedInv
<1>7. CASE timers' # rest
  <2>1. x.left > 1 /\ timers' = Added(rest, Next_(x))
      BY <1>1, <1>2, <1>7 DEF Call, Enqueue, Repeated
  <2>2. PICK y \in Timer : y = Next_(x) /\ y.when = x.when + Round
      BY <1>3, <2>1, NextType
  <2>3. Inserted(timers', rest, Place(rest, y), y)
      BY <1>3, <2>1, <2>2, AddedInserts
  <2>4. ASSUME NEW i \in DOMAIN rest, i < cursor PROVE rest[i].when < y.when
    <3>1. i \in DOMAIN timers /\ rest[i] = timers[i]
        BY <1>3, <2>4, RemovedOld
    <3>2. timers[i].when < x.when /\ timers[i].when \in Nat /\ x.when \in Nat
        BY <1>1, <1>3, <1>4, <2>4, <3>1, ListFields DEF Passed
    <3> QED
        BY <2>2, <3>1, <3>2, TimersAssumption
  <2>5. cursor \in 1..Len(rest) + 1
      BY <1>3, ListFields
  <2>6. Passed(timers', cursor) /\ Sorted(timers')
      BY <1>3, <1>5, <2>2, <2>3, <2>4, <2>5, InsertedSorted, RepeatedPassed
  <2> QED
      BY <1>4, <2>6 DEF SortedInv
<1> QED
    BY <1>6, <1>7

LEMMA SortedStep ==
    ASSUME Wise, SortedInv, [Next]_vars
    PROVE  SortedInv'
<1>1. timers \in Seq(Timer) /\ Sorted(timers) /\ DOMAIN timers \subseteq Nat
    BY ListFields DEF Wise, TypeOK, SortedInv
<1>2. CASE timers' = timers
  <2>1. Passed(timers, 1)
      BY ListFields DEF Wise, TypeOK, Passed
  <2> QED
      BY <1>2, <2>1, CursorKept DEF SortedInv
<1>3. ASSUME NEW t \in Timers, Add(t) PROVE SortedInv'
  <2>1. PICK p : p = Place(timers, New(t))
      OBVIOUS
  <2>2. New(t) \in Timer /\ Inserted(timers', timers, p, New(t))
      BY <1>3, <2>1, AddType, NewType DEF Wise
  <2>3. Sorted(timers')
      BY <1>1, <2>1, <2>2, InsertedSorted
  <2>4. ASSUME Walking' PROVE Passed(timers', cursor')
    <3>1. ticker = "calling"
        BY <1>3, <2>4 DEF Add, Walking, Wise, LockInv
    <3>2. cursor' = IF p <= cursor THEN cursor + 1 ELSE cursor
        BY <1>3, <2>1, <3>1, CursorMoves DEF Wise
    <3>3. cursor \in DOMAIN timers /\ Passed(timers, cursor)
        BY <3>1 DEF Wise, LockInv, SortedInv, Walking
    <3> QED
        BY <1>1, <2>1, <2>2, <3>2, <3>3, InsertedPassed
  <2> QED
      BY <2>3, <2>4 DEF SortedInv
<1>4. CASE Enqueue \/ Call
    BY <1>4, CallSorted
<1>5. CASE SetTerminationAtEnd /\ timers # <<>>
  <2>1. EndTimer \in Timer /\ Inserted(timers', timers, Place(timers, EndTimer), EndTimer)
      BY <1>1, <1>5, EndTimerType, AddedInserts DEF SetTerminationAtEnd
  <2>2. PICK x \in Timer : Inserted(timers', timers, Place(timers, x), x)
      BY <2>1
  <2>3. Sorted(timers')
      BY <1>1, <2>2, InsertedSorted
  <2>4. ~Walking'
      BY <1>5 DEF SetTerminationAtEnd, Wise, LockInv, Walking, ticking
  <2> QED
      BY <2>3, <2>4 DEF SortedInv
<1>6. CASE /\ ~Walking /\ ~Walking' /\ pooled
           /\ \E x \in Timer : Inserted(timers', timers, Place(timers, x), x)
    BY <1>1, <1>6, InsertedSorted DEF SortedInv
<1> QED
    BY <1>2, <1>3, <1>4, <1>5, <1>6, AddsOrKeeps

\* The timers of the same time as one that has not run are before the place of
\* a timer added for that time.
LEMMA FirstRunsAdd ==
    ASSUME Wise, Placed, SortedInv, FirstRuns, NEW t \in Timers, Add(t)
    PROVE  FirstRuns'
<1> SUFFICES ASSUME ~pooled', NEW i \in DOMAIN added', NEW j \in DOMAIN added',
                    i < j, When[added'[i]] = When[added'[j]], runs'[added'[i]] = 0
             PROVE  runs'[added'[j]] = 0 /\ InOrder(timers', added'[i], added'[j])
    BY DEF FirstRuns
<1>1. ~pooled /\ runs' = runs /\ t \notin Range(added) /\ added \in Seq(Timers)
      /\ added' = Append(added, t)
    BY DEF Add, Wise, TypeOK
<1>2. PICK p : p = Place(timers, New(t))
    OBVIOUS
<1>3. /\ New(t) \in Timer /\ New(t).id = t /\ New(t).when = When[t]
      /\ Inserted(timers', timers, p, New(t)) /\ timers \in Seq(Timer)
    BY <1>2, AddType, NewType DEF Wise, TypeOK
<1>4. /\ DOMAIN added' = DOMAIN added \cup {Len(added) + 1}
      /\ \A k \in DOMAIN added : added'[k] = added[k] /\ k \in 1..Len(added)
      /\ added'[Len(added) + 1] = t /\ Len(added) \in Nat
    BY <1>1, AppendIndices, LenProperties
<1>5. i \in DOMAIN added /\ added'[i] = added[i] /\ added[i] \in Timers /\ added[i] # t
  <2>1. i \in DOMAIN added
      BY <1>4
  <2> QED
      BY <1>1, <1>4, <2>1, ElementOfSeq DEF Range
<1>6. CASE j \in DOMAIN added
  <2>1. added'[j] = added[j] /\ added[j] # t
      BY <1>1, <1>4, <1>6 DEF Range
  <2>2. runs[added[j]] = 0 /\ InOrder(timers, added[i], added[j])
      BY <1>1, <1>5, <1>6, <2>1 DEF FirstRuns
  <2> QED
      BY <1>1, <1>3, <1>5, <2>1, <2>2, InsertedInOrder
<1>7. CASE j \notin DOMAIN added
  <2>1. added'[j] = t /\ runs[t] = 0
      BY <1>1, <1>4, <1>7 DEF Placed, DoneInv
  <2>2. \A k \in DOMAIN timers : timers[k].id # t
      BY <1>1, NotAdded DEF Placed, Somewhere, Listed, Range
  <2>3. ASSUME NEW k \in DOMAIN timers, timers[k].id = added[i] PROVE timers[k].when = When[t]
    <3>1. timers[k] \in Listed /\ Owes(timers[k])
        BY DEF Listed, Range, Placed, OwesInv
    <3>2. timers[k].when = When[added[i]] + runs[added[i]] * Round
        BY <1>5, <2>3, <3>1 DEF Owes
    <3>3. When[added[i]] = When[t] /\ When[t] \in Nat /\ Round \in Nat /\ runs[added[i]] = 0
        BY <1>1, <1>5, <2>1, TimersAssumption
    <3> QED
        BY <3>2, <3>3
  <2>4. \A k \in DOMAIN timers : k < p <=> timers[k].when <= When[t]
      BY <1>2, <1>3, InsertedSorted DEF SortedInv
  <2>5. DOMAIN timers \subseteq Nat /\ DOMAIN timers' \subseteq Nat /\ p \in Nat /\ When[t] \in Nat
      BY <1>3, ListFields, TimersAssumption DEF Inserted
  <2>6. ASSUME NEW k \in DOMAIN timers', NEW l \in DOMAIN timers',
               timers'[k].id = added[i], timers'[l].id = t
        PROVE  k < l
    <3>1. l = p
        BY <1>3, <2>2, <2>6, InsertedOld
    <3>2. k # p
        BY <1>3, <1>5, <2>6, InsertedOld
    <3>3. PICK m \in DOMAIN timers : m = (IF k < p THEN k ELSE k - 1) /\ timers'[k] = timers[m]
        BY <1>3, <3>2, InsertedOld
    <3>4. m < p
        BY <2>3, <2>4, <2>5, <2>6, <3>3
    <3> QED
        BY <2>5, <3>1, <3>2, <3>3, <3>4
  <2> QED
      BY <1>1, <1>5, <2>1, <2>6 DEF InOrder
<1> QED
    BY <1>6, <1>7


\* A timer that has not run cannot be called while one that was added before
\* it, for the same time, has not run either: that one is before it in the
\* list, so that Tick() would have passed it, and what it has passed is earlier.
LEMMA FirstRunsCall ==
    ASSUME Wise, Placed, SortedInv, FirstRuns, Call
    PROVE  FirstRuns'
<1> SUFFICES ASSUME NEW i \in DOMAIN added, NEW j \in DOMAIN added,
                    i < j, When[added[i]] = When[added[j]], runs'[added[i]] = 0
             PROVE  runs'[added[j]] = 0 /\ InOrder(timers', added[i], added[j])
    BY DEF FirstRuns, Call
<1>1. PICK t \in Timers, u \in Timers : t = added[i] /\ u = added[j]
    BY LenProperties, ElementOfSeq DEF Wise, TypeOK
<1>2. PICK x : x = timers[cursor]
    OBVIOUS
<1>3. PICK rest : rest = RemoveAt(timers, cursor)
    OBVIOUS
<1>4. /\ x \in Timer /\ Removed(rest, timers, cursor) /\ rest \in Seq(Timer)
      /\ timers \in Seq(Timer) /\ cursor \in DOMAIN timers
      /\ timers' = Repeated(rest, x) /\ Count(x) /\ ~pooled
    BY <1>2, <1>3, CursorTimer, ListFields DEF Wise, TypeOK, Call
<1>5. /\ runs[t] \in Nat
      /\ x.id \in Timers => runs'[x.id] # 0
      /\ \A s \in Timers : s # x.id => runs'[s] = runs[s]
  <2>1. \A s \in Timers : runs[s] \in Nat
      BY DEF Wise, TypeOK
  <2>2. /\ x.id \in Timers => runs'[x.id] = runs[x.id] + 1
        /\ \A s \in Timers : s # x.id => runs'[s] = runs[s]
      BY <1>4, RunsType DEF Wise
  <2> QED
      BY <2>1, <2>2
<1>6. t # x.id /\ runs[t] = 0
    BY <1>1, <1>5
<1>7. runs[u] = 0 /\ InOrder(timers, t, u)
    BY <1>1, <1>4, <1>6 DEF FirstRuns
<1>8. ASSUME u = x.id PROVE FALSE
  <2>1. t \in Range(added)
      BY <1>1 DEF Range
  <2>2. Somewhere(t)
      BY <1>6, <2>1, TimersAssumption DEF Placed, DoneInv
  <2>3. PICK p \in DOMAIN timers : timers[p].id = t
      BY <1>4, <2>2 DEF Somewhere, Wise, WorkersInv, Carries, Listed, Pooled, Range
  <2>4. p < cursor
      BY <1>2, <1>4, <1>7, <1>8, <2>3 DEF InOrder
  <2>5. timers[p].when < x.when
      BY <1>2, <1>4, <2>4, ListFields DEF SortedInv, Passed, Walking, Call
  <2>6. Owes(timers[p]) /\ Owes(x)
      BY <1>2, <1>4 DEF Placed, OwesInv, Listed, Range
  <2>7. timers[p].when = When[t] + 0 * Round /\ x.when = When[u] + 0 * Round
      BY <1>6, <1>7, <1>8, <2>3, <2>6 DEF Owes
  <2>8. When[t] = When[u] /\ When[u] \in Nat /\ Round \in Nat
      BY <1>1, TimersAssumption
  <2> QED
      BY <2>5, <2>7, <2>8
<1>9. runs'[u] = 0
    BY <1>5, <1>7, <1>8
<1>10. InOrder(rest, t, u)
    BY <1>4, <1>7, RemovedInOrder
<1>11. InOrder(timers', t, u)
  <2>1. CASE x.left > 1
    <3>1. PICK y \in Timer : y = Next_(x) /\ y.id = x.id
        BY <1>4, <2>1, NextType
    <3>2. Inserted(timers', rest, Place(rest, y), y)
        BY <1>4, <2>1, <3>1, AddedInserts DEF Repeated
    <3> QED
        BY <1>4, <1>6, <1>8, <1>10, <3>1, <3>2, InsertedInOrder
  <2>2. CASE ~(x.left > 1)
      BY <1>4, <1>10, <2>2 DEF Repeated
  <2> QED
      BY <2>1, <2>2
<1> QED
    BY <1>1, <1>9, <1>11

LEMMA FirstRunsStep ==
    ASSUME Wise, Placed, SortedInv, FirstRuns, [Next]_vars
    PROVE  FirstRuns'
<1>1. CASE UNCHANGED <<pooled, timers, added, runs>>
    BY <1>1 DEF FirstRuns, InOrder
<1>2. CASE pooled'
    BY <1>2 DEF FirstRuns
<1>3. ASSUME NEW t \in Timers, Add(t) PROVE FirstRuns'
    BY <1>3, FirstRunsAdd
<1>4. CASE Call
    BY <1>4, FirstRunsCall
<1>5. CASE SetTerminationAtEnd /\ timers # <<>>
  <2>1. timers \in Seq(Timer) /\ added \in Seq(Timers)
      BY DEF Wise, TypeOK
  <2>2. EndTimer \in Timer /\ EndTimer.id = End
        /\ Inserted(timers', timers, Place(timers, EndTimer), EndTimer)
      BY <1>5, <2>1, EndTimerType, AddedInserts DEF SetTerminationAtEnd
  <2>3. PICK x \in Timer : x.id = End /\ Inserted(timers', timers, Place(timers, x), x)
      BY <2>2
  <2>4. \A i \in DOMAIN added : added[i] # End
      BY <2>1, LenProperties, ElementOfSeq, TimersAssumption
  <2>5. \A i, j \in DOMAIN added :
           InOrder(timers, added[i], added[j]) => InOrder(timers', added[i], added[j])
      BY <2>1, <2>3, <2>4, InsertedInOrder
  <2> QED
      BY <1>5, <2>5 DEF FirstRuns, SetTerminationAtEnd
<1>6. \/ UNCHANGED <<pooled, timers, added, runs>>
      \/ pooled' \/ \E t \in Timers : Add(t)
      \/ Call \/ (SetTerminationAtEnd /\ timers # <<>>)
  <2>1. ASSUME NEW w \in Workers, Work(w), ~pooled PROVE UNCHANGED <<pooled, timers, added, runs>>
      BY <2>1, HeldTimer
      DEF Work, Fetch, RunTask, After, Release, Exit, Wise, WorkersInv
  <2> QED
      BY <2>1 DEF Next, vars, Tick, Pass, TickBegin, Look, Enqueue, RunEnds, RestJobs,
                  RestJobsReturns, Shutdown, Join, SetTerminationAtEnd, Work, Fetch, RunTask,
                  After, Release, Exit
<1> QED
    BY <1>1, <1>2, <1>3, <1>4, <1>5, <1>6

----------------------------------------------------------------------------
(* The end timer. *)

\* Two timers of a list after an insertion, and after the removal of an
\* earlier one.
LEMMA InsertedBefore ==
    ASSUME NEW list \in Seq(Timer), NEW x \in Timer, NEW new, NEW n, Inserted(new, list, n, x),
           NEW p \in DOMAIN list, NEW q \in DOMAIN list, p < q
    PROVE  \E k, l \in DOMAIN new : /\ new[k] = list[p] /\ new[l] = list[q] /\ k < l
                                    /\ k = (IF p < n THEN p ELSE p + 1)
<1>1. DOMAIN list \subseteq Nat /\ n \in Nat
    BY ListFields DEF Inserted
<1>2. PICK k \in DOMAIN new : k = (IF p < n THEN p ELSE p + 1) /\ new[k] = list[p]
    BY InsertedOld
<1>3. PICK l \in DOMAIN new : l = (IF q < n THEN q ELSE q + 1) /\ new[l] = list[q]
    BY InsertedOld
<1> QED
    BY <1>1, <1>2, <1>3

LEMMA RemovedBefore ==
    ASSUME NEW list \in Seq(Timer), NEW new, NEW c, Removed(new, list, c),
           NEW p \in DOMAIN list, NEW q \in DOMAIN list, c < p, p < q
    PROVE  \E k, l \in DOMAIN new : new[k] = list[p] /\ new[l] = list[q] /\ k < l /\ c <= k
<1>1. DOMAIN list \subseteq Nat /\ c \in Nat
    BY ListFields DEF Removed
<1>2. PICK k \in DOMAIN new : k = p - 1 /\ new[k] = list[p]
    BY <1>1, RemovedOld
<1>3. PICK l \in DOMAIN new : l = q - 1 /\ new[l] = list[q]
    BY <1>1, RemovedOld
<1> QED
    BY <1>1, <1>2, <1>3

\* SetTerminationAtEnd() puts the end timer behind all the others.
LEMMA EndBegins ==
    ASSUME Wise, Placed, SortedInv, EndInv, SetTerminationAtEnd, timers # <<>>
    PROVE  EndInv'
<1>1. /\ ~shutdown_ /\ shutdown_' = shutdown_ /\ runs' = runs /\ owner' = "ending" /\ ~Walking'
    BY DEF EndInv, SetTerminationAtEnd, Wise, LockInv, Walking, ticking
<1>2. timers \in Seq(Timer) /\ DOMAIN timers = 1..Len(timers) /\ Len(timers) \in Nat
      /\ \A i \in DOMAIN timers : timers[i].when \in Nat
    BY ListFields DEF Wise, TypeOK
<1>3. /\ EndTimer \in Timer /\ EndTimer.id = End /\ Len(timers) \in DOMAIN timers
      /\ EndTimer.when = timers[Len(timers)].when
      /\ Inserted(timers', timers, Place(timers, EndTimer), EndTimer)
    BY <1>2, EndTimerType, AddedInserts DEF SetTerminationAtEnd
<1>4. PICK x, q : /\ x \in Timer /\ x.id = End /\ x.when = timers[Len(timers)].when
                  /\ q = Place(timers, x) /\ Inserted(timers', timers, q, x)
    BY <1>3
<1>5. \A p \in DOMAIN timers : p < q
    BY <1>2, <1>3, <1>4, InsertedSorted DEF SortedInv, Sorted
<1>6. ASSUME NEW t \in Timers PROVE runs'[t] >= owed'[t] \/ ComesBeforeEnd(t)'
  <2>1. owed'[t] = runs[t] + IF \E i \in DOMAIN timers : timers[i].id = t THEN 1 ELSE 0
      BY DEF SetTerminationAtEnd
  <2>2. CASE \A i \in DOMAIN timers : timers[i].id # t
      BY <1>1, <2>1, <2>2 DEF Wise, TypeOK
  <2>3. ASSUME NEW p \in DOMAIN timers, timers[p].id = t PROVE ComesBeforeEnd(t)'
    <3>1. p < q /\ q \in DOMAIN timers' /\ timers'[q] = x
        BY <1>2, <1>4, <1>5, InsertedOld
    <3>2. p \in DOMAIN timers' /\ timers'[p] = timers[p]
        BY <1>2, <1>4, <3>1, InsertedOld
    <3>3. owed'[t] = runs'[t] + 1
        BY <1>1, <2>1, <2>3
    <3>4. \E k, l \in DOMAIN timers' : timers'[k].id = t /\ timers'[l].id = End /\ k < l
        BY <1>4, <2>3, <3>1, <3>2
    <3> QED
        BY <1>1, <3>3, <3>4 DEF ComesBeforeEnd
  <2> QED
      BY <2>2, <2>3
<1> QED
    BY <1>1, <1>6 DEF EndInv

\* While it waits, Tick() calls, and others add, in front of it or behind it.
LEMMA EndWaits ==
    ASSUME Wise, Placed, SortedInv, EndInv, [Next]_vars, ~Call, owner = "ending"
    PROVE  EndInv'
<1>1. ~pooled
    BY DEF Wise, LockInv
<1>2. UNCHANGED <<owner, shutdown_, runs, owed>> /\ ~SetTerminationAtEnd
  <2>1. ASSUME NEW w \in Workers, Work(w) PROVE UNCHANGED <<owner, shutdown_, runs, owed>>
      BY <1>1, <2>1, HeldTimer
      DEF Work, Fetch, RunTask, After, Release, Exit, Wise, WorkersInv, ending
  <2> QED
      BY <2>1 DEF Next, vars, Tick, Pass, Add, TickBegin, Look, Enqueue, RunEnds, RestJobs,
                  RestJobsReturns, Shutdown, Join, SetTerminationAtEnd, ending
<1>3. ASSUME NEW t \in Timers, ComesBeforeEnd(t) PROVE ComesBeforeEnd(t)'
  <2>1. PICK p \in DOMAIN timers, q \in DOMAIN timers :
            timers[p].id = t /\ timers[q].id = End /\ p < q /\ (Walking => cursor <= p)
      BY <1>3 DEF ComesBeforeEnd
  <2>2. timers \in Seq(Timer) /\ DOMAIN timers = 1..Len(timers) /\ cursor \in Nat
      BY ListFields DEF Wise, TypeOK
  <2>3. \E k, l \in DOMAIN timers' : /\ timers'[k].id = t /\ timers'[l].id = End /\ k < l
                                     /\ Walking' => cursor' <= k
    <3>1. CASE timers' = timers
      <4>1. Walking' => cursor' <= p
          BY <2>1, <2>2, <3>1, CursorKept
      <4> QED
          BY <2>1, <3>1, <4>1
    <3>2. ASSUME NEW u \in Timers, Add(u)
          PROVE  \E k, l \in DOMAIN timers' : /\ timers'[k].id = t /\ timers'[l].id = End /\ k < l
                                              /\ Walking' => cursor' <= k
      <4>1. PICK n : n = Place(timers, New(u))
          OBVIOUS
      <4>2. New(u) \in Timer /\ Inserted(timers', timers, n, New(u)) /\ n \in Nat
          BY <3>2, <4>1, AddType, NewType DEF Wise, Inserted
      <4>3. PICK k \in DOMAIN timers', l \in DOMAIN timers' :
                /\ timers'[k] = timers[p] /\ timers'[l] = timers[q] /\ k < l
                /\ k = (IF p < n THEN p ELSE p + 1)
          BY <2>1, <2>2, <4>2, InsertedBefore
      <4>4. ASSUME Walking' PROVE cursor' <= k
        <5>1. ticker = "calling"
            BY <3>2, <4>4 DEF Add, Walking, Wise, LockInv
        <5>2. cursor' = (IF n <= cursor THEN cursor + 1 ELSE cursor) /\ cursor <= p
            BY <2>1, <3>2, <4>1, <5>1, CursorMoves DEF Wise, Walking
        <5> QED
            BY <2>2, <4>2, <4>3, <5>2
      <4> QED
          BY <2>1, <4>3, <4>4
    <3> QED
        BY <1>1, <1>2, <3>1, <3>2, AddsOrKeeps DEF Enqueue
  <2> QED
      BY <1>2, <1>3, <2>3 DEF ComesBeforeEnd
<1> QED
    BY <1>2, <1>3 DEF EndInv

LEMMA EndCalls ==
    ASSUME Wise, Placed, SortedInv, EndInv, Call
    PROVE  EndInv'
<1>1. PICK x : x = timers[cursor]
    OBVIOUS
<1>2. PICK rest : rest = RemoveAt(timers, cursor)
    OBVIOUS
<1>3. /\ x \in Timer /\ x \in Listed /\ Removed(rest, timers, cursor) /\ rest \in Seq(Timer)
      /\ timers \in Seq(Timer) /\ DOMAIN timers \subseteq Nat /\ cursor \in DOMAIN timers
      /\ timers' = Repeated(rest, x) /\ Count(x)
    BY <1>1, <1>2, CursorTimer, ListFields DEF Wise, TypeOK, Call
<1>4. /\ shutdown_' = (shutdown_ \/ x.id = End) /\ cursor' = cursor /\ Walking
      /\ UNCHANGED <<owner, owed>>
    BY <1>1 DEF Call, Walking, ending
<1>5. x.id = End => owner = "ending"
    BY <1>3 DEF Placed, ApartInv, Somewhere
<1>6. owner' \in {"idle", "resting", "polled"} => ~shutdown_'
    BY <1>4, <1>5 DEF EndInv
<1>7. ASSUME NEW t \in Timers, ComesBeforeEnd(t), t # x.id PROVE ComesBeforeEnd(t)'
  <2>1. PICK p \in DOMAIN timers, q \in DOMAIN timers :
            timers[p].id = t /\ timers[q].id = End /\ p < q /\ cursor <= p
      BY <1>4, <1>7 DEF ComesBeforeEnd
  <2>2. cursor < p /\ x.id # End
      BY <1>1, <1>3, <1>7, <2>1 DEF Placed, ApartInv, Distinct
  <2>3. PICK k \in DOMAIN rest, l \in DOMAIN rest :
            rest[k] = timers[p] /\ rest[l] = timers[q] /\ k < l /\ cursor <= k
      BY <1>3, <2>1, <2>2, RemovedBefore
  <2>4. \E i, j \in DOMAIN timers' :
            timers'[i].id = t /\ timers'[j].id = End /\ i < j /\ cursor <= i
    <3>1. CASE x.left > 1
      <4>1. PICK y, n : y \in Timer /\ y = Next_(x) /\ n = Place(rest, y)
          BY <1>3, <3>1, NextType
      <4>2. Inserted(timers', rest, n, y)
          BY <1>3, <3>1, <4>1, AddedInserts DEF Repeated
      <4>3. PICK i \in DOMAIN timers', j \in DOMAIN timers' :
                /\ timers'[i] = rest[k] /\ timers'[j] = rest[l] /\ i < j
                /\ i = (IF k < n THEN k ELSE k + 1)
          BY <1>3, <2>3, <4>1, <4>2, InsertedBefore
      <4>4. cursor <= i
        <5>1. k \in Nat /\ cursor \in Nat
            BY <1>3, ListFields
        <5> QED
            BY <2>3, <4>3, <5>1
      <4> QED
          BY <2>1, <2>3, <4>3, <4>4
    <3>2. CASE ~(x.left > 1)
        BY <1>3, <2>1, <2>3, <3>2 DEF Repeated
    <3> QED
        BY <3>1, <3>2
  <2>5. runs'[t] = runs[t]
      BY <1>3, <1>7, RunsType DEF Wise
  <2> QED
      BY <1>4, <1>7, <2>2, <2>4, <2>5 DEF ComesBeforeEnd
<1>8. ASSUME NEW t \in Timers, owner = "ending"
      PROVE  runs'[t] >= owed'[t] \/ ComesBeforeEnd(t)'
  <2>1. runs[t] \in Nat /\ owed[t] \in Nat /\ (runs[t] >= owed[t] \/ ComesBeforeEnd(t))
      BY <1>8 DEF Wise, TypeOK, EndInv
  <2>2. CASE t # x.id
      BY <1>3, <1>4, <1>7, <2>1, <2>2, RunsType DEF Wise
  <2>3. CASE t = x.id
    <3>1. runs'[t] = runs[t] + 1
        BY <1>3, <2>3, RunsType DEF Wise
    <3>2. owed[t] <= runs[t] + 1
        BY <2>1 DEF ComesBeforeEnd
    <3> QED
        BY <1>4, <2>1, <3>1, <3>2
  <2> QED
      BY <2>2, <2>3
<1> QED
    BY <1>4, <1>6, <1>8 DEF EndInv

LEMMA EndStep ==
    ASSUME Wise, Placed, SortedInv, EndInv, [Next]_vars
    PROVE  EndInv'
<1>1. CASE Call
    BY <1>1, EndCalls
<1>2. CASE SetTerminationAtEnd /\ timers # <<>>
    BY <1>2, EndBegins
<1>3. CASE owner = "ending" /\ ~Call
    BY <1>3, EndWaits
<1>4. CASE owner # "ending" /\ ~Call /\ ~(SetTerminationAtEnd /\ timers # <<>>)
  <2>1. /\ owner' # "ending"
        /\ owner' \in {"idle", "resting", "polled"} =>
              owner \in {"idle", "resting", "polled"} /\ shutdown_' = shutdown_
      BY <1>4 DEF Next, vars, Tick, Work, Pass, Add, TickBegin, Look, Enqueue, RunEnds, Fetch,
                  RunTask, After, Release, Exit, RestJobs, RestJobsReturns, Shutdown, Join,
                  SetTerminationAtEnd, ending
  <2> QED
      BY <2>1 DEF EndInv
<1> QED
    BY <1>1, <1>2, <1>3, <1>4

LEMMA CallInvariant == Spec => [](Wise /\ ConservedInv /\ CallInv)
<1>1. Init => CallInv
  <2> SUFFICES ASSUME Init PROVE CallInv
      OBVIOUS
  <2>1. DOMAIN timers = {} /\ DOMAIN added = {} /\ ~Walking
      BY DEF Init, Walking
  <2> QED
      BY <2>1 DEF Init, CallInv, SortedInv, Sorted, FirstRuns, EndInv
<1>2. Wise /\ ConservedInv /\ CallInv /\ [Next]_vars => CallInv'
    BY SortedStep, FirstRunsStep, EndStep DEF ConservedInv, Placed, CallInv
<1> QED
    BY <1>1, <1>2, ConservedInvariant, PTL DEF Spec

\* No run comes before its time, timers of the same time first run in the
\* order of their addition, and the end timer of SetTerminationAtEnd() runs
\* after the timers that were in the list.
THEOREM CalledAlwaysInOrder == Spec => []CalledInOrder
<1>1. Wise /\ ConservedInv /\ CallInv => CalledInOrder
  <2> SUFFICES ASSUME Wise, ConservedInv, CallInv PROVE CalledInOrder
      OBVIOUS
  <2>1. SameTimeInOrder
    <3>1. \A i \in DOMAIN added : runs[added[i]] \in Nat
        BY LenProperties, ElementOfSeq DEF Wise, TypeOK
    <3> QED
        BY <3>1 DEF SameTimeInOrder, CallInv, FirstRuns
  <2>2. EndComesLast
      BY DEF EndComesLast, CallInv, EndInv, ComesBeforeEnd
  <2> QED
      BY <2>1, <2>2 DEF ConservedInv, CalledInOrder
<1> QED
    BY <1>1, CallInvariant, PTL
=============================================================================
