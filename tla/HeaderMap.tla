------------------------------ MODULE HeaderMap ------------------------------
(***************************************************************************)
(* RocksKV's projection of objects to headers, short numbers for keys:     *)
(* GetHeader, EraseHeader, GetObj, EraseObj and Header::GetNewHeader.      *)
(*                                                                         *)
(* An object has two identities.  Records are keyed by its description     *)
(* (GetObjUniqueStrDesc), which joins its fields without separators; the   *)
(* caches by its slot, what operator< looks at: name and generation.  Two  *)
(* objects may share either.                                               *)
(*                                                                         *)
(* The maps have no lock: one thread, User, owns them.  GetNewHeader has   *)
(* one, and any thread may call it.  A step is a RocksDB get or put, or    *)
(* what the owner does to its maps between two of them.                    *)
(***************************************************************************)
EXTENDS Naturals, Sequences, Functions

CONSTANTS
    Objects,       \* GHObject_t's
    Slot,          \* object |-> its class under operator<
    Uni,           \* object |-> its description
    User,          \* the thread that owns the maps
    Others,        \* threads that only take header numbers
    NoObject, NoDesc, NoThread,
    DefaultCount,  \* RocksKV.header_count of the configuration
    FirstCounts,   \* the stored header_counts at the start; 0: no record
    MaxHeaders,    \* bound on the headers given out
    MaxRestarts    \* bound on the restarts

None    == 0       \* no record, no header: numbers start at DefaultCount
Threads == {User} \cup Others
Slots   == {Slot[o] : o \in Objects}
Descs   == {Uni[o] : o \in Objects}

CountOf(c) == IF c = None THEN DefaultCount ELSE c
Numbers == UNION {CountOf(c) .. (CountOf(c) + MaxHeaders) : c \in FirstCounts}

\* A record holds the text "h_<n>"; GetHeader reads its first four bytes back as
\* the key of a Header: h, _, and two digits, or the only one and a 0.
Leading[n \in Nat] == IF n < 100 THEN n ELSE Leading[n \div 10]
Misread(n) ==
    LET lead == Leading[n]
    IN  IF lead < 10 THEN 24424 + 65536 * (48 + lead)
        ELSE 24424 + 65536 * (48 + (lead \div 10)) + 16777216 * (48 + (lead % 10))

\* Numbers given out are small: none is what a record is misread as.  It takes
\* three million headers to get there.
ASSUME HeaderAssumption ==
    /\ DefaultCount \in Nat \ {None} /\ FirstCounts \subseteq Nat
    /\ MaxHeaders \in Nat
    /\ User \notin Others /\ NoThread \notin Threads
    /\ NoObject \notin Objects /\ NoDesc \notin Descs
    /\ \A n \in Numbers : Misread(n) \in Nat \ (Numbers \cup {None})

VARIABLES
    uni_rec,      \* RocksDB: description |-> number of its header
    head_rec,     \* RocksDB: header |-> description
    header_count, \* RocksDB: the record header_count
    objCacheHeader, reverse_objCacheHeader, \* slot |-> header, header |-> object
    header_lock,  \* who holds GetMutex(kv, header_lock)
    pc,           \* per thread: where it is
    hc,           \* per thread: the count it has read
    gh, head,     \* User: the object and the header it works on
    fresh,        \* history: the numbers given out, in order
    life,         \* history: those given out since the last restart
    undefined,    \* an iterator is past the end, or text was read as an object
    restarts

records == <<uni_rec, head_rec>>
caches  == <<objCacheHeader, reverse_objCacheHeader>>
counter == <<header_count, header_lock, hc, fresh, life>>
rest    == <<undefined, restarts>>
vars    == <<records, caches, counter, pc, gh, head, rest>>

Init ==
    /\ header_count \in FirstCounts
    /\ uni_rec = [d \in Descs |-> None] /\ head_rec = [n \in Numbers |-> NoDesc]
    /\ objCacheHeader = [s \in Slots |-> None]
    /\ reverse_objCacheHeader = [n \in Numbers |-> NoObject]
    /\ header_lock = NoThread
    /\ pc = [t \in Threads |-> "idle"] /\ hc = [t \in Threads |-> None]
    /\ gh = NoObject /\ head = None
    /\ fresh = <<>> /\ life = {} /\ undefined = FALSE /\ restarts = 0

Goto(t, place) == pc' = [pc EXCEPT ![t] = place]
Quiet(t)       == ~undefined /\ pc[t] = "idle"

----------------------------------------------------------------------------
\* Header::GetNewHeader: the count is read and put back under header_lock.
Ask(t) ==
    /\ t \in Others /\ Quiet(t) /\ Goto(t, "counting")
    /\ UNCHANGED <<records, caches, counter, gh, head, rest>>

\* Mutant: the count is read before the lock is taken.
Count_Unlocked(t) ==
    /\ ~undefined /\ pc[t] = "counting" /\ Len(fresh) < MaxHeaders
    /\ hc' = [hc EXCEPT ![t] = CountOf(header_count)]
    /\ Goto(t, "counted")
    /\ UNCHANGED <<records, caches, header_count, header_lock, fresh, life, gh, head, rest>>

\* Mutant: a missing record is read as 0.
Count_NoDefault(t) ==
    /\ ~undefined /\ pc[t] = "counting"
    /\ header_lock = NoThread /\ Len(fresh) < MaxHeaders
    /\ header_lock' = t
    /\ hc' = [hc EXCEPT ![t] = header_count]
    /\ Goto(t, "counted")
    /\ UNCHANGED <<records, caches, header_count, fresh, life, gh, head, rest>>

Count(t) ==
    /\ ~undefined /\ pc[t] = "counting"
    /\ header_lock = NoThread /\ Len(fresh) < MaxHeaders
    /\ header_lock' = t
    /\ hc' = [hc EXCEPT ![t] = CountOf(header_count)]
    /\ Goto(t, "counted")
    /\ UNCHANGED <<records, caches, header_count, fresh, life, gh, head, rest>>

Recount(t) ==
    /\ ~undefined /\ pc[t] = "counted"
    /\ header_count' = hc[t] + 1 /\ header_lock' = NoThread
    /\ fresh' = Append(fresh, hc[t]) /\ life' = life \cup {hc[t]}
    /\ head' = IF t = User THEN hc[t] ELSE head
    /\ Goto(t, IF t = User THEN "putUni" ELSE "idle")
    /\ UNCHANGED <<records, caches, hc, gh, rest>>

----------------------------------------------------------------------------
\* GetHeader(o).  A hit in the cache changes nothing.
ReadBack(o) ==
    /\ Quiet(User)
    /\ objCacheHeader[Slot[o]] = None /\ uni_rec[Uni[o]] # None
    /\ objCacheHeader' = [objCacheHeader EXCEPT ![Slot[o]] = Misread(uni_rec[Uni[o]])]
    /\ UNCHANGED <<records, reverse_objCacheHeader, counter, pc, gh, head, rest>>

Miss(o) ==
    /\ Quiet(User)
    /\ objCacheHeader[Slot[o]] = None /\ uni_rec[Uni[o]] = None
    /\ gh' = o /\ Goto(User, "counting")
    /\ UNCHANGED <<records, caches, counter, head, rest>>

PutUni ==
    /\ ~undefined /\ pc[User] = "putUni"
    /\ uni_rec' = [uni_rec EXCEPT ![Uni[gh]] = head]
    /\ Goto(User, "putHead")
    /\ UNCHANGED <<head_rec, caches, counter, gh, head, rest>>

PutHead ==
    /\ ~undefined /\ pc[User] = "putHead"
    /\ head_rec' = [head_rec EXCEPT ![head] = Uni[gh]]
    /\ objCacheHeader' = [objCacheHeader EXCEPT ![Slot[gh]] = head]
    /\ reverse_objCacheHeader' = [reverse_objCacheHeader EXCEPT ![head] = gh]
    /\ Goto(User, "idle")
    /\ UNCHANGED <<uni_rec, counter, gh, head, rest>>

----------------------------------------------------------------------------
\* Mutant: the reverse cache keeps what is erased.
Forget_KeepsReverse(o, h) ==
    /\ objCacheHeader' = [objCacheHeader EXCEPT ![Slot[o]] = None]
    /\ UNCHANGED reverse_objCacheHeader

\* EraseHeader(o) and EraseObj(h): out of the caches, then the two records.
Forget(o, h) ==
    /\ objCacheHeader' = [objCacheHeader EXCEPT ![Slot[o]] = None]
    /\ reverse_objCacheHeader' =
          [n \in Numbers |-> IF n = h THEN NoObject ELSE reverse_objCacheHeader[n]]

\* Mutant: only the header's own record is removed.
RemoveRecord_KeepsUni(o, h) ==
    /\ head' = h /\ gh' = o /\ Goto(User, "eraseHead")
    /\ UNCHANGED <<records, counter, rest>>

RemoveRecord(o, h) ==
    /\ uni_rec' = [uni_rec EXCEPT ![Uni[o]] = None]
    /\ head' = h /\ gh' = o /\ Goto(User, "eraseHead")
    /\ UNCHANGED <<head_rec, counter, rest>>

EraseHeader(o) ==
    /\ Quiet(User) /\ objCacheHeader[Slot[o]] # None
    /\ Forget(o, objCacheHeader[Slot[o]])
    /\ RemoveRecord(o, objCacheHeader[Slot[o]])

EraseObj(h) ==
    /\ Quiet(User) /\ reverse_objCacheHeader[h] # NoObject
    /\ Forget(reverse_objCacheHeader[h], h)
    /\ RemoveRecord(reverse_objCacheHeader[h], h)

RemoveHead ==
    /\ ~undefined /\ pc[User] = "eraseHead"
    /\ head_rec' = [n \in Numbers |-> IF n = head THEN NoDesc ELSE head_rec[n]]
    /\ Goto(User, "idle")
    /\ UNCHANGED <<uni_rec, caches, counter, gh, head, rest>>

\* Both look at the iterator before they compare it with end().
EraseUncached ==
    /\ Quiet(User)
    /\ \/ \E o \in Objects : objCacheHeader[Slot[o]] = None
       \/ \E h \in Numbers : reverse_objCacheHeader[h] = NoObject
    /\ undefined' = TRUE
    /\ UNCHANGED <<records, caches, counter, pc, gh, head, restarts>>

\* GetObj(h) finds a record and decodes the description as a GHObject_t.  A hit
\* in the cache, or no record, changes nothing.
GetObjUncached ==
    /\ Quiet(User)
    /\ \E h \in Numbers : reverse_objCacheHeader[h] = NoObject /\ head_rec[h] # NoDesc
    /\ undefined' = TRUE
    /\ UNCHANGED <<records, caches, counter, pc, gh, head, restarts>>

----------------------------------------------------------------------------
\* The process dies, between any two steps, and is mounted again.
CrashRestart ==
    /\ restarts < MaxRestarts
    /\ objCacheHeader' = [s \in Slots |-> None]
    /\ reverse_objCacheHeader' = [n \in Numbers |-> NoObject]
    /\ header_lock' = NoThread
    /\ pc' = [t \in Threads |-> "idle"] /\ hc' = [t \in Threads |-> None]
    /\ gh' = NoObject /\ head' = None
    /\ life' = {} /\ undefined' = FALSE /\ restarts' = restarts + 1
    /\ UNCHANGED <<records, header_count, fresh>>

Next ==
    \/ \E t \in Threads : Ask(t) \/ Count(t) \/ Recount(t)
    \/ \E o \in Objects : ReadBack(o) \/ Miss(o) \/ EraseHeader(o)
    \/ \E h \in Numbers : EraseObj(h)
    \/ PutUni \/ PutHead \/ RemoveHead \/ EraseUncached \/ GetObjUncached
    \/ CrashRestart

Spec == Init /\ [][Next]_vars

----------------------------------------------------------------------------
\* Types.  A header in a cache is one that was given out, or a misread one.
TypeOK ==
    /\ uni_rec \in [Descs -> Numbers \cup {None}]
    /\ head_rec \in [Numbers -> Descs \cup {NoDesc}]
    /\ header_count \in Nat
    /\ objCacheHeader \in [Slots -> Nat]
    /\ reverse_objCacheHeader \in [Numbers -> Objects \cup {NoObject}]
    /\ header_lock \in Threads \cup {NoThread}
    /\ pc \in [Threads -> {"idle", "counting", "counted", "putUni", "putHead", "eraseHead"}]
    /\ hc \in [Threads -> Numbers \cup {None}]
    /\ gh \in Objects \cup {NoObject} /\ head \in Nat
    /\ fresh \in Seq(Numbers) /\ life \subseteq Numbers
    /\ undefined \in BOOLEAN /\ restarts \in Nat

\* No number is given out twice, whichever threads ask at the same time and
\* wherever the process dies: header_lock, and the count is put before the
\* number is used.
FreshHeadersUnique == IsInjective(fresh)

\* Objects another object can be taken for.
AloneInSlot(o) == \A p \in Objects \ {o} : Slot[p] # Slot[o]
AloneInDesc(o) == \A p \in Objects \ {o} : Uni[p] # Uni[o]

\* The caches are inverse to one another on the headers of this life, and what
\* they say is in the database ("create ky-pair", GDKeyValue.h:120).  Only an
\* object of the same description can take a cached header's record away.  So a
\* header given out in this life is the answer for one slot only.
CachesAgree ==
    \A h \in Numbers :
      /\ reverse_objCacheHeader[h] # NoObject =>
            LET o == reverse_objCacheHeader[h]
            IN  /\ objCacheHeader[Slot[o]] = h
                /\ head_rec[h] = Uni[o]
                /\ AloneInDesc(o) => uni_rec[Uni[o]] = h
      /\ \A s \in Slots : objCacheHeader[s] = h =>
            /\ reverse_objCacheHeader[h] # NoObject
            /\ Slot[reverse_objCacheHeader[h]] = s

\* What a restart does to GetHeader it does not do without one: the record of a
\* header of this life is in the cache, so it is not read back and misread,
\* unless another object has the same slot or description.  The object that
\* User is about to put there is excepted.
LifeRecordsCached ==
    \A o \in Objects :
      /\ AloneInSlot(o) /\ AloneInDesc(o)
      /\ uni_rec[Uni[o]] \in life
      /\ ~(pc[User] = "putHead" /\ gh = o)
      => objCacheHeader[Slot[o]] = uni_rec[Uni[o]]

=============================================================================
