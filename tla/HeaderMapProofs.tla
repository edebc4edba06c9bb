--------------------------- MODULE HeaderMapProofs ---------------------------
(***************************************************************************)
(* Theorems about HeaderMap, for any objects, slots, descriptions, threads *)
(* and number of headers and restarts.                                     *)
(***************************************************************************)
EXTENDS HeaderMap, SequenceTheorems, TLAPS

----------------------------------------------------------------------------
(* The inductive invariant.                                                *)

\* The count grows with the numbers given out and is above all of them, and so
\* above everything that was recorded.
NumbersInv ==
    /\ \E c \in FirstCounts : CountOf(header_count) = CountOf(c) + Len(fresh)
    /\ Len(fresh) <= MaxHeaders
    /\ \A i \in 1 .. Len(fresh) : fresh[i] < CountOf(header_count)
    /\ \A n \in life : n < CountOf(header_count)
    /\ \A d \in Descs : uni_rec[d] < CountOf(header_count)

\* A thread between the two halves of GetNewHeader holds the lock, and what it
\* has read is still the count.
LockInv ==
    /\ \A t \in Threads : pc[t] = "counted" =>
          header_lock = t /\ hc[t] = CountOf(header_count) /\ Len(fresh) < MaxHeaders
    /\ \A t \in Others : pc[t] \in {"idle", "counting", "counted"}

\* What the owner of the maps knows between its steps.
UserInv ==
    /\ pc[User] # "idle" => gh \in Objects
    /\ pc[User] \in {"counting", "counted", "putUni"} => uni_rec[Uni[gh]] = None
    /\ pc[User] \in {"counting", "counted", "putUni", "putHead"} =>
          objCacheHeader[Slot[gh]] = None
    /\ pc[User] \in {"putUni", "putHead"} =>
          head \in life /\ \A s \in Slots : objCacheHeader[s] # head
    /\ pc[User] = "putHead" => uni_rec[Uni[gh]] = head
    /\ pc[User] \in {"putUni", "putHead", "eraseHead"} /\ head \in Numbers =>
          reverse_objCacheHeader[head] = NoObject

CachedInv == \A h \in Numbers : reverse_objCacheHeader[h] # NoObject => h \in life

HeaderInv ==
    /\ TypeOK /\ NumbersInv /\ LockInv /\ UserInv /\ CachedInv
    /\ FreshHeadersUnique /\ CachesAgree /\ LifeRecordsCached

----------------------------------------------------------------------------
(* Numbers are positive; the count is one of them while headers are left.  *)

LEMMA NumbersFacts ==
    /\ Numbers \subseteq Nat /\ None \notin Numbers /\ None \in Nat /\ MaxHeaders \in Nat
    /\ NoObject \notin Objects /\ NoDesc \notin Descs /\ NoThread \notin Threads
    /\ User \in Threads /\ User \notin Others /\ Others \subseteq Threads
    /\ \A o \in Objects : Slot[o] \in Slots /\ Uni[o] \in Descs
<1>1. \A c \in FirstCounts : CountOf(c) \in Nat \ {None}
  BY HeaderAssumption DEF CountOf, None
<1>2. \A c \in FirstCounts : \A n \in CountOf(c) .. (CountOf(c) + MaxHeaders) : n \in Nat /\ n # None
  <2> TAKE c \in FirstCounts
  <2> TAKE n \in CountOf(c) .. (CountOf(c) + MaxHeaders)
  <2> QED
    BY <1>1, HeaderAssumption DEF None
<1>3. Numbers \subseteq Nat /\ None \notin Numbers
  BY <1>2 DEF Numbers
<1> QED
  BY <1>3, HeaderAssumption DEF Threads, Slots, Descs, None

LEMMA CountFacts ==
    /\ \A c \in FirstCounts : CountOf(c) \in Nat \ {None} /\ c \in Nat
    /\ \A c \in Nat : CountOf(c) \in Nat \ {None} /\ CountOf(c + 1) = c + 1
<1>1. DefaultCount \in Nat \ {0} /\ FirstCounts \subseteq Nat
  BY HeaderAssumption DEF None
<1> QED
  BY <1>1 DEF CountOf, None

LEMMA CountIsNumber ==
    ASSUME TypeOK, NumbersInv
    PROVE  CountOf(header_count) \in Numbers /\ CountOf(header_count) \in Nat
<1>1. PICK c \in FirstCounts : CountOf(header_count) = CountOf(c) + Len(fresh)
  BY DEF NumbersInv
<1>2. Len(fresh) \in 0 .. MaxHeaders
  BY LenProperties, NumbersFacts DEF TypeOK, NumbersInv
<1>3. CountOf(c) \in Nat /\ MaxHeaders \in Nat
  BY CountFacts, NumbersFacts
<1>4. CountOf(c) + Len(fresh) \in CountOf(c) .. (CountOf(c) + MaxHeaders)
  BY ONLY <1>2, <1>3
<1>5. CountOf(header_count) \in Numbers
  BY <1>1, <1>4 DEF Numbers
<1> QED
  BY <1>5, NumbersFacts

----------------------------------------------------------------------------
(* The invariant is inductive.                                             *)

LEMMA HeaderInit == Init => HeaderInv
<1> SUFFICES ASSUME Init PROVE HeaderInv
  OBVIOUS
<1> USE NumbersFacts
<1>1. TypeOK
  <2>1. header_count \in Nat /\ fresh \in Seq(Numbers)
    BY CountFacts, EmptySeq DEF Init
  <2> QED
    BY <2>1 DEF Init, TypeOK
<1>2. NumbersInv
  <2>1. CountOf(header_count) \in Nat \ {None} /\ header_count \in FirstCounts
    BY CountFacts DEF Init
  <2>2. Len(fresh) = 0 /\ life = {}
    BY DEF Init
  <2>3. \A d \in Descs : uni_rec[d] = 0
    BY DEF Init, None
  <2> QED
    BY <2>1, <2>2, <2>3 DEF NumbersInv, None
<1>3. LockInv /\ UserInv
  BY DEF Init, LockInv, UserInv, Threads
<1>4. CachedInv /\ CachesAgree /\ LifeRecordsCached
  BY DEF Init, CachedInv, CachesAgree, LifeRecordsCached
<1>5. FreshHeadersUnique
  BY DEF Init, FreshHeadersUnique, IsInjective
<1> QED
  BY <1>1, <1>2, <1>3, <1>4, <1>5 DEF HeaderInv

\* Asking for a number, taking the lock and losing the process.
LEMMA AskStep == ASSUME HeaderInv, NEW t \in Threads, Ask(t) PROVE HeaderInv'
<1> USE NumbersFacts DEF HeaderInv, Ask, Quiet, Goto, records, caches, counter, rest
<1>0. t \in Others /\ t # User
  BY DEF Threads
<1>1. TypeOK'
  BY DEF TypeOK
<1>2. NumbersInv'
  BY DEF NumbersInv
<1>3. LockInv'
  BY DEF LockInv, TypeOK
<1>4. pc'[User] = pc[User]
  BY <1>0 DEF TypeOK
<1>5. UserInv' /\ CachedInv'
  BY <1>4 DEF UserInv, CachedInv
<1>6. FreshHeadersUnique' /\ CachesAgree'
  BY DEF FreshHeadersUnique, CachesAgree
<1>7. LifeRecordsCached'
  BY <1>4 DEF LifeRecordsCached
<1> QED
  BY <1>1, <1>2, <1>3, <1>5, <1>6, <1>7

LEMMA CountStep == ASSUME HeaderInv, NEW t \in Threads, Count(t) PROVE HeaderInv'
<1> USE NumbersFacts DEF HeaderInv, Count, Goto, records, caches, counter, rest
<1>0. CountOf(header_count) \in Numbers
  BY CountIsNumber
<1>1. TypeOK'
  BY <1>0 DEF TypeOK
<1>2. NumbersInv'
  BY DEF NumbersInv
<1>3. LockInv'
  <2>1. \A v \in Threads : pc[v] # "counted"
    BY DEF LockInv
  <2> QED
    BY <2>1 DEF LockInv, TypeOK
<1>4. \/ pc'[User] = pc[User]
      \/ pc[User] = "counting" /\ pc'[User] = "counted"
  BY DEF TypeOK
<1>5. UserInv' /\ CachedInv'
  BY <1>4 DEF UserInv, CachedInv
<1>6. FreshHeadersUnique' /\ CachesAgree'
  BY DEF FreshHeadersUnique, CachesAgree
<1>7. LifeRecordsCached'
  BY <1>4 DEF LifeRecordsCached
<1> QED
  BY <1>1, <1>2, <1>3, <1>5, <1>6, <1>7

LEMMA CrashStep == ASSUME HeaderInv, CrashRestart PROVE HeaderInv'
<1> USE NumbersFacts DEF HeaderInv, CrashRestart, records
<1>1. TypeOK'
  <2>1. /\ objCacheHeader' \in [Slots -> Nat]
        /\ reverse_objCacheHeader' \in [Numbers -> Objects \cup {NoObject}]
        /\ hc' \in [Threads -> Numbers \cup {None}]
        /\ pc' \in [Threads -> {"idle"}]
    OBVIOUS
  <2>2. restarts' \in Nat
    BY DEF TypeOK
  <2> QED
    BY <2>1, <2>2 DEF TypeOK
<1>2. NumbersInv'
  BY DEF NumbersInv
<1>3. LockInv' /\ UserInv'
  BY DEF LockInv, UserInv, Threads
<1>4. CachedInv' /\ CachesAgree' /\ LifeRecordsCached'
  BY DEF CachedInv, CachesAgree, LifeRecordsCached
<1>5. FreshHeadersUnique'
  BY DEF FreshHeadersUnique
<1> QED
  BY <1>1, <1>2, <1>3, <1>4, <1>5

\* A number is given out: it is above all that were, so it is new.
LEMMA RecountStep == ASSUME HeaderInv, NEW t \in Threads, Recount(t) PROVE HeaderInv'
<1> USE NumbersFacts
<1> USE DEF Recount, Goto, records, caches, rest
<1>0. TypeOK /\ NumbersInv /\ LockInv /\ UserInv /\ CachedInv
      /\ FreshHeadersUnique /\ CachesAgree /\ LifeRecordsCached
  BY DEF HeaderInv
<1>1. PICK n \in Numbers : n = hc[t] /\ n = CountOf(header_count) /\ n \in Nat
  BY <1>0, CountIsNumber DEF LockInv
<1>2. /\ header_count' = n + 1 /\ CountOf(header_count') = n + 1
      /\ fresh' = Append(fresh, n) /\ life' = life \cup {n}
  BY <1>1, CountFacts
<1>3. /\ Len(fresh') = Len(fresh) + 1 /\ Len(fresh) < MaxHeaders /\ Len(fresh) \in Nat
      /\ fresh'[Len(fresh) + 1] = n /\ \A i \in 1 .. Len(fresh) : fresh'[i] = fresh[i]
  BY <1>0, <1>2, AppendProperties, LenProperties DEF TypeOK, LockInv
<1>4. TypeOK'
  <2>1. fresh' \in Seq(Numbers)
    BY <1>0, <1>2, AppendProperties DEF TypeOK
  <2>2. header_count' \in Nat /\ header_lock' \in Threads \cup {NoThread}
        /\ head' \in Nat /\ life' \subseteq Numbers
    <3>1. n + 1 \in Nat /\ life \subseteq Numbers /\ head \in Nat
      BY <1>0, <1>1 DEF TypeOK
    <3> QED
      BY <3>1, <1>1, <1>2
  <2> QED
    BY <1>0, <2>1, <2>2 DEF TypeOK
<1>5. NumbersInv'
  <2>1. PICK c \in FirstCounts : CountOf(header_count) = CountOf(c) + Len(fresh)
    BY <1>0 DEF NumbersInv
  <2>2. CountOf(header_count') = CountOf(c) + Len(fresh')
    <3>1. CountOf(c) \in Nat
      BY CountFacts
    <3> QED
      BY <3>1, <2>1, <1>1, <1>2, <1>3
  <2>3. \A i \in 1 .. Len(fresh') : fresh'[i] < n + 1
    <3> SUFFICES ASSUME NEW i \in 1 .. Len(fresh') PROVE fresh'[i] < n + 1
      OBVIOUS
    <3>1. CASE i = Len(fresh) + 1
      BY <3>1, <1>3
    <3>2. CASE i \in 1 .. Len(fresh)
      <4>1. fresh[i] \in Nat /\ fresh[i] < n
        BY <3>2, <1>0, <1>1, ElementOfSeq DEF NumbersInv, TypeOK
      <4> QED
        BY <4>1, <3>2, <1>3
    <3> QED
      BY <3>1, <3>2, <1>3
  <2>4. \A m \in life' : m < n + 1
    BY <1>0, <1>1, <1>2 DEF NumbersInv, TypeOK
  <2>5. \A d \in Descs : uni_rec'[d] < n + 1
    <3> TAKE d \in Descs
    <3>1. uni_rec[d] \in Nat
      BY <1>0 DEF TypeOK
    <3>2. uni_rec[d] < n
      BY <1>0, <1>1 DEF NumbersInv
    <3> QED
      BY <3>1, <3>2, <1>1
  <2> QED
    BY <2>2, <2>3, <2>4, <2>5, <1>2, <1>3 DEF NumbersInv
<1>6. \A v \in Threads : pc[v] = "counted" => v = t
  BY <1>0 DEF LockInv
<1>7. LockInv'
  <2>1. \A v \in Threads : pc'[v] # "counted"
    BY <1>0, <1>6 DEF TypeOK
  <2>2. \A v \in Others : pc'[v] \in {"idle", "counting", "counted"}
    BY <1>0 DEF TypeOK, LockInv, Threads
  <2> QED
    BY <2>1, <2>2 DEF LockInv
<1>8. reverse_objCacheHeader[n] = NoObject /\ \A s \in Slots : objCacheHeader[s] # n
  <2>1. n \notin life
    <3>1. \A m \in life : m < n
      BY <1>0, <1>1 DEF NumbersInv
    <3>2. ~(n < n)
      BY ONLY n \in Nat
    <3> QED
      BY ONLY <3>1, <3>2
  <2> QED
    BY <2>1, <1>0 DEF CachedInv, CachesAgree
<1>9. \/ t = User /\ pc[User] = "counted" /\ pc'[User] = "putUni" /\ head' = n
      \/ t # User /\ pc'[User] = pc[User] /\ head' = head
  BY <1>0, <1>1, NumbersFacts DEF TypeOK
<1>10. UserInv'
  BY <1>0, <1>2, <1>8, <1>9 DEF UserInv
<1>11. CachedInv' /\ CachesAgree'
  BY <1>0, <1>2 DEF CachedInv, CachesAgree
<1>12. FreshHeadersUnique'
  <2> SUFFICES ASSUME NEW i \in 1 .. Len(fresh'), NEW j \in 1 .. Len(fresh'),
                      fresh'[i] = fresh'[j]
               PROVE  i = j
    BY <1>4 DEF FreshHeadersUnique, IsInjective, TypeOK
  <2>1. \A k \in 1 .. Len(fresh) : fresh'[k] # n
    <3> TAKE k \in 1 .. Len(fresh)
    <3>1. fresh[k] < n /\ fresh[k] \in Nat
      BY <1>0, <1>1, ElementOfSeq DEF NumbersInv, TypeOK
    <3> QED
      BY <3>1, <1>1, <1>3
  <2>2. CASE i \in 1 .. Len(fresh) /\ j \in 1 .. Len(fresh)
    BY <2>2, <1>0, <1>3 DEF FreshHeadersUnique, IsInjective, TypeOK
  <2>3. CASE i = Len(fresh) + 1 \/ j = Len(fresh) + 1
    BY <2>1, <2>3, <1>3
  <2> QED
    BY <2>2, <2>3, <1>3
<1>13. LifeRecordsCached'
  <2>1. \A d \in Descs : uni_rec[d] # n
    BY <1>0, <1>1 DEF NumbersInv
  <2>2. \A o \in Objects : ~(pc[User] = "putHead" /\ gh = o) \/ t # User
    BY <1>9
  <2> QED
    BY <2>1, <1>0, <1>2, <1>9 DEF LifeRecordsCached
<1> QED
  BY <1>4, <1>5, <1>7, <1>10, <1>11, <1>12, <1>13 DEF HeaderInv

----------------------------------------------------------------------------
(* The owner's steps.                                                      *)

\* None of them touches the counter.
LEMMA CounterKept ==
    ASSUME HeaderInv, UNCHANGED counter, \A t \in Others : pc'[t] = pc[t],
           pc'[User] = "counted" => pc[User] = "counted",
           \A d \in Descs : uni_rec'[d] \in {uni_rec[d], None} \/ uni_rec'[d] \in life
    PROVE  NumbersInv' /\ LockInv' /\ FreshHeadersUnique'
<1>1. NumbersInv'
  <2>1. \A d \in Descs : uni_rec'[d] < CountOf(header_count)
    <3> TAKE d \in Descs
    <3>1. CountOf(header_count) \in Nat /\ CountOf(header_count) # 0
      BY CountIsNumber, NumbersFacts DEF HeaderInv, None
    <3>2. uni_rec[d] < CountOf(header_count) /\ \A n \in life : n < CountOf(header_count)
      BY DEF HeaderInv, NumbersInv
    <3>3. uni_rec'[d] = uni_rec[d] \/ uni_rec'[d] = 0 \/ uni_rec'[d] \in life
      BY DEF None
    <3> QED
      BY ONLY <3>1, <3>2, <3>3
  <2> QED
    BY <2>1 DEF HeaderInv, NumbersInv, counter
<1>2. LockInv'
  BY DEF HeaderInv, LockInv, counter, Threads
<1>3. FreshHeadersUnique'
  BY DEF HeaderInv, FreshHeadersUnique, counter
<1> QED
  BY <1>1, <1>2, <1>3

LEMMA ReadBackStep == ASSUME HeaderInv, NEW o \in Objects, ReadBack(o) PROVE HeaderInv'
<1> USE NumbersFacts DEF ReadBack, Quiet, records, rest
<1>0. TypeOK /\ UserInv /\ CachedInv /\ CachesAgree /\ LifeRecordsCached
  BY DEF HeaderInv
<1>1. NumbersInv' /\ LockInv' /\ FreshHeadersUnique'
  BY CounterKept
<1>2. PICK m \in Nat \ (Numbers \cup {None}) : m = Misread(uni_rec[Uni[o]])
  BY <1>0, HeaderAssumption DEF TypeOK
<1>3. objCacheHeader' = [objCacheHeader EXCEPT ![Slot[o]] = m]
  BY <1>2
<1>4. TypeOK'
  BY <1>0, <1>3 DEF TypeOK, counter
<1>5. UserInv' /\ CachedInv'
  BY <1>0 DEF UserInv, CachedInv, counter
<1>6. CachesAgree'
  BY <1>0, <1>2, <1>3 DEF CachesAgree, TypeOK
<1>7. LifeRecordsCached'
  <2> SUFFICES ASSUME NEW p \in Objects, AloneInSlot(p), AloneInDesc(p),
                      uni_rec[Uni[p]] \in life
               PROVE  objCacheHeader'[Slot[p]] = uni_rec[Uni[p]]
    BY DEF LifeRecordsCached, counter, AloneInSlot, AloneInDesc
  <2>1. objCacheHeader[Slot[p]] = uni_rec[Uni[p]] /\ uni_rec[Uni[p]] # None
    BY <1>0 DEF LifeRecordsCached, TypeOK
  <2>2. Slot[p] # Slot[o]
    BY <2>1
  <2> QED
    BY <2>1, <2>2, <1>0, <1>3 DEF TypeOK
<1> QED
  BY <1>1, <1>4, <1>5, <1>6, <1>7 DEF HeaderInv

LEMMA MissStep == ASSUME HeaderInv, NEW o \in Objects, Miss(o) PROVE HeaderInv'
<1> USE NumbersFacts DEF Miss, Quiet, Goto, records, caches, rest
<1>0. TypeOK /\ UserInv /\ CachedInv /\ CachesAgree /\ LifeRecordsCached
  BY DEF HeaderInv
<1>1. pc'[User] = "counting" /\ \A t \in Others : pc'[t] = pc[t]
  BY <1>0 DEF TypeOK, Threads
<1>2. NumbersInv' /\ LockInv' /\ FreshHeadersUnique'
  BY <1>1, CounterKept
<1>3. TypeOK'
  BY <1>0 DEF TypeOK, counter
<1>4. UserInv' /\ CachedInv'
  BY <1>0, <1>1 DEF UserInv, CachedInv, counter
<1>5. CachesAgree' /\ LifeRecordsCached'
  BY <1>0, <1>1 DEF CachesAgree, LifeRecordsCached, counter
<1> QED
  BY <1>2, <1>3, <1>4, <1>5 DEF HeaderInv

LEMMA PutUniStep == ASSUME HeaderInv, PutUni PROVE HeaderInv'
<1> USE NumbersFacts DEF PutUni, Goto, caches, rest
<1>0. TypeOK /\ UserInv /\ CachedInv /\ CachesAgree /\ LifeRecordsCached
  BY DEF HeaderInv
<1>1. pc'[User] = "putHead" /\ \A t \in Others : pc'[t] = pc[t]
  BY <1>0 DEF TypeOK, Threads
<1>2. gh \in Objects /\ head \in life /\ head \in Numbers
  BY <1>0 DEF UserInv, TypeOK
<1>3. uni_rec'[Uni[gh]] = head /\ \A d \in Descs : d # Uni[gh] => uni_rec'[d] = uni_rec[d]
  BY <1>0, <1>2 DEF TypeOK
<1>4. NumbersInv' /\ LockInv' /\ FreshHeadersUnique'
  <2>1. \A d \in Descs : uni_rec'[d] \in {uni_rec[d], None} \/ uni_rec'[d] \in life
    BY <1>2, <1>3
  <2> QED
    BY <1>1, <2>1, CounterKept
<1>5. TypeOK'
  BY <1>0, <1>2 DEF TypeOK, counter
<1>6. UserInv' /\ CachedInv'
  BY <1>0, <1>1, <1>3 DEF UserInv, CachedInv, counter
<1>7. CachesAgree'
  <2> SUFFICES ASSUME NEW h \in Numbers, reverse_objCacheHeader[h] # NoObject,
                      NEW o, o = reverse_objCacheHeader[h], AloneInDesc(o)
               PROVE  uni_rec'[Uni[o]] = h
    BY <1>0 DEF CachesAgree, AloneInDesc
  <2>1. uni_rec[Uni[o]] = h /\ h # None /\ o \in Objects
    BY <1>0 DEF CachesAgree, TypeOK
  <2>2. uni_rec[Uni[gh]] = None
    BY <1>0 DEF UserInv
  <2> QED
    BY <2>1, <2>2, <1>3
<1>8. LifeRecordsCached'
  <2> SUFFICES ASSUME NEW p \in Objects, AloneInSlot(p), AloneInDesc(p), p # gh,
                      uni_rec'[Uni[p]] \in life
               PROVE  objCacheHeader[Slot[p]] = uni_rec'[Uni[p]]
    BY <1>1 DEF LifeRecordsCached, counter, AloneInSlot, AloneInDesc
  <2>1. Uni[p] # Uni[gh]
    BY <1>2 DEF AloneInDesc
  <2> QED
    BY <2>1, <1>0, <1>3 DEF LifeRecordsCached
<1> QED
  BY <1>4, <1>5, <1>6, <1>7, <1>8 DEF HeaderInv

LEMMA PutHeadStep == ASSUME HeaderInv, PutHead PROVE HeaderInv'
<1> USE NumbersFacts DEF PutHead, Goto, rest
<1>0. TypeOK /\ UserInv /\ CachedInv /\ CachesAgree /\ LifeRecordsCached
  BY DEF HeaderInv
<1>1. pc'[User] = "idle" /\ \A t \in Others : pc'[t] = pc[t]
  BY <1>0 DEF TypeOK, Threads
<1>2. /\ gh \in Objects /\ head \in life /\ head \in Numbers /\ uni_rec[Uni[gh]] = head
      /\ objCacheHeader[Slot[gh]] = None /\ \A s \in Slots : objCacheHeader[s] # head
      /\ reverse_objCacheHeader[head] = NoObject
  BY <1>0 DEF UserInv, TypeOK
<1>3. NumbersInv' /\ LockInv' /\ FreshHeadersUnique'
  BY <1>1, CounterKept
<1>4. TypeOK'
  BY <1>0, <1>2 DEF TypeOK, counter
<1>5. UserInv' /\ CachedInv'
  BY <1>0, <1>1, <1>2 DEF UserInv, CachedInv, counter, TypeOK
<1>6. /\ objCacheHeader'[Slot[gh]] = head
      /\ \A s \in Slots : s # Slot[gh] => objCacheHeader'[s] = objCacheHeader[s]
      /\ reverse_objCacheHeader'[head] = gh /\ head_rec'[head] = Uni[gh]
      /\ \A h \in Numbers : h # head =>
            /\ reverse_objCacheHeader'[h] = reverse_objCacheHeader[h]
            /\ head_rec'[h] = head_rec[h]
  BY <1>0, <1>2 DEF TypeOK
<1>7. CachesAgree'
  <2> SUFFICES ASSUME NEW h \in Numbers
      PROVE  /\ reverse_objCacheHeader'[h] # NoObject =>
                   /\ objCacheHeader'[Slot[reverse_objCacheHeader'[h]]] = h
                   /\ head_rec'[h] = Uni[reverse_objCacheHeader'[h]]
                   /\ AloneInDesc(reverse_objCacheHeader'[h]) =>
                         uni_rec[Uni[reverse_objCacheHeader'[h]]] = h
             /\ \A s \in Slots : objCacheHeader'[s] = h =>
                   /\ reverse_objCacheHeader'[h] # NoObject
                   /\ Slot[reverse_objCacheHeader'[h]] = s
    BY DEF CachesAgree, AloneInDesc
  <2>1. CASE h = head
    BY <2>1, <1>2, <1>6
  <2>2. CASE h # head
    <3>1. reverse_objCacheHeader'[h] = reverse_objCacheHeader[h] /\ head_rec'[h] = head_rec[h]
      BY <2>2, <1>6
    <3>2. \A s \in Slots : objCacheHeader'[s] = h => objCacheHeader[s] = h
      BY <2>2, <1>6
    <3>3. ASSUME reverse_objCacheHeader[h] # NoObject
          PROVE  objCacheHeader'[Slot[reverse_objCacheHeader[h]]] = h
      <4>1. objCacheHeader[Slot[reverse_objCacheHeader[h]]] = h /\ h # None
            /\ reverse_objCacheHeader[h] \in Objects
        BY <3>3, <1>0 DEF CachesAgree, TypeOK
      <4> QED
        BY <4>1, <1>2, <1>6
    <3> QED
      BY <3>1, <3>2, <3>3, <1>0 DEF CachesAgree
  <2> QED
    BY <2>1, <2>2
<1>8. LifeRecordsCached'
  <2> SUFFICES ASSUME NEW p \in Objects, AloneInSlot(p), AloneInDesc(p),
                      uni_rec[Uni[p]] \in life
               PROVE  objCacheHeader'[Slot[p]] = uni_rec[Uni[p]]
    BY DEF LifeRecordsCached, counter, AloneInSlot, AloneInDesc
  <2>1. CASE p = gh
    BY <2>1, <1>2, <1>6
  <2>2. CASE p # gh
    <3>1. Slot[p] # Slot[gh] /\ objCacheHeader[Slot[p]] = uni_rec[Uni[p]]
      BY <2>2, <1>0, <1>2 DEF LifeRecordsCached, AloneInSlot
    <3> QED
      BY <3>1, <1>6
  <2> QED
    BY <2>1, <2>2
<1> QED
  BY <1>3, <1>4, <1>5, <1>7, <1>8 DEF HeaderInv

LEMMA EraseHeaderStep == ASSUME HeaderInv, NEW o \in Objects, EraseHeader(o) PROVE HeaderInv'
<1> USE NumbersFacts DEF EraseHeader, Quiet, Forget, RemoveRecord, Goto, rest
<1>0. TypeOK /\ UserInv /\ CachedInv /\ CachesAgree /\ LifeRecordsCached
  BY DEF HeaderInv
<1>1. pc'[User] = "eraseHead" /\ \A t \in Others : pc'[t] = pc[t]
  BY <1>0 DEF TypeOK, Threads
<1>2. /\ objCacheHeader'[Slot[o]] = None /\ uni_rec'[Uni[o]] = None
      /\ \A s \in Slots : s # Slot[o] => objCacheHeader'[s] = objCacheHeader[s]
      /\ \A d \in Descs : d # Uni[o] => uni_rec'[d] = uni_rec[d]
      /\ gh' = o /\ head' = objCacheHeader[Slot[o]] /\ head' \in Nat
      /\ \A h \in Numbers : reverse_objCacheHeader'[h] =
            IF h = head' THEN NoObject ELSE reverse_objCacheHeader[h]
  BY <1>0 DEF TypeOK
<1>3. NumbersInv' /\ LockInv' /\ FreshHeadersUnique'
  <2>1. \A d \in Descs : uni_rec'[d] \in {uni_rec[d], None} \/ uni_rec'[d] \in life
    BY <1>2
  <2> QED
    BY <1>1, <2>1, CounterKept
<1>4. TypeOK'
  BY <1>0, <1>2 DEF TypeOK, counter, None
<1>5. UserInv' /\ CachedInv'
  BY <1>0, <1>1, <1>2 DEF UserInv, CachedInv, counter
<1>6. ASSUME NEW h \in Numbers, reverse_objCacheHeader'[h] # NoObject
      PROVE  /\ reverse_objCacheHeader[h] = reverse_objCacheHeader'[h]
             /\ reverse_objCacheHeader[h] \in Objects
             /\ Slot[reverse_objCacheHeader[h]] # Slot[o]
  <2>1. h # head' /\ reverse_objCacheHeader[h] = reverse_objCacheHeader'[h]
    BY <1>2, <1>6
  <2>2. objCacheHeader[Slot[reverse_objCacheHeader[h]]] = h
    BY <1>0, <1>6, <2>1 DEF CachesAgree
  <2> QED
    <3>1. reverse_objCacheHeader[h] \in Objects
      BY <2>1, <1>0, <1>6 DEF TypeOK
    <3>2. Slot[reverse_objCacheHeader[h]] # Slot[o]
      BY ONLY <2>1, <2>2, <1>2
    <3> QED
      BY <2>1, <3>1, <3>2
<1>7. CachesAgree'
  <2>1. ASSUME NEW h \in Numbers, reverse_objCacheHeader'[h] # NoObject,
               NEW p, p = reverse_objCacheHeader'[h]
        PROVE  /\ objCacheHeader'[Slot[p]] = h /\ head_rec[h] = Uni[p]
               /\ AloneInDesc(p) => uni_rec'[Uni[p]] = h
    <3>1. p = reverse_objCacheHeader[h] /\ p \in Objects /\ Slot[p] # Slot[o]
      BY <1>6, <2>1
    <3>2. objCacheHeader[Slot[p]] = h /\ head_rec[h] = Uni[p]
          /\ (AloneInDesc(p) => uni_rec[Uni[p]] = h)
      BY <3>1, <2>1, <1>0 DEF CachesAgree
    <3>3. AloneInDesc(p) => Uni[p] # Uni[o]
      BY <3>1 DEF AloneInDesc
    <3> QED
      BY <3>1, <3>2, <3>3, <1>2
  <2>2. ASSUME NEW h \in Numbers, NEW s \in Slots, objCacheHeader'[s] = h
        PROVE  reverse_objCacheHeader'[h] # NoObject /\ Slot[reverse_objCacheHeader'[h]] = s
    <3>1. s # Slot[o] /\ objCacheHeader[s] = h
      BY <2>2, <1>2
    <3>2. reverse_objCacheHeader[h] # NoObject /\ Slot[reverse_objCacheHeader[h]] = s
      BY <3>1, <1>0 DEF CachesAgree
    <3>3. h # head'
      BY <3>1, <3>2, <1>0, <1>2 DEF CachesAgree
    <3> QED
      BY <3>2, <3>3, <1>2
  <2>3. head_rec' = head_rec
    OBVIOUS
  <2> QED
    BY <2>1, <2>2, <2>3 DEF CachesAgree, AloneInDesc
<1>8. LifeRecordsCached'
  <2> SUFFICES ASSUME NEW p \in Objects, AloneInSlot(p), AloneInDesc(p),
                      uni_rec'[Uni[p]] \in life
               PROVE  objCacheHeader'[Slot[p]] = uni_rec'[Uni[p]]
    BY DEF LifeRecordsCached, counter, AloneInSlot, AloneInDesc
  <2>1. p # o
    BY <1>0, <1>2 DEF TypeOK
  <2>2. Slot[p] # Slot[o] /\ Uni[p] # Uni[o]
    BY <2>1 DEF AloneInSlot, AloneInDesc
  <2> QED
    BY <2>2, <1>0, <1>2 DEF LifeRecordsCached
<1> QED
  BY <1>3, <1>4, <1>5, <1>7, <1>8 DEF HeaderInv

\* A header in the reverse cache is its object's, so erasing the one erases the
\* other.
LEMMA EraseObjIsEraseHeader ==
    ASSUME HeaderInv, NEW h \in Numbers, EraseObj(h)
    PROVE  \E o \in Objects : EraseHeader(o)
<1>1. PICK o \in Objects : o = reverse_objCacheHeader[h]
  BY DEF HeaderInv, TypeOK, EraseObj
<1>2. objCacheHeader[Slot[o]] = h /\ h # None
  BY <1>1, NumbersFacts DEF HeaderInv, CachesAgree, EraseObj
<1> QED
  BY <1>1, <1>2 DEF EraseObj, EraseHeader

LEMMA RemoveHeadStep == ASSUME HeaderInv, RemoveHead PROVE HeaderInv'
<1> USE NumbersFacts DEF RemoveHead, Goto, caches, rest
<1>0. TypeOK /\ UserInv /\ CachedInv /\ CachesAgree /\ LifeRecordsCached
  BY DEF HeaderInv
<1>1. pc'[User] = "idle" /\ \A t \in Others : pc'[t] = pc[t]
  BY <1>0 DEF TypeOK, Threads
<1>2. NumbersInv' /\ LockInv' /\ FreshHeadersUnique'
  BY <1>1, CounterKept
<1>3. TypeOK'
  BY <1>0 DEF TypeOK, counter
<1>4. UserInv' /\ CachedInv' /\ LifeRecordsCached'
  BY <1>0, <1>1 DEF UserInv, CachedInv, LifeRecordsCached, counter
<1>5. CachesAgree'
  <2>1. \A h \in Numbers : reverse_objCacheHeader[h] # NoObject => head_rec'[h] = head_rec[h]
    BY <1>0 DEF UserInv
  <2> QED
    BY <2>1, <1>0 DEF CachesAgree
<1> QED
  BY <1>2, <1>3, <1>4, <1>5 DEF HeaderInv

\* Steps into undefined behaviour, and no step at all.
LEMMA QuietStep ==
    ASSUME HeaderInv, UNCHANGED <<records, caches, counter, pc, gh, head, restarts>>,
           undefined' \in BOOLEAN
    PROVE  HeaderInv'
<1> USE DEF records, caches, counter
<1>1. TypeOK' /\ NumbersInv' /\ LockInv'
  BY DEF HeaderInv, TypeOK, NumbersInv, LockInv
<1>2. UserInv' /\ CachedInv' /\ FreshHeadersUnique'
  BY DEF HeaderInv, UserInv, CachedInv, FreshHeadersUnique
<1>3. CachesAgree' /\ LifeRecordsCached'
  BY DEF HeaderInv, CachesAgree, LifeRecordsCached
<1> QED
  BY <1>1, <1>2, <1>3 DEF HeaderInv

LEMMA HeaderStep == HeaderInv /\ [Next]_vars => HeaderInv'
<1> SUFFICES ASSUME HeaderInv, [Next]_vars PROVE HeaderInv'
  OBVIOUS
<1>1. ASSUME NEW t \in Threads, Ask(t) \/ Count(t) \/ Recount(t) PROVE HeaderInv'
  BY <1>1, AskStep, CountStep, RecountStep
<1>2. ASSUME NEW o \in Objects, ReadBack(o) \/ Miss(o) \/ EraseHeader(o) PROVE HeaderInv'
  BY <1>2, ReadBackStep, MissStep, EraseHeaderStep
<1>3. ASSUME NEW h \in Numbers, EraseObj(h) PROVE HeaderInv'
  BY <1>3, EraseObjIsEraseHeader, EraseHeaderStep
<1>4. CASE PutUni \/ PutHead \/ RemoveHead
  BY <1>4, PutUniStep, PutHeadStep, RemoveHeadStep
<1>5. CASE EraseUncached \/ GetObjUncached
  BY <1>5, QuietStep DEF EraseUncached, GetObjUncached
<1>6. CASE CrashRestart
  BY <1>6, CrashStep
<1>7. CASE UNCHANGED vars
  <2>1. undefined' \in BOOLEAN
    BY <1>7 DEF vars, rest, HeaderInv, TypeOK
  <2> QED
    BY <2>1, <1>7, QuietStep DEF vars, rest
<1> QED
  BY <1>1, <1>2, <1>3, <1>4, <1>5, <1>6, <1>7 DEF Next

LEMMA HeaderInvHolds == Spec => []HeaderInv
  BY HeaderInit, HeaderStep, PTL DEF Spec

----------------------------------------------------------------------------
\* Type correctness: a header in a cache, a record or a thread's hands is a
\* number that was given out, or a misread one.
THEOREM HeadersTypeCorrect == Spec => []TypeOK
  BY HeaderInvHolds, PTL DEF HeaderInv

\* Header::GetNewHeader never gives a number out twice, to whatever threads and
\* across whatever restarts.
THEOREM HeadersAlwaysUnique == Spec => []FreshHeadersUnique
  BY HeaderInvHolds, PTL DEF HeaderInv

\* The two caches of RocksKV are inverse to one another on the headers of this
\* life, and agree with the database.
THEOREM CachesAlwaysAgree == Spec => []CachesAgree
  BY HeaderInvHolds, PTL DEF HeaderInv

\* GetHeader does not misread a record of this life, unless two objects have
\* the same slot or the same description.
THEOREM LifeRecordsAlwaysCached == Spec => []LifeRecordsCached
  BY HeaderInvHolds, PTL DEF HeaderInv
=============================================================================
