------------------------- MODULE SyncJournalProofs -------------------------
(***************************************************************************)
(* Theorems about SyncJournal and the combining of operations, for any     *)
(* requests, objects, texts, operations and number of crashes, whichever   *)
(* writes fail.                                                            *)
(***************************************************************************)
EXTENDS SyncJournal, ListLemmas

----------------------------------------------------------------------------
(* Finding a position in a list of slices. *)

\* The text before slice i, and the text after it.
Ahead(list, i)  == FlattenSeq(SubSeq(list, 1, i - 1))
Behind(list, i) == FlattenSeq(SubSeq(list, i + 1, Len(list)))

\* A list at slice i: what lies ahead of it, the slice, and what lies behind it.
LEMMA SplitAt ==
    ASSUME NEW C, NEW list \in Seq(Seq(C)), NEW i \in 1..Len(list)
    PROVE  /\ SubSeq(list, 1, i - 1) \in Seq(Seq(C)) /\ SubSeq(list, i + 1, Len(list)) \in Seq(Seq(C))
           /\ Ahead(list, i) \in Seq(C) /\ list[i] \in Seq(C) /\ Behind(list, i) \in Seq(C)
           /\ SubSeq(list, i, Len(list)) \in Seq(Seq(C))
           /\ FlattenSeq(SubSeq(list, i, Len(list))) = list[i] \o Behind(list, i)
           /\ FlattenSeq(list) = Ahead(list, i) \o (list[i] \o Behind(list, i))
           /\ Length(list, i - 1) = Len(Ahead(list, i))
           /\ Length(list, i) = Len(Ahead(list, i)) + Len(list[i])
<1>1. Len(list) \in Nat /\ i \in Nat /\ list[i] \in Seq(C)
    BY LenProperties, ElementOfSeq
<1>2. PICK x \in Seq(C) : x = list[i]
    BY <1>1
<1>3. PICK a \in Seq(Seq(C)) : a = SubSeq(list, 1, i - 1)
  <2>1. i \in 1..(Len(list) + 1)
      BY <1>1
  <2> QED
      BY <2>1, Parts
<1>4. PICK b \in Seq(Seq(C)) : b = SubSeq(list, i + 1, Len(list))
  <2>1. PICK n \in 1..(Len(list) + 1) : n = i + 1
      BY <1>1
  <2>2. SubSeq(list, n, Len(list)) \in Seq(Seq(C))
      BY Parts
  <2> QED
      BY <2>1, <2>2
<1>5. <<x>> \in Seq(Seq(C)) /\ FlattenSeq(<<x>>) = x
    BY FlattenFew
<1>6. SubSeq(list, i, Len(list)) = <<x>> \o b
  <2>1. SubSeq(list, i, Len(list)) = <<list[i]>> \o SubSeq(list, i + 1, Len(list))
      BY FirstApart
  <2> QED
      BY <1>2, <1>4, <2>1
<1>7. list = a \o (<<x>> \o b)
  <2>1. /\ 1 \in 1..Len(list) + 1 /\ i - 1 \in 1 - 1..Len(list) /\ Len(list) \in i - 1..Len(list)
        /\ (i - 1) + 1 = i
      BY <1>1
  <2>2. SubSeq(list, 1, i - 1) \o SubSeq(list, (i - 1) + 1, Len(list)) = SubSeq(list, 1, Len(list))
      BY <2>1, ConcatAdjacentSubSeq
  <2>3. SubSeq(list, 1, Len(list)) = list
      BY SubSeqFull
  <2> QED
      BY <1>3, <1>6, <2>1, <2>2, <2>3, Zenon
<1>8. SubSeq(list, 1, i) = a \o <<x>>
  <2>1. 1 \in 1..Len(list) /\ i \in 1..Len(list)
      BY <1>1
  <2>2. SubSeq(list, 1, i) = SubSeq(list, 1, i - 1) \o <<list[i]>>
      BY <2>1, SubSeqRecursiveSecond
  <2> QED
      BY <1>2, <1>3, <2>2
<1>9. <<x>> \o b \in Seq(Seq(C)) /\ FlattenSeq(<<x>> \o b) = x \o FlattenSeq(b) /\ FlattenSeq(b) \in Seq(C)
    BY <1>5, FlattenConcat, ConcatProperties
<1>10. FlattenSeq(a \o (<<x>> \o b)) = FlattenSeq(a) \o FlattenSeq(<<x>> \o b) /\ FlattenSeq(a) \in Seq(C)
    BY <1>9, FlattenConcat
<1>11. FlattenSeq(a \o <<x>>) = FlattenSeq(a) \o x
    BY <1>5, FlattenConcat
<1>12. Len(FlattenSeq(a) \o x) = Len(FlattenSeq(a)) + Len(x)
    BY <1>10, ConcatProperties
<1>13. Ahead(list, i) = FlattenSeq(a) /\ Behind(list, i) = FlattenSeq(b)
    BY <1>3, <1>4 DEF Ahead, Behind
<1>14. Length(list, i - 1) = Len(FlattenSeq(a)) /\ Length(list, i) = Len(FlattenSeq(a)) + Len(x)
    BY <1>3, <1>8, <1>11, <1>12 DEF Length
<1>15. FlattenSeq(list) = FlattenSeq(a) \o (x \o FlattenSeq(b))
    BY <1>7, <1>9, <1>10
<1>16. SubSeq(list, i, Len(list)) \in Seq(Seq(C)) /\ FlattenSeq(SubSeq(list, i, Len(list))) = x \o FlattenSeq(b)
    BY <1>6, <1>9
<1> QED
    BY <1>2, <1>3, <1>4, <1>9, <1>10, <1>13, <1>14, <1>15, <1>16

\* The loops stop at the slice in which a position lies, if there is one.
LEMMA LocateIs ==
    ASSUME NEW C, NEW list \in Seq(Seq(C)), NEW pos \in Nat
    PROVE  /\ Locate(list, pos) \in 1..(Len(list) + 1)
           /\ Locate(list, pos) \in 1..Len(list) =>
                 /\ Length(list, Locate(list, pos) - 1) <= pos
                 /\ pos < Length(list, Locate(list, pos))
           /\ Locate(list, pos) \notin 1..Len(list) => Len(FlattenSeq(list)) <= pos
<1> DEFINE Stops(i) == /\ i <= Len(list) => pos < Length(list, i)
                       /\ \A j \in 1..i - 1 : pos >= Length(list, j)
           S == {i \in 1..Len(list) : pos < Length(list, i)}
<1>1. Len(list) \in Nat
    BY LenProperties
<1>2. \A i \in 1..Len(list) : Length(list, i) \in Nat
  <2>1. ASSUME NEW i \in 1..Len(list) PROVE Length(list, i) \in Nat
    <3>1. /\ Ahead(list, i) \in Seq(C) /\ list[i] \in Seq(C)
          /\ Length(list, i) = Len(Ahead(list, i)) + Len(list[i])
        BY SplitAt
    <3>2. Len(Ahead(list, i)) \in Nat /\ Len(list[i]) \in Nat
        BY <3>1, LenProperties
    <3> QED
        BY <3>1, <3>2
  <2> QED
      BY <2>1
<1>3. \E i \in 1..(Len(list) + 1) : Stops(i)
  <2>1. CASE S = {}
    <3>1. Len(list) + 1 \in 1..(Len(list) + 1) /\ ~(Len(list) + 1 <= Len(list))
          /\ (Len(list) + 1) - 1 = Len(list)
        BY <1>1
    <3>2. ASSUME NEW j \in 1..Len(list) PROVE pos >= Length(list, j)
      <4>1. ~(pos < Length(list, j)) /\ Length(list, j) \in Nat
          BY <1>2, <2>1
      <4> QED
          BY <4>1
    <3> QED
        BY <3>1, <3>2
  <2>2. CASE S # {}
    <3>1. PICK i \in S : \A j \in S : i <= j
      <4>1. S \subseteq Nat
          OBVIOUS
      <4> HIDE DEF S
      <4> QED
          BY <2>2, <4>1, Least
    <3>2. ASSUME NEW j \in 1..i - 1 PROVE pos >= Length(list, j)
      <4>1. j \in 1..Len(list) /\ ~(i <= j)
          BY <1>1, <3>1
      <4>2. j \notin S
          BY <3>1, <4>1
      <4> QED
          BY <1>2, <4>1, <4>2
    <3>3. i \in 1..(Len(list) + 1)
        BY <1>1
    <3> QED
        BY <3>2, <3>3
  <2> QED
      BY <2>1, <2>2
<1>4. PICK i : i = Locate(list, pos)
    OBVIOUS
<1>5. i \in 1..(Len(list) + 1) /\ Stops(i)
  <2>1. i = CHOOSE k \in 1..Len(list) + 1 : Stops(k)
      BY <1>4 DEF Locate
  <2> HIDE DEF Stops
  <2> QED
      BY <1>3, <2>1
<1>6. ASSUME i \in 1..Len(list)
      PROVE  Length(list, i - 1) <= pos /\ pos < Length(list, i)
  <2>1. pos < Length(list, i)
      BY <1>1, <1>5, <1>6
  <2>2. CASE i = 1
    <3>1. SubSeq(list, 1, 0) = <<>>
        BY SubSeqEmpty
    <3>2. Length(list, 0) = Len(<<>>)
        BY <3>1, FlattenEmpty DEF Length
    <3>3. Len(<<>>) = 0
        BY EmptySeq
    <3>4. i - 1 = 0
        BY <2>2
    <3> QED
        BY <2>1, <3>2, <3>3, <3>4
  <2>3. CASE i # 1
    <3>1. i - 1 \in 1..i - 1 /\ i - 1 \in 1..Len(list)
        BY <1>1, <1>6, <2>3
    <3>2. pos >= Length(list, i - 1) /\ Length(list, i - 1) \in Nat
        BY <1>2, <1>5, <3>1
    <3> QED
        BY <2>1, <3>2
  <2> QED
      BY <2>2, <2>3
<1>7. ASSUME i \notin 1..Len(list) PROVE Len(FlattenSeq(list)) <= pos
  <2>1. i = Len(list) + 1 /\ i - 1 = Len(list)
      BY <1>1, <1>5, <1>7
  <2>2. CASE Len(list) = 0
    <3>1. list = <<>>
        BY <2>2, EmptySeq
    <3> QED
        BY <3>1, FlattenEmpty, EmptySeq
  <2>3. CASE Len(list) # 0
    <3>1. Len(list) \in 1..Len(list)
        BY <1>1, <2>3
    <3>2. pos >= Length(list, Len(list)) /\ Length(list, Len(list)) \in Nat
        BY <1>2, <1>5, <2>1, <3>1
    <3>3. SubSeq(list, 1, Len(list)) = list
        BY SubSeqFull
    <3> QED
        BY <3>2, <3>3 DEF Length
  <2> QED
      BY <2>2, <2>3
<1> QED
    BY <1>4, <1>5, <1>6, <1>7

----------------------------------------------------------------------------
(* Inserting into a list of slices, and deleting from it. *)

\* A cut of the whole text is a cut of the slice in which it lies.
LEMMA CutAt ==
    ASSUME NEW C, NEW list \in Seq(Seq(C)), NEW i \in 1..Len(list), NEW pos \in Nat,
           NEW cut \in Nat, pos = Length(list, i - 1) + cut, pos <= Length(list, i)
    PROVE  /\ cut \in 0..Len(list[i]) /\ pos \in 0..Len(FlattenSeq(list))
           /\ Upto(FlattenSeq(list), pos) = Cat(Ahead(list, i), Upto(list[i], cut))
           /\ From(FlattenSeq(list), pos) = Cat(From(list[i], cut), Behind(list, i))
<1> PICK text : text = FlattenSeq(list)
    OBVIOUS
<1>1. PICK p \in Seq(C), x \in Seq(C), q \in Seq(C) :
         /\ p = Ahead(list, i) /\ x = list[i] /\ q = Behind(list, i)
         /\ text = FlattenSeq(list) /\ text = p \o (x \o q)
         /\ Length(list, i - 1) = Len(p) /\ Length(list, i) = Len(p) + Len(x)
    BY SplitAt
<1>2. /\ Len(p) \in Nat /\ Len(x) \in Nat /\ Len(q) \in Nat
      /\ x \o q \in Seq(C) /\ Len(x \o q) = Len(x) + Len(q)
      /\ Len(p \o (x \o q)) = Len(p) + (Len(x) + Len(q))
    BY LenProperties, ConcatProperties
<1>3. cut \in 0..Len(x) /\ pos = Len(p) + cut
  <2>1. pos = Len(p) + cut /\ pos <= Len(p) + Len(x)
      BY <1>1, Zenon
  <2> QED
      BY <1>2, <2>1
<1>4. cut \in 0..Len(x \o q)
    BY <1>2, <1>3
<1>5. pos \in 0..Len(text)
  <2>1. Len(text) = Len(p) + (Len(x) + Len(q))
      BY <1>1, <1>2, Zenon
  <2> QED
      BY <1>2, <1>3, <2>1
<1>6. /\ Upto(p \o (x \o q), Len(p) + cut) = p \o Upto(x \o q, cut)
      /\ From(p \o (x \o q), Len(p) + cut) = From(x \o q, cut)
    BY <1>2, <1>4, CutSecond
<1>7. Upto(x \o q, cut) = Upto(x, cut) /\ From(x \o q, cut) = From(x, cut) \o q
    BY <1>3, CutFirst
<1>8. Upto(text, pos) = Cat(p, Upto(x, cut)) /\ From(text, pos) = Cat(From(x, cut), q)
    BY <1>1, <1>3, <1>6, <1>7, Zenon DEF Cat
<1> QED
    BY <1>1, <1>3, <1>5, <1>8

\* The two slices a cut slice becomes.
LEMMA SubSlices ==
    ASSUME NEW C, NEW x \in Seq(C), NEW n \in 0..Len(x)
    PROVE  /\ SubSlice(x, 0, n) = Upto(x, n) /\ SubSlice(x, n, Len(x) - n) = From(x, n)
           /\ Upto(x, n) \in Seq(C) /\ From(x, n) \in Seq(C)
<1>1. Len(x) \in Nat
    BY LenProperties
<1>2. SubSlice(x, 0, n) = Upto(x, n)
  <2>1. (IF 0 + n < Len(x) THEN 0 + n ELSE Len(x)) = n /\ 0 + 1 = 1
      BY <1>1
  <2> QED
      BY <2>1 DEF SubSlice, Upto
<1>3. SubSlice(x, n, Len(x) - n) = From(x, n)
  <2>1. (IF n + (Len(x) - n) < Len(x) THEN n + (Len(x) - n) ELSE Len(x)) = Len(x)
      BY <1>1
  <2> QED
      BY <2>1 DEF SubSlice, From
<1> QED
    BY <1>2, <1>3, CutType

\* One, two and three slices in place of some of a list.
One(x)         == <<x>>
Two(x, y)      == <<x, y>>
Three(x, y, z) == <<x, y, z>>

\* The text of a list in which slices stand in place of others.
LEMMA Joins ==
    ASSUME NEW C
    PROVE  \A a, b \in Seq(Seq(C)) : \A x, y, z \in Seq(C) :
              /\ Cat(Cat(a, One(x)), b) \in Seq(Seq(C))
              /\ FlattenSeq(Cat(Cat(a, One(x)), b)) = Cat(Cat(FlattenSeq(a), x), FlattenSeq(b))
              /\ Cat(Cat(a, Two(x, y)), b) \in Seq(Seq(C))
              /\ FlattenSeq(Cat(Cat(a, Two(x, y)), b))
                    = Cat(Cat(FlattenSeq(a), x), Cat(y, FlattenSeq(b)))
              /\ Cat(Cat(a, Three(x, y, z)), b) \in Seq(Seq(C))
              /\ FlattenSeq(Cat(Cat(a, Three(x, y, z)), b))
                    = Cat(Cat(Cat(FlattenSeq(a), x), y), Cat(z, FlattenSeq(b)))
<1> DEFINE T == Seq(C)
           L == Seq(Seq(C))
<1>1. \A c, d \in L : /\ Cat(c, d) \in L /\ FlattenSeq(c) \in T
                      /\ FlattenSeq(Cat(c, d)) = Cat(FlattenSeq(c), FlattenSeq(d))
    BY FlattenConcat, ConcatProperties DEF Cat
<1>2. ASSUME NEW c \in T, NEW d \in T, NEW e \in T
      PROVE  /\ One(c) \in L /\ Two(c, d) \in L /\ Three(c, d, e) \in L
             /\ FlattenSeq(One(c)) = c /\ FlattenSeq(Two(c, d)) = Cat(c, d)
             /\ FlattenSeq(Three(c, d, e)) = Cat(Cat(c, d), e)
    BY FlattenFew DEF One, Two, Three
<1>3. /\ \A c, d \in T : Cat(c, d) \in T
      /\ \A c, d, e \in T : Cat(Cat(c, d), e) = Cat(c, Cat(d, e))
  <2>1. \A c, d \in T : Cat(c, d) \in T
      BY ConcatProperties DEF Cat
  <2>2. \A c, d, e \in T : Cat(Cat(c, d), e) = Cat(c, Cat(d, e))
      BY ConcatAssociative DEF Cat
  <2> QED
      BY <2>1, <2>2
<1> HIDE DEF T, L
<1> SUFFICES ASSUME NEW a \in L, NEW b \in L, NEW x \in T, NEW y \in T, NEW z \in T
             PROVE  /\ Cat(Cat(a, One(x)), b) \in L
                    /\ FlattenSeq(Cat(Cat(a, One(x)), b)) = Cat(Cat(FlattenSeq(a), x), FlattenSeq(b))
                    /\ Cat(Cat(a, Two(x, y)), b) \in L
                    /\ FlattenSeq(Cat(Cat(a, Two(x, y)), b))
                          = Cat(Cat(FlattenSeq(a), x), Cat(y, FlattenSeq(b)))
                    /\ Cat(Cat(a, Three(x, y, z)), b) \in L
                    /\ FlattenSeq(Cat(Cat(a, Three(x, y, z)), b))
                          = Cat(Cat(Cat(FlattenSeq(a), x), y), Cat(z, FlattenSeq(b)))
    BY Zenon DEF T, L
<1>4. PICK one, two, three : one = One(x) /\ two = Two(x, y) /\ three = Three(x, y, z)
    OBVIOUS
<1>5. /\ one \in L /\ FlattenSeq(one) = x /\ two \in L /\ FlattenSeq(two) = Cat(x, y)
      /\ three \in L /\ FlattenSeq(three) = Cat(Cat(x, y), z)
    BY <1>2, <1>4, Zenon
<1>6. PICK p \in T, q \in T : p = FlattenSeq(a) /\ q = FlattenSeq(b)
    BY <1>1
<1>7. ASSUME NEW m \in L
      PROVE  Cat(Cat(a, m), b) \in L /\ FlattenSeq(Cat(Cat(a, m), b)) = Cat(Cat(p, FlattenSeq(m)), q)
    BY <1>1, <1>6
<1>8. ASSUME NEW c \in T PROVE Cat(Cat(p, Cat(c, z)), q) = Cat(Cat(p, c), Cat(z, q))
    BY <1>3
<1>9. Cat(Cat(p, Cat(x, y)), q) = Cat(Cat(p, x), Cat(y, q))
  <2>1. Cat(Cat(p, x), y) = Cat(p, Cat(x, y)) /\ Cat(p, x) \in T
      BY <1>3
  <2>2. Cat(Cat(Cat(p, x), y), q) = Cat(Cat(p, x), Cat(y, q))
      BY <1>3, <2>1
  <2> QED
      BY <2>1, <2>2
<1>10. Cat(Cat(p, Cat(Cat(x, y), z)), q) = Cat(Cat(Cat(p, x), y), Cat(z, q))
  <2>1. Cat(Cat(p, x), y) = Cat(p, Cat(x, y)) /\ Cat(x, y) \in T
      BY <1>3
  <2> QED
      BY <1>8, <2>1
<1> QED
    BY <1>4, <1>5, <1>6, <1>7, <1>9, <1>10

\* An insertion before the till.
LEMMA InsertSliceText ==
    ASSUME NEW C
    PROVE  \A list \in Seq(Seq(C)) : \A pos \in Nat : \A t \in Seq(C) :
              pos < Len(FlattenSeq(list)) =>
                 /\ InsertSlice(list, pos, t) \in Seq(Seq(C))
                 /\ FlattenSeq(InsertSlice(list, pos, t))
                      = Cat(Cat(Upto(FlattenSeq(list), pos), t), From(FlattenSeq(list), pos))
<1> DEFINE T == Seq(C)
           L == Seq(Seq(C))
<1>1. \A a, b \in L : \A x, y, z \in T :
         /\ Cat(Cat(a, One(x)), b) \in L
         /\ FlattenSeq(Cat(Cat(a, One(x)), b)) = Cat(Cat(FlattenSeq(a), x), FlattenSeq(b))
         /\ Cat(Cat(a, Three(x, y, z)), b) \in L
         /\ FlattenSeq(Cat(Cat(a, Three(x, y, z)), b))
               = Cat(Cat(Cat(FlattenSeq(a), x), y), Cat(z, FlattenSeq(b)))
    BY Joins
<1> SUFFICES ASSUME NEW list \in L, NEW pos \in Nat, NEW t \in T, pos < Len(FlattenSeq(list))
             PROVE  /\ InsertSlice(list, pos, t) \in L
                    /\ FlattenSeq(InsertSlice(list, pos, t))
                         = Cat(Cat(Upto(FlattenSeq(list), pos), t), From(FlattenSeq(list), pos))
    BY Zenon
<1> DEFINE text == FlattenSeq(list)
<1>2. PICK i : i = Locate(list, pos)
    OBVIOUS
<1>3. i \in 1..Len(list) /\ Length(list, i - 1) <= pos /\ pos < Length(list, i)
  <2>1. text \in Seq(C)
      BY FlattenConcat
  <2>2. ~(Len(text) <= pos)
      BY <2>1, LenProperties
  <2>3. i \in 1..Len(list)
      BY <1>2, <2>2, LocateIs
  <2> QED
      BY <1>2, <2>3, LocateIs
<1>4. /\ SubSeq(list, 1, i - 1) \in L /\ SubSeq(list, i + 1, Len(list)) \in L
      /\ list[i] \in T /\ SubSeq(list, i, Len(list)) \in L
      /\ FlattenSeq(SubSeq(list, i, Len(list))) = Cat(list[i], Behind(list, i))
      /\ Length(list, i - 1) = Len(Ahead(list, i))
      /\ Length(list, i) = Len(Ahead(list, i)) + Len(list[i])
      /\ Len(Ahead(list, i)) \in Nat /\ Len(list[i]) \in Nat
    BY <1>3, SplitAt, LenProperties DEF Cat
<1>5. PICK cut \in Nat : cut = pos - Length(list, i - 1)
    BY <1>3, <1>4
<1>6. pos = Length(list, i - 1) + cut /\ pos <= Length(list, i)
    BY <1>3, <1>4, <1>5
<1>7. /\ cut \in 0..Len(list[i])
      /\ Upto(text, pos) = Cat(Ahead(list, i), Upto(list[i], cut))
      /\ From(text, pos) = Cat(From(list[i], cut), Behind(list, i))
    BY <1>3, <1>6, CutAt
<1>8. /\ SubSlice(list[i], 0, cut) = Upto(list[i], cut) /\ Upto(list[i], cut) \in T
      /\ SubSlice(list[i], cut, Len(list[i]) - cut) = From(list[i], cut) /\ From(list[i], cut) \in T
    BY <1>4, <1>7, SubSlices
<1>9. cut = 0 => /\ Cat(Ahead(list, i), Upto(list[i], cut)) = Ahead(list, i)
                 /\ From(list[i], cut) = list[i]
  <2>1. SubSeq(list[i], 1, 0) = <<>> /\ SubSeq(list[i], 1, Len(list[i])) = list[i] /\ 0 + 1 = 1
      BY <1>4, SubSeqEmpty, SubSeqFull
  <2>2. Ahead(list, i) \o <<>> = Ahead(list, i)
      BY <1>3, SplitAt, ConcatEmptySeq
  <2> QED
      BY <2>1, <2>2 DEF Upto, From, Cat
<1>10. t \in T
    OBVIOUS
<1> HIDE DEF T, L, text
<1>11. CASE cut = 0
  <2>1. InsertSlice(list, pos, t)
          = Cat(Cat(SubSeq(list, 1, i - 1), One(t)), SubSeq(list, i, Len(list)))
      BY <1>2, <1>5, <1>11, Zenon DEF InsertSlice, InsertAt, Cat, One
  <2>2. PICK a \in L, b \in L : a = SubSeq(list, 1, i - 1) /\ b = SubSeq(list, i, Len(list))
      BY <1>4
  <2>3. FlattenSeq(a) = Ahead(list, i) /\ FlattenSeq(b) = Cat(list[i], Behind(list, i))
      BY <1>4, <2>2 DEF Ahead
  <2>4. /\ Cat(Cat(a, One(t)), b) \in L
        /\ FlattenSeq(Cat(Cat(a, One(t)), b)) = Cat(Cat(FlattenSeq(a), t), FlattenSeq(b))
      BY <1>1, <1>10, Zenon
  <2> QED
      BY <1>7, <1>9, <1>11, <2>1, <2>2, <2>3, <2>4, Zenon DEF text
<1>12. CASE cut # 0
  <2>1. InsertSlice(list, pos, t)
          = Cat(Cat(SubSeq(list, 1, i - 1), Three(Upto(list[i], cut), t, From(list[i], cut))),
                SubSeq(list, i + 1, Len(list)))
      BY <1>2, <1>5, <1>8, <1>12, Zenon DEF InsertSlice, Splice, Cat, Three
  <2>2. PICK a \in L, b \in L, x \in T, z \in T :
           /\ a = SubSeq(list, 1, i - 1) /\ b = SubSeq(list, i + 1, Len(list))
           /\ x = Upto(list[i], cut) /\ z = From(list[i], cut)
      BY <1>4, <1>8
  <2>3. FlattenSeq(a) = Ahead(list, i) /\ FlattenSeq(b) = Behind(list, i)
      BY <2>2 DEF Ahead, Behind
  <2>4. /\ Cat(Cat(a, Three(x, t, z)), b) \in L
        /\ FlattenSeq(Cat(Cat(a, Three(x, t, z)), b))
              = Cat(Cat(Cat(FlattenSeq(a), x), t), Cat(z, FlattenSeq(b)))
      BY <1>1, <1>10
  <2> QED
      BY <1>7, <2>1, <2>2, <2>3, <2>4, Zenon DEF text
<1> QED
    BY <1>11, <1>12

\* A deletion, when the loops stop within the list.
SpanDeleted(C, list, first, size) ==
    /\ Locate(list, first) \in 1..Len(list)
    /\ \/ first + size <= Length(list, Locate(list, first))
       \/ Locate(list, first + size) \in 1..Len(list)
    => /\ DeleteSpan(list, first, size) \in Seq(Seq(C))
       /\ first + size <= Len(FlattenSeq(list))
       /\ FlattenSeq(DeleteSpan(list, first, size))
            = Cat(Upto(FlattenSeq(list), first), From(FlattenSeq(list), first + size))

\* That is what DeleteSpan does to the text of a list of slices.
LEMMA DeleteSpanText ==
    ASSUME NEW C
    PROVE  \A list \in Seq(Seq(C)) : \A first, size \in Nat :
              SpanDeleted(C, list, first, size)
<1> DEFINE T == Seq(C)
           L == Seq(Seq(C))
<1>1. \A a, b \in L : \A x, y, z \in T :
         /\ Cat(Cat(a, Two(x, y)), b) \in L
         /\ FlattenSeq(Cat(Cat(a, Two(x, y)), b)) = Cat(Cat(FlattenSeq(a), x), Cat(y, FlattenSeq(b)))
    BY Joins
<1> SUFFICES ASSUME NEW list \in L, NEW first \in Nat, NEW size \in Nat,
                    Locate(list, first) \in 1..Len(list),
                    \/ first + size <= Length(list, Locate(list, first))
                    \/ Locate(list, first + size) \in 1..Len(list)
             PROVE  /\ DeleteSpan(list, first, size) \in L
                    /\ first + size <= Len(FlattenSeq(list))
                    /\ FlattenSeq(DeleteSpan(list, first, size))
                         = Cat(Upto(FlattenSeq(list), first), From(FlattenSeq(list), first + size))
    BY Zenon DEF SpanDeleted
<1> DEFINE i   == Locate(list, first)
           j   == Locate(list, first + size)
           cut == first - Length(list, i - 1)
           rest == first + size - Length(list, j - 1)
<1>2. DeleteSpan(list, first, size)
        = IF cut + size <= Len(list[i])
          THEN Splice(list, i, i, <<SubSlice(list[i], 0, cut),
                   SubSlice(list[i], cut + size, Len(list[i]) - cut - size)>>)
          ELSE Splice(list, i, j, <<SubSlice(list[i], 0, cut),
                                    SubSlice(list[j], rest, Len(list[j]) - rest)>>)
    BY Zenon DEF DeleteSpan
<1>3. i = Locate(list, first) /\ j = Locate(list, first + size)
    OBVIOUS
<1>4. cut = first - Length(list, i - 1)
    OBVIOUS
<1>5. rest = first + size - Length(list, j - 1)
    OBVIOUS
<1> HIDE DEF i, j, cut, rest
<1> DEFINE text == FlattenSeq(list)
<1>6. PICK last : i = Locate(list, first) /\ j = Locate(list, last) /\ last = first + size
    BY <1>3
<1>7. last \in Nat /\ first + size = last /\ last - size = first
    BY <1>6
<1>8. i \in 1..Len(list) /\ Length(list, i - 1) <= first /\ first < Length(list, i)
    BY <1>6, LocateIs
<1>9. \A k \in 1..Len(list) :
         /\ SubSeq(list, 1, k - 1) \in L /\ SubSeq(list, k + 1, Len(list)) \in L /\ list[k] \in T
         /\ Length(list, k - 1) = Len(Ahead(list, k))
         /\ Length(list, k) = Len(Ahead(list, k)) + Len(list[k])
         /\ Len(Ahead(list, k)) \in Nat /\ Len(list[k]) \in Nat
    BY SplitAt, LenProperties
<1>10. \A k \in 1..Len(list) :
         /\ Length(list, k - 1) \in Nat /\ Length(list, k) \in Nat /\ Len(list[k]) \in Nat
         /\ Length(list, k) = Length(list, k - 1) + Len(list[k])
  <2>1. ASSUME NEW k \in 1..Len(list), NEW a \in Nat, NEW b \in Nat,
               Length(list, k - 1) = a, Length(list, k) = a + b
        PROVE  Length(list, k - 1) \in Nat /\ Length(list, k) \in Nat
      BY <2>1
  <2> QED
      BY <1>9, <2>1, Zenon
<1>11. /\ Length(list, i - 1) \in Nat /\ Length(list, i) \in Nat /\ Len(list[i]) \in Nat
      /\ Length(list, i) = Length(list, i - 1) + Len(list[i])
    BY <1>8, <1>10
<1>12. cut \in Nat
    BY <1>8, <1>11, <1>4
<1>13. first = Length(list, i - 1) + cut /\ first <= Length(list, i)
    BY <1>8, <1>11, <1>4
<1>14. cut \in 0..Len(list[i]) /\ Upto(text, first) = Cat(Ahead(list, i), Upto(list[i], cut))
    BY <1>8, <1>12, <1>13, CutAt
<1>15. SubSlice(list[i], 0, cut) = Upto(list[i], cut) /\ Upto(list[i], cut) \in T
    BY <1>8, <1>9, <1>14, SubSlices
<1>16. (cut + size <= Len(list[i])) <=> (last <= Length(list, i))
  <2>1. last = first + size /\ first = Length(list, i - 1) + cut
      BY <1>6, <1>13
  <2> QED
    <3>1. PICK m \in Nat, n \in Nat, l \in Nat, b \in Nat :
             /\ m = Length(list, i - 1) /\ n = Len(list[i]) /\ l = Length(list, i) /\ b = cut
        BY <1>11, <1>12
    <3>2. l = m + n /\ last = first + size /\ first = m + b
        BY <1>11, <2>1, <3>1, Zenon
    <3>3. (b + size <= n) <=> (last <= l)
        BY <3>2
    <3> QED
        BY <3>1, <3>3, Zenon
\* What is left of the text from a slice on.
<1>17. ASSUME NEW k \in 1..Len(list), NEW till \in Nat, last = Length(list, k - 1) + till,
              last <= Length(list, k), NEW new, 
              new = Cat(Cat(SubSeq(list, 1, i - 1),
                            Two(Upto(list[i], cut), SubSlice(list[k], till, Len(list[k]) - till))),
                        SubSeq(list, k + 1, Len(list)))
       PROVE  /\ new \in L /\ last <= Len(text)
              /\ FlattenSeq(new) = Cat(Upto(text, first), From(text, last))
  <2>1. /\ till \in 0..Len(list[k]) /\ last \in 0..Len(text)
        /\ From(text, last) = Cat(From(list[k], till), Behind(list, k))
      BY <1>7, <1>17, CutAt
  <2>2. SubSlice(list[k], till, Len(list[k]) - till) = From(list[k], till) /\ From(list[k], till) \in T
      BY <1>9, <2>1, SubSlices
  <2>3. SubSeq(list, 1, i - 1) \in L /\ SubSeq(list, k + 1, Len(list)) \in L
      BY <1>8, <1>9
  <2>4. last <= Len(text)
    <3>1. text \in Seq(C)
        BY FlattenConcat
    <3>2. Len(text) \in Nat
        BY <3>1, LenProperties
    <3> QED
        BY <2>1, <3>2
  <2> HIDE DEF T, L, text
  <2>5. PICK a \in L, b \in L, x \in T, z \in T :
           /\ a = SubSeq(list, 1, i - 1) /\ b = SubSeq(list, k + 1, Len(list))
           /\ x = Upto(list[i], cut) /\ z = From(list[k], till)
      BY <1>15, <2>2, <2>3
  <2>6. FlattenSeq(a) = Ahead(list, i) /\ FlattenSeq(b) = Behind(list, k)
      BY <2>5 DEF Ahead, Behind
  <2>7. /\ Cat(Cat(a, Two(x, z)), b) \in L
        /\ FlattenSeq(Cat(Cat(a, Two(x, z)), b)) = Cat(Cat(FlattenSeq(a), x), Cat(z, FlattenSeq(b)))
      BY <1>1
  <2>8. new = Cat(Cat(a, Two(x, z)), b)
      BY <1>17, <2>2, <2>5, Zenon
  <2> QED
      BY <1>14, <2>1, <2>4, <2>5, <2>6, <2>7, <2>8, Zenon
<1>18. CASE cut + size <= Len(list[i])
  <2>1. PICK till \in Nat : till = cut + size
      BY <1>12
  <2>2. last = Length(list, i - 1) + till /\ last <= Length(list, i)
        /\ Len(list[i]) - cut - size = Len(list[i]) - till
    <3>1. PICK m \in Nat, n \in Nat, b \in Nat :
             m = Length(list, i - 1) /\ n = Len(list[i]) /\ b = cut
        BY <1>11, <1>12
    <3>2. last = first + size /\ first = m + b /\ till = b + size
        BY <1>6, <1>13, <2>1, <3>1, Zenon
    <3>3. last = m + till /\ n - b - size = n - till
        BY <3>2
    <3> QED
        BY <1>16, <1>18, <3>1, <3>3, Zenon
  <2>3. DeleteSpan(list, first, size)
          = Splice(list, i, i, <<Upto(list[i], cut), SubSlice(list[i], till, Len(list[i]) - till)>>)
      BY <1>15, <1>18, <1>2, <2>1, <2>2, Zenon
  <2>4. DeleteSpan(list, first, size)
          = Cat(Cat(SubSeq(list, 1, i - 1),
                    Two(Upto(list[i], cut), SubSlice(list[i], till, Len(list[i]) - till))),
                SubSeq(list, i + 1, Len(list)))
      BY <2>3, Zenon DEF Splice, Cat, Two
  <2> QED
      BY <1>6, <1>8, <1>17, <2>2, <2>4
<1>19. CASE ~(cut + size <= Len(list[i]))
  <2>1. j \in 1..Len(list)
      BY <1>6, <1>16, <1>19
  <2>2. Length(list, j - 1) <= last /\ last < Length(list, j)
      BY <1>6, <1>7, <2>1, LocateIs
  <2>3. Length(list, j - 1) \in Nat /\ Length(list, j) \in Nat
      BY <1>10, <2>1
  <2>4. rest \in Nat /\ rest = (first + size) - Length(list, j - 1)
      BY <1>6, <1>5, <2>3, <2>2
  <2>5. last = Length(list, j - 1) + rest /\ last <= Length(list, j)
      BY <1>6, <2>3, <2>2, <2>4
  <2>6. DeleteSpan(list, first, size)
          = Splice(list, i, j, <<Upto(list[i], cut), SubSlice(list[j], rest, Len(list[j]) - rest)>>)
      BY <1>15, <1>19, <1>2, Zenon
  <2>7. DeleteSpan(list, first, size)
          = Cat(Cat(SubSeq(list, 1, i - 1),
                    Two(Upto(list[i], cut), SubSlice(list[j], rest, Len(list[j]) - rest))),
                SubSeq(list, j + 1, Len(list)))
      BY <2>6, Zenon DEF Splice, Cat, Two
  <2> QED
      BY <1>6, <1>17, <2>1, <2>4, <2>5, <2>7
<1> QED
    BY <1>18, <1>19

----------------------------------------------------------------------------
(* One step of the fold is one edit. *)

\* What the parts of an operation are.
LEMMA OperationType ==
    ASSUME NEW C, NEW op \in Operation(C), NEW n \in Nat
    PROVE  /\ op.type \in {"Insert", "Delete"} /\ op.text \in Seq(C) /\ op.start \in Nat
           /\ op.size \in Nat /\ GetFilePos(op, n) \in Int
           /\ op.type = "Insert" => op.size = Len(op.text)
<1>1. /\ op.type \in {"Insert", "Delete"} /\ op.text \in Seq(C) /\ op.start \in Nat
      /\ op.size \in Nat /\ op.offset \in Int
      /\ op.type = "Insert" => op.size = Len(op.text)
    BY DEF Operation
<1>2. GetFilePos(op, n) \in Int
    BY <1>1 DEF GetFilePos
<1> QED
    BY <1>1, <1>2

\* The list after an Insert, and after a Delete.
Inserted(list, op) ==
    IF GetFilePos(op, Len(FlattenSeq(list))) = Len(FlattenSeq(list)) THEN Append(list, op.text)
    ELSE InsertSlice(list, GetFilePos(op, Len(FlattenSeq(list))), op.text)
Deleted(list, op) == DeleteSpan(list, GetFilePos(op, Len(FlattenSeq(list))) + op.start, op.size)

\* An Insert, at the end or into the list, edits the text the list stands for.
LEMMA InsertStep ==
    ASSUME NEW C, NEW list \in Seq(Seq(C)), NEW op \in Operation(C), op.type = "Insert",
           GetFilePos(op, Len(FlattenSeq(list))) >= 0,
           Indexed(list, Len(FlattenSeq(list)), op) \subseteq DOMAIN list
    PROVE  /\ Inserted(list, op) \in Seq(Seq(C))
           /\ FlattenSeq(Inserted(list, op)) = Edit(FlattenSeq(list), op)
           /\ Len(FlattenSeq(Inserted(list, op))) = Len(FlattenSeq(list)) + op.size
<1>1. PICK pos, new : /\ pos = GetFilePos(op, Len(FlattenSeq(list))) /\ new = Inserted(list, op)
    OBVIOUS
<1>2. pos # Len(FlattenSeq(list)) => Locate(list, pos) \in 1..Len(list)
  <2>1. DOMAIN list = 1..Len(list)
      BY LenProperties
  <2> QED
      BY <1>1, <2>1 DEF Indexed
<1>3. new = IF pos = Len(FlattenSeq(list)) THEN Append(list, op.text)
            ELSE InsertSlice(list, pos, op.text)
    BY <1>1, Zenon DEF Inserted
<1>4. PICK text \in Seq(C) : text = FlattenSeq(list)
    BY FlattenConcat
<1>5. Len(text) \in Nat
    BY LenProperties
<1>6. PICK t \in Seq(C) : t = op.text /\ op.size = Len(t)
    BY OperationType, <1>5
<1>7. pos \in Nat
    BY OperationType, <1>4, <1>5, <1>1
<1>8. pos <= Len(text)
  <2>1. CASE pos # Len(text)
    <3>1. Locate(list, pos) \in 1..Len(list)
        BY <1>4, <1>2, <2>1
    <3>2. PICK i \in 1..Len(list) : i = Locate(list, pos)
        BY <3>1
    <3>3. pos < Length(list, i)
        BY <1>7, <3>2, LocateIs
    <3>4. /\ Ahead(list, i) \in Seq(C) /\ list[i] \in Seq(C) /\ Behind(list, i) \in Seq(C)
          /\ text = Ahead(list, i) \o (list[i] \o Behind(list, i))
          /\ Length(list, i) = Len(Ahead(list, i)) + Len(list[i])
        BY <1>4, SplitAt
    <3>5. PICK p \in Seq(C), x \in Seq(C), q \in Seq(C) :
             p = Ahead(list, i) /\ x = list[i] /\ q = Behind(list, i)
        BY <3>4
    <3>6. Len(p) \in Nat /\ Len(x) \in Nat /\ Len(q) \in Nat
          /\ Len(p \o (x \o q)) = Len(p) + (Len(x) + Len(q))
        BY LenProperties, ConcatProperties
    <3>7. Len(text) = Len(p) + (Len(x) + Len(q)) /\ pos < Len(p) + Len(x)
        BY <3>3, <3>4, <3>5, <3>6, Zenon
    <3> QED
        BY <1>5, <1>7, <3>6, <3>7
  <2> QED
      BY <1>5, <2>1
<1>9. Edit(text, op) = Cat(Cat(Upto(text, pos), t), From(text, pos))
    BY <1>4, <1>6, <1>1, Zenon DEF Edit, Cat, Upto, From
<1>10. new \in Seq(Seq(C)) /\ FlattenSeq(new) = Cat(Cat(Upto(text, pos), t), From(text, pos))
  <2>1. CASE pos = Len(text)
    <3>1. new = Append(list, t)
        BY <1>4, <1>6, <1>3, <2>1
    <3>2. Append(list, t) \in Seq(Seq(C)) /\ FlattenSeq(Append(list, t)) = text \o t
        BY <1>4, AppendProperties, FlattenAppend
    <3>3. Upto(text, pos) = text /\ From(text, pos) = <<>>
      <4>1. SubSeq(text, 1, Len(text)) = text
          BY SubSeqFull
      <4>2. SubSeq(text, Len(text) + 1, Len(text)) = <<>>
          BY <1>5, SubSeqEmpty
      <4> QED
          BY <2>1, <4>1, <4>2 DEF Upto, From
    <3>4. (text \o t) \o <<>> = text \o t
        BY ConcatProperties, ConcatEmptySeq
    <3> QED
        BY <3>1, <3>2, <3>3, <3>4, Zenon DEF Cat
  <2>2. CASE pos # Len(text)
    <3>1. new = InsertSlice(list, pos, t) /\ pos < Len(FlattenSeq(list))
        BY <1>4, <1>5, <1>6, <1>7, <1>8, <1>3, <2>2
    <3>2. \A l \in Seq(Seq(C)) : \A n \in Nat : \A s \in Seq(C) :
             n < Len(FlattenSeq(l)) =>
                 /\ InsertSlice(l, n, s) \in Seq(Seq(C))
                 /\ FlattenSeq(InsertSlice(l, n, s))
                      = Cat(Cat(Upto(FlattenSeq(l), n), s), From(FlattenSeq(l), n))
        BY InsertSliceText
    <3>3. /\ InsertSlice(list, pos, t) \in Seq(Seq(C))
          /\ FlattenSeq(InsertSlice(list, pos, t))
                = Cat(Cat(Upto(FlattenSeq(list), pos), t), From(FlattenSeq(list), pos))
        BY <1>7, <3>1, <3>2
    <3> QED
        BY <1>4, <3>1, <3>3, Zenon
  <2> QED
      BY <2>1, <2>2
<1>11. Len(Cat(Cat(Upto(text, pos), t), From(text, pos))) = Len(text) + Len(t)
  <2>1. PICK x \in Seq(C), y \in Seq(C) :
           /\ x = Upto(text, pos) /\ y = From(text, pos)
           /\ Len(x) = pos /\ Len(y) = Len(text) - pos
    <3>1. pos \in 0..Len(text)
        BY <1>5, <1>7, <1>8
    <3>2. /\ Upto(text, pos) \in Seq(C) /\ From(text, pos) \in Seq(C)
          /\ Len(Upto(text, pos)) = pos /\ Len(From(text, pos)) = Len(text) - pos
        BY <3>1, CutType
    <3> QED
        BY <3>2
  <2>2. Len((x \o t) \o y) = (Len(x) + Len(t)) + Len(y) /\ Len(t) \in Nat
      BY ConcatProperties, LenProperties
  <2>3. (pos + Len(t)) + (Len(text) - pos) = Len(text) + Len(t)
      BY <1>5, <1>7, <2>2
  <2> QED
      BY <2>1, <2>2, <2>3, Zenon DEF Cat
<1> QED
    BY <1>4, <1>6, <1>9, <1>10, <1>11, <1>1, Zenon

\* So does a Delete.
LEMMA DeleteStep ==
    ASSUME NEW C, NEW list \in Seq(Seq(C)), NEW op \in Operation(C), op.type = "Delete",
           GetFilePos(op, Len(FlattenSeq(list))) >= 0,
           Indexed(list, Len(FlattenSeq(list)), op) \subseteq DOMAIN list
    PROVE  /\ Deleted(list, op) \in Seq(Seq(C))
           /\ FlattenSeq(Deleted(list, op)) = Edit(FlattenSeq(list), op)
           /\ Len(FlattenSeq(Deleted(list, op))) = Len(FlattenSeq(list)) - op.size
<1>1. PICK first, new : /\ first = GetFilePos(op, Len(FlattenSeq(list))) + op.start
                        /\ new = Deleted(list, op)
    OBVIOUS
<1>2. /\ Locate(list, first) \in 1..Len(list)
      /\ \/ first + op.size <= Length(list, Locate(list, first))
         \/ Locate(list, first + op.size) \in 1..Len(list)
  <2>1. DOMAIN list = 1..Len(list)
      BY LenProperties
  <2> QED
      BY <1>1, <2>1 DEF Indexed
<1>3. new = DeleteSpan(list, first, op.size)
    BY <1>1, Zenon DEF Deleted
<1>4. PICK text \in Seq(C) : text = FlattenSeq(list)
    BY FlattenConcat
<1>5. Len(text) \in Nat
    BY LenProperties
<1>6. PICK pos \in Nat, start \in Nat, size \in Nat :
         pos = GetFilePos(op, Len(text)) /\ start = op.start /\ size = op.size
  <2>1. GetFilePos(op, Len(text)) \in Int /\ op.start \in Nat /\ op.size \in Nat
      BY OperationType, <1>5
  <2>2. GetFilePos(op, Len(text)) >= 0
      BY <1>4, Zenon
  <2>3. GetFilePos(op, Len(text)) \in Nat
      BY <2>1, <2>2
  <2> QED
      BY <2>1, <2>3
<1>7. first \in Nat /\ first = pos + start
    BY <1>4, <1>6, <1>1
<1>8. /\ new \in Seq(Seq(C)) /\ first + size <= Len(text)
      /\ FlattenSeq(new) = Cat(Upto(text, first), From(text, first + size))
  <2>1. SpanDeleted(C, list, first, size)
      BY <1>6, <1>7, DeleteSpanText
  <2> QED
      BY <1>4, <1>6, <1>2, <1>3, <2>1, Zenon DEF SpanDeleted
<1>9. Edit(text, op) = Cat(Upto(text, first), From(text, first + size))
  <2>1. Edit(text, op) = SubSeq(text, 1, pos + start) \o SubSeq(text, pos + start + size + 1, Len(text))
      BY <1>6 DEF Edit
  <2>2. pos + start + size + 1 = (first + size) + 1 /\ pos + start = first
      BY <1>7
  <2> QED
      BY <2>1, <2>2, Zenon DEF Cat, Upto, From
<1>10. Len(Cat(Upto(text, first), From(text, first + size))) = Len(text) - size
  <2>1. PICK last \in Nat : last = first + size /\ last <= Len(text) /\ first <= Len(text)
      BY <1>5, <1>7, <1>8
  <2>2. first \in 0..Len(text) /\ last \in 0..Len(text)
      BY <1>5, <1>7, <2>1
  <2>3. PICK x \in Seq(C), y \in Seq(C) :
           /\ x = Upto(text, first) /\ y = From(text, last)
           /\ Len(x) = first /\ Len(y) = Len(text) - last
    <3>1. Upto(text, first) \in Seq(C) /\ Len(Upto(text, first)) = first
        BY <2>2, CutType
    <3>2. From(text, last) \in Seq(C) /\ Len(From(text, last)) = Len(text) - last
        BY <2>2, CutType
    <3> QED
        BY <3>1, <3>2
  <2>4. Len(x \o y) = Len(x) + Len(y)
      BY ConcatProperties
  <2>5. first + (Len(text) - last) = Len(text) - size
      BY <1>5, <1>7, <2>1
  <2> QED
      BY <2>1, <2>3, <2>4, <2>5, Zenon DEF Cat
<1> QED
    BY <1>4, <1>6, <1>8, <1>9, <1>10, <1>1, Zenon

----------------------------------------------------------------------------
(* The folds, operation by operation. *)

\* The largest number of 1..m or of a part of it with m.
LEMMA MaxIs ==
    ASSUME NEW m \in Nat, NEW t \in SUBSET (1..m), m \in t
    PROVE  Max(t) = m
<1>1. \A y \in t : m >= y
    OBVIOUS
<1>2. \A x \in t : (\A y \in t : x >= y) => x = m
    OBVIOUS
<1> QED
    BY <1>1, <1>2 DEF Max

\* Combine goes through the operations one after the other.
LEMMA CombineSteps ==
    ASSUME NEW s, NEW n \in Nat, DOMAIN s = 1..n
    PROVE  \E u : /\ Combine(s) = u[n] /\ u[0] = Nothing
                  /\ \A k \in 1..n : u[k] = FoldOperation(u[k - 1], s[k])
<1> DEFINE Folds(g, m) == g = [t \in SUBSET (1..m) |->
                                  IF t = {} THEN Nothing
                                  ELSE FoldOperation(g[t \ {Max(t)}], s[Max(t)])]
           S == {m \in Nat : \E g : Folds(g, m)}
<1>1. 0 \in S
  <2> DEFINE g == [t \in SUBSET (1..0) |-> Nothing]
  <2>1. SUBSET (1..0) = {{}}
      OBVIOUS
  <2>2. Folds(g, 0)
      BY <2>1
  <2> QED
      BY <2>2
<1>2. ASSUME NEW m \in Nat, m \in S PROVE m + 1 \in S
  <2>1. PICK g : Folds(g, m)
      BY <1>2
  <2> DEFINE h == [t \in SUBSET (1..(m + 1)) |->
                      IF t = {} THEN Nothing
                      ELSE IF m + 1 \in t THEN FoldOperation(g[t \ {m + 1}], s[m + 1]) ELSE g[t]]
  <2>2. ASSUME NEW t \in SUBSET (1..(m + 1))
        PROVE  h[t] = IF t = {} THEN Nothing ELSE FoldOperation(h[t \ {Max(t)}], s[Max(t)])
    <3>1. g[{}] = Nothing
        BY <2>1
    <3>2. ASSUME NEW r \in SUBSET (1..(m + 1)), m + 1 \notin r
          PROVE  r \in SUBSET (1..m) /\ h[r] = g[r]
      <4>1. \A x \in r : x \in 1..(m + 1) /\ x # m + 1
          BY <3>2
      <4>2. r \in SUBSET (1..m)
          BY <4>1
      <4>3. h[r] = IF r = {} THEN Nothing ELSE g[r]
          BY <3>2
      <4> QED
          BY <3>1, <4>2, <4>3
    <3>3. CASE t # {} /\ m + 1 \in t
      <4>1. Max(t) = m + 1
          BY <3>3, MaxIs
      <4>2. t \ {m + 1} \in SUBSET (1..(m + 1)) /\ m + 1 \notin t \ {m + 1}
          OBVIOUS
      <4>3. h[t \ {m + 1}] = g[t \ {m + 1}]
          BY <3>2, <4>2
      <4>4. h[t] = FoldOperation(g[t \ {m + 1}], s[m + 1])
          BY <3>3
      <4> HIDE DEF h
      <4> QED
          BY <3>3, <4>1, <4>3, <4>4
    <3>4. CASE t # {} /\ m + 1 \notin t
      <4>1. PICK x : x = Max(t)
          OBVIOUS
      <4>2. t \in SUBSET (1..m) /\ h[t] = g[t]
          BY <3>2, <3>4
      <4>3. g[t] = FoldOperation(g[t \ {x}], s[x])
          BY <2>1, <3>4, <4>1, <4>2
      <4>4. t \ {x} \in SUBSET (1..(m + 1)) /\ m + 1 \notin t \ {x}
          BY <3>4
      <4>5. h[t \ {x}] = g[t \ {x}]
          BY <3>2, <4>4
      <4> HIDE DEF h
      <4> QED
          BY <3>4, <4>1, <4>2, <4>3, <4>5
    <3>5. CASE t = {}
        BY <3>5
    <3> QED
        BY <3>3, <3>4, <3>5
  <2>3. h = [t \in SUBSET (1..(m + 1)) |-> h[t]]
      OBVIOUS
  <2> HIDE DEF h
  <2>4. Folds(h, m + 1)
      BY <2>2, <2>3
  <2> HIDE DEF Folds
  <2> QED
      BY <2>4
<1> HIDE DEF Folds
<1>3. Nat \subseteq S
  <2> HIDE DEF S
  <2> QED
      BY <1>1, <1>2, NatSetInduction
<1>4. PICK g : g = CHOOSE h : Folds(h, n)
    OBVIOUS
<1>5. Folds(g, n)
    BY <1>3, <1>4
<1>6. Combine(s) = g[1..n]
  <2>1. Combine(s) = (CHOOSE h : h = [t \in SUBSET DOMAIN s |->
                                        IF t = {} THEN Nothing
                                        ELSE FoldOperation(h[t \ {Max(t)}], s[Max(t)])])[DOMAIN s]
      BY DEF Combine, FoldLeft, MapThenFoldSet
  <2> QED
      BY <1>4, <2>1 DEF Folds
<1> DEFINE u == [k \in 0..n |-> g[1..k]]
<1>7. u[0] = Nothing
  <2>1. 1..0 = {} /\ 0 \in 0..n
      OBVIOUS
  <2>2. {} \in SUBSET (1..n)
      OBVIOUS
  <2>3. g[{}] = Nothing
      BY <1>5, <2>2 DEF Folds
  <2> QED
      BY <2>1, <2>3
<1>8. ASSUME NEW k \in 1..n PROVE u[k] = FoldOperation(u[k - 1], s[k])
  <2>1. k \in 0..n /\ k - 1 \in 0..n /\ 1..k \in SUBSET (1..n) /\ 1..k # {} /\ k \in 1..k
      OBVIOUS
  <2>2. (1..k) \ {k} = 1..(k - 1)
      OBVIOUS
  <2>3. Max(1..k) = k
      BY <2>1, MaxIs
  <2>4. g[1..k] = FoldOperation(g[(1..k) \ {Max(1..k)}], s[Max(1..k)])
      BY <1>5, <2>1 DEF Folds
  <2>5. g[1..k] = FoldOperation(g[1..(k - 1)], s[k])
      BY <2>2, <2>3, <2>4
  <2> QED
      BY <2>1, <2>5
<1>9. Combine(s) = u[n]
    BY <1>6
<1> QED
    BY <1>7, <1>8, <1>9

\* EditAll goes through the operations one after the other: u holds the texts.
Edits(u, text, s, n) ==
    u[0] = text /\ \A k \in 1..n : u[k] = Edit(u[k - 1], s[k])

\* EditAll goes from text to text.
LEMMA EditAllSteps ==
    ASSUME NEW text, NEW s, NEW n \in Nat, DOMAIN s = 1..n
    PROVE  \E u : EditAll(text, s) = u[n] /\ Edits(u, text, s, n)
<1> DEFINE Folds(g, m) == g = [t \in SUBSET (1..m) |->
                                  IF t = {} THEN text
                                  ELSE Edit(g[t \ {Max(t)}], s[Max(t)])]
           S == {m \in Nat : \E g : Folds(g, m)}
<1>1. 0 \in S
  <2> DEFINE g == [t \in SUBSET (1..0) |-> text]
  <2>1. SUBSET (1..0) = {{}}
      OBVIOUS
  <2>2. Folds(g, 0)
      BY <2>1
  <2> QED
      BY <2>2
<1>2. ASSUME NEW m \in Nat, m \in S PROVE m + 1 \in S
  <2>1. PICK g : Folds(g, m)
      BY <1>2
  <2> DEFINE h == [t \in SUBSET (1..(m + 1)) |->
                      IF t = {} THEN text
                      ELSE IF m + 1 \in t THEN Edit(g[t \ {m + 1}], s[m + 1]) ELSE g[t]]
  <2>2. ASSUME NEW t \in SUBSET (1..(m + 1))
        PROVE  h[t] = IF t = {} THEN text ELSE Edit(h[t \ {Max(t)}], s[Max(t)])
    <3>1. g[{}] = text
        BY <2>1
    <3>2. ASSUME NEW r \in SUBSET (1..(m + 1)), m + 1 \notin r
          PROVE  r \in SUBSET (1..m) /\ h[r] = g[r]
      <4>1. \A x \in r : x \in 1..(m + 1) /\ x # m + 1
          BY <3>2
      <4>2. r \in SUBSET (1..m)
          BY <4>1
      <4>3. h[r] = IF r = {} THEN text ELSE g[r]
          BY <3>2
      <4> QED
          BY <3>1, <4>2, <4>3
    <3>3. CASE t # {} /\ m + 1 \in t
      <4>1. Max(t) = m + 1
          BY <3>3, MaxIs
      <4>2. t \ {m + 1} \in SUBSET (1..(m + 1)) /\ m + 1 \notin t \ {m + 1}
          OBVIOUS
      <4>3. h[t \ {m + 1}] = g[t \ {m + 1}]
          BY <3>2, <4>2
      <4>4. h[t] = Edit(g[t \ {m + 1}], s[m + 1])
          BY <3>3
      <4> HIDE DEF h
      <4> QED
          BY <3>3, <4>1, <4>3, <4>4
    <3>4. CASE t # {} /\ m + 1 \notin t
      <4>1. PICK x : x = Max(t)
          OBVIOUS
      <4>2. t \in SUBSET (1..m) /\ h[t] = g[t]
          BY <3>2, <3>4
      <4>3. g[t] = Edit(g[t \ {x}], s[x])
          BY <2>1, <3>4, <4>1, <4>2
      <4>4. t \ {x} \in SUBSET (1..(m + 1)) /\ m + 1 \notin t \ {x}
          BY <3>4
      <4>5. h[t \ {x}] = g[t \ {x}]
          BY <3>2, <4>4
      <4> HIDE DEF h
      <4> QED
          BY <3>4, <4>1, <4>2, <4>3, <4>5
    <3>5. CASE t = {}
        BY <3>5
    <3> QED
        BY <3>3, <3>4, <3>5
  <2>3. h = [t \in SUBSET (1..(m + 1)) |-> h[t]]
      OBVIOUS
  <2> HIDE DEF h
  <2>4. Folds(h, m + 1)
      BY <2>2, <2>3
  <2> HIDE DEF Folds
  <2> QED
      BY <2>4
<1> HIDE DEF Folds
<1>3. Nat \subseteq S
  <2> HIDE DEF S
  <2> QED
      BY <1>1, <1>2, NatSetInduction
<1>4. PICK g : g = CHOOSE h : Folds(h, n)
    OBVIOUS
<1>5. Folds(g, n)
    BY <1>3, <1>4
<1>6. EditAll(text, s) = g[1..n]
  <2>1. EditAll(text, s) = (CHOOSE h : h = [t \in SUBSET DOMAIN s |->
                                        IF t = {} THEN text
                                        ELSE Edit(h[t \ {Max(t)}], s[Max(t)])])[DOMAIN s]
      BY DEF EditAll, FoldLeft, MapThenFoldSet
  <2> QED
      BY <1>4, <2>1 DEF Folds
<1> DEFINE u == [k \in 0..n |-> g[1..k]]
<1>7. u[0] = text
  <2>1. 1..0 = {} /\ 0 \in 0..n
      OBVIOUS
  <2>2. {} \in SUBSET (1..n)
      OBVIOUS
  <2>3. g[{}] = text
      BY <1>5, <2>2 DEF Folds
  <2> QED
      BY <2>1, <2>3
<1>8. ASSUME NEW k \in 1..n PROVE u[k] = Edit(u[k - 1], s[k])
  <2>1. k \in 0..n /\ k - 1 \in 0..n /\ 1..k \in SUBSET (1..n) /\ 1..k # {} /\ k \in 1..k
      OBVIOUS
  <2>2. (1..k) \ {k} = 1..(k - 1)
      OBVIOUS
  <2>3. Max(1..k) = k
      BY <2>1, MaxIs
  <2>4. g[1..k] = Edit(g[(1..k) \ {Max(1..k)}], s[Max(1..k)])
      BY <1>5, <2>1 DEF Folds
  <2>5. g[1..k] = Edit(g[1..(k - 1)], s[k])
      BY <2>2, <2>3, <2>4
  <2> QED
      BY <2>1, <2>5
<1>9. EditAll(text, s) = u[n]
    BY <1>6
<1> QED
    BY <1>7, <1>8, <1>9 DEF Edits

\* acc is what the fold has made of operations that make text.
Folded(C, acc, text) ==
    /\ acc = [list |-> acc.list, total |-> acc.total, past |-> acc.past]
    /\ acc.past \in BOOLEAN
    /\ ~acc.past => /\ acc.list \in Seq(Seq(C)) /\ text = FlattenSeq(acc.list)
                    /\ acc.total = Len(FlattenSeq(acc.list))

\* Folded, of an accumulator put together from its parts.
LEMMA FoldedIs ==
    ASSUME NEW C, NEW text, NEW l, NEW n, NEW p \in BOOLEAN,
           ~p => l \in Seq(Seq(C)) /\ text = FlattenSeq(l) /\ n = Len(FlattenSeq(l))
    PROVE  Folded(C, [list |-> l, total |-> n, past |-> p], text)
<1>1. PICK acc : acc = [list |-> l, total |-> n, past |-> p]
    OBVIOUS
<1>2. acc.list = l /\ acc.total = n /\ acc.past = p
    BY <1>1
<1>3. Folded(C, acc, text)
    BY <1>1, <1>2, Zenon DEF Folded
<1> QED
    BY <1>1, <1>3, Zenon

\* One operation folded into the list is one edit of the text.
LEMMA FoldStep ==
    ASSUME NEW C, NEW acc, NEW text, Folded(C, acc, text), NEW op \in Operation(C)
    PROVE  Folded(C, FoldOperation(acc, op), Edit(text, op))
<1>1. PICK list, total, past :
         acc = [list |-> list, total |-> total, past |-> past] /\ past \in BOOLEAN
    BY Zenon DEF Folded
<1>2. acc.list = list /\ acc.total = total /\ acc.past = past
    BY <1>1
<1>3. CASE \/ past \/ GetFilePos(op, total) < 0
           \/ ~(Indexed(list, total, op) \subseteq DOMAIN list)
  <2>1. FoldOperation(acc, op) = [acc EXCEPT !.past = TRUE]
      BY <1>2, <1>3, Zenon DEF FoldOperation
  <2>2. PICK yes : yes = TRUE
      OBVIOUS
  <2>3. [acc EXCEPT !.past = yes] = [list |-> list, total |-> total, past |-> yes]
      BY <1>1
  <2>4. PICK was : was = [list |-> list, total |-> total, past |-> yes]
      OBVIOUS
  <2>5. Folded(C, was, Edit(text, op))
      BY <2>2, <2>4, FoldedIs
  <2> QED
      BY <2>1, <2>2, <2>3, <2>4, <2>5
<1>4. CASE /\ ~past /\ ~(GetFilePos(op, total) < 0)
           /\ Indexed(list, total, op) \subseteq DOMAIN list
  <2>1. list \in Seq(Seq(C)) /\ text = FlattenSeq(list) /\ total = Len(FlattenSeq(list))
      BY <1>2, <1>4 DEF Folded
  <2>2. op.type \in {"Insert", "Delete"}
      BY DEF Operation
  <2>3. Indexed(list, Len(FlattenSeq(list)), op) \subseteq DOMAIN list
      BY <1>4, <2>1, Zenon
  <2>7. GetFilePos(op, Len(FlattenSeq(list))) >= 0
    <3>1. PICK n \in Nat : n = Len(FlattenSeq(list))
        BY <2>1, FlattenConcat, LenProperties
    <3>2. GetFilePos(op, n) \in Int /\ ~(GetFilePos(op, n) < 0)
        BY <1>4, <2>1, <3>1, OperationType
    <3>3. GetFilePos(op, n) >= 0
        BY <3>2
    <3> QED
        BY <3>1, <3>3, Zenon
  <2>4. ASSUME NEW new \in Seq(Seq(C)), NEW n, FlattenSeq(new) = Edit(text, op),
               n = Len(FlattenSeq(new)),
               FoldOperation(acc, op) = [acc EXCEPT !.list = new, !.total = n]
        PROVE  Folded(C, FoldOperation(acc, op), Edit(text, op))
    <3>1. PICK a, b : /\ a = [acc EXCEPT !.list = new, !.total = n]
                      /\ b = [list |-> new, total |-> n, past |-> past]
        OBVIOUS
    <3>2. /\ DOMAIN a = {"list", "total", "past"} /\ DOMAIN b = {"list", "total", "past"}
          /\ a.list = new /\ a.total = n /\ a.past = past
        BY <1>1, <3>1
    <3>3. a = b
        BY <1>1, <3>1, <3>2
    <3>4. Folded(C, b, Edit(text, op))
        BY <1>1, <2>4, <3>1, FoldedIs
    <3> QED
        BY <2>4, <3>1, <3>3, <3>4, Zenon
  <2>5. CASE op.type = "Insert"
    <3>1. FoldOperation(acc, op)
            = [acc EXCEPT !.list = IF GetFilePos(op, acc.total) = acc.total THEN Append(acc.list, op.text)
                                   ELSE InsertSlice(acc.list, GetFilePos(op, acc.total), op.text),
                          !.total = @ + op.size]
        BY <1>2, <1>4, <2>5 DEF FoldOperation
    <3>2. FoldOperation(acc, op)
            = [acc EXCEPT !.list = Inserted(list, op), !.total = Len(FlattenSeq(list)) + op.size]
        BY <1>2, <2>1, <3>1, Zenon DEF Inserted
    <3> QED
        BY <2>1, <2>3, <2>4, <2>5, <2>7, <3>2, InsertStep, Zenon
  <2>6. CASE op.type = "Delete"
    <3>1. FoldOperation(acc, op)
            = [acc EXCEPT !.list = DeleteSpan(acc.list, GetFilePos(op, acc.total) + op.start, op.size),
                          !.total = @ - op.size]
        BY <1>2, <1>4, <2>6 DEF FoldOperation
    <3>2. FoldOperation(acc, op)
            = [acc EXCEPT !.list = Deleted(list, op), !.total = Len(FlattenSeq(list)) - op.size]
        BY <1>2, <2>1, <3>1, Zenon DEF Deleted
    <3> QED
        BY <2>1, <2>3, <2>4, <2>6, <2>7, <3>2, DeleteStep, Zenon
  <2> QED
      BY <2>2, <2>5, <2>6
<1> QED
    BY <1>3, <1>4

\* Does a Delete end where the text ends?
AtEnd(text, op) ==
    op.type = "Delete" /\ GetFilePos(op, Len(text)) + op.start + op.size = Len(text)

\* Within its contract, only such a Delete leads out of the list.
LEMMA FoldStays ==
    ASSUME NEW C, NEW acc, NEW text, Folded(C, acc, text), ~acc.past,
           NEW op \in Operation(C), Admissible(text, op), ~AtEnd(text, op)
    PROVE  ~FoldOperation(acc, op).past
<1>1. PICK list, total, past :
         acc = [list |-> list, total |-> total, past |-> past]
    BY Zenon DEF Folded
<1>2. acc.list = list /\ acc.total = total /\ acc.past = past /\ ~past
    BY <1>1
<1>3. list \in Seq(Seq(C)) /\ text = FlattenSeq(list) /\ total = Len(text)
    BY <1>2 DEF Folded
<1>4. total \in Nat
    BY <1>3, FlattenConcat, LenProperties
<1>5. \A p \in Nat : p < total => Locate(list, p) \in DOMAIN list
  <2>1. DOMAIN list = 1..Len(list)
      BY <1>3, LenProperties
  <2>2. ASSUME NEW p \in Nat, Locate(list, p) \notin 1..Len(list) PROVE total <= p
      BY <1>3, <2>2, LocateIs
  <2> QED
      BY <1>4, <2>1, <2>2
<1>6. PICK pos \in Nat, start \in Nat, size \in Nat :
         pos = GetFilePos(op, total) /\ start = op.start /\ size = op.size
  <2>1. GetFilePos(op, total) \in 0..total
      BY <1>3 DEF Admissible
  <2>2. op.start \in Nat /\ op.size \in Nat
      BY <1>4, OperationType
  <2>3. GetFilePos(op, total) \in Nat
      BY <1>4, <2>1
  <2> QED
      BY <2>2, <2>3
<1>7. op.type \in {"Insert", "Delete"} /\ "Insert" # "Delete"
    BY OperationType, <1>4
<1>8. /\ pos <= total
      /\ op.type = "Delete" => (pos + start) + size <= total /\ (pos + start) + size # total
    BY <1>3, <1>4, <1>6 DEF Admissible, AtEnd
<1>9. Indexed(list, total, op) \subseteq DOMAIN list
  <2>1. CASE op.type = "Insert"
    <3>1. Indexed(list, total, op) = IF pos = total THEN {} ELSE {Locate(list, pos)}
        BY <1>6, <1>7, <2>1 DEF Indexed
    <3>2. pos # total => Locate(list, pos) \in DOMAIN list
        BY <1>4, <1>5, <1>6, <1>8
    <3> QED
        BY <3>1, <3>2
  <2>2. CASE op.type = "Delete"
    <3>1. Indexed(list, total, op)
            \subseteq {Locate(list, pos + start), Locate(list, (pos + start) + size)}
        BY <1>6, <1>7, <2>2 DEF Indexed
    <3>2. /\ pos + start \in Nat /\ pos + start < total
          /\ (pos + start) + size \in Nat /\ (pos + start) + size < total
        BY <1>4, <1>6, <1>8, <2>2
    <3>3. Locate(list, pos + start) \in DOMAIN list /\ Locate(list, (pos + start) + size) \in DOMAIN list
        BY <1>5, <3>2
    <3> QED
        BY <3>1, <3>3
  <2> QED
      BY <1>7, <2>1, <2>2
<1>10. \A l, n : [acc EXCEPT !.list = l, !.total = n].past = past
    BY <1>1
<1>13. ~(GetFilePos(op, total) < 0)
    BY <1>6
<1>11. CASE op.type = "Insert"
  <2>1. \E l, n : FoldOperation(acc, op) = [acc EXCEPT !.list = l, !.total = n]
      BY <1>2, <1>7, <1>9, <1>11, <1>13, Zenon DEF FoldOperation
  <2> QED
      BY <1>2, <1>10, <2>1
<1>12. CASE op.type = "Delete"
  <2>1. \E l, n : FoldOperation(acc, op) = [acc EXCEPT !.list = l, !.total = n]
      BY <1>2, <1>7, <1>9, <1>12, <1>13, Zenon DEF FoldOperation
  <2> QED
      BY <1>2, <1>10, <2>1
<1> QED
    BY <1>7, <1>11, <1>12

\* The texts on the way are determined by the first one.
LEMMA EditsUnique ==
    ASSUME NEW u, NEW v, NEW text, NEW s, NEW n \in Nat, Edits(u, text, s, n), Edits(v, text, s, n)
    PROVE  u[n] = v[n]
<1> DEFINE S == {k \in Nat : k <= n => u[k] = v[k]}
<1>1. /\ u[0] = text /\ v[0] = text
      /\ \A k \in 1..n : u[k] = Edit(u[k - 1], s[k]) /\ v[k] = Edit(v[k - 1], s[k])
    BY Zenon DEF Edits
<1>2. 0 \in S
    BY <1>1
<1>3. ASSUME NEW k \in Nat, k \in S PROVE k + 1 \in S
  <2>1. ASSUME k + 1 <= n PROVE u[k + 1] = v[k + 1]
    <3>1. k + 1 \in 1..n /\ (k + 1) - 1 = k /\ u[k] = v[k]
        BY <1>3, <2>1
    <3>2. u[k + 1] = Edit(u[k], s[k + 1]) /\ v[k + 1] = Edit(v[k], s[k + 1])
        BY <1>1, <3>1
    <3> QED
        BY <3>1, <3>2
  <2> QED
      BY <2>1
<1>4. Nat \subseteq S
  <2> HIDE DEF S
  <2> QED
      BY <1>2, <1>3, NatSetInduction
<1> QED
    BY <1>4

\* No operation and one operation.
LEMMA EditAllFew ==
    ASSUME NEW text, NEW op
    PROVE  EditAll(text, <<>>) = text /\ EditAll(text, <<op>>) = Edit(text, op)
<1>1. EditAll(text, <<>>) = text
  <2>1. PICK s : s = <<>> /\ DOMAIN s = 1..0
      OBVIOUS
  <2>2. PICK u : EditAll(text, s) = u[0] /\ Edits(u, text, s, 0)
      BY <2>1, EditAllSteps
  <2> QED
      BY <2>1, <2>2, Zenon DEF Edits
<1>2. EditAll(text, <<op>>) = Edit(text, op)
  <2> DEFINE s == <<op>>
  <2>1. DOMAIN s = 1..1 /\ s[1] = op
      OBVIOUS
  <2> HIDE DEF s
  <2>2. PICK u : EditAll(text, s) = u[1] /\ Edits(u, text, s, 1)
      BY <2>1, EditAllSteps
  <2>3. 1 \in 1..1 /\ 1 - 1 = 0
      OBVIOUS
  <2>4. u[1] = Edit(u[1 - 1], s[1]) /\ u[0] = text
      BY <2>2, <2>3, Zenon DEF Edits
  <2>5. u[1] = Edit(u[0], s[1])
      BY <2>3, <2>4
  <2>6. EditAll(text, s) = Edit(text, op)
      BY <2>1, <2>2, <2>4, <2>5, Zenon
  <2> QED
      BY <2>6, Zenon DEF s
<1> QED
    BY <1>1, <1>2

\* Some operations and then others.
LEMMA EditAllConcat ==
    ASSUME NEW T, NEW text, NEW a \in Seq(T), NEW b \in Seq(T)
    PROVE  EditAll(text, a \o b) = EditAll(EditAll(text, a), b)
<1>1. PICK m \in Nat, n \in Nat : m = Len(a) /\ n = Len(b)
    BY LenProperties
<1>2. PICK c : c = a \o b
    OBVIOUS
<1>3. /\ DOMAIN a = 1..m /\ DOMAIN b = 1..n /\ DOMAIN c = 1..(m + n)
      /\ \A i \in 1..(m + n) : c[i] = IF i <= m THEN a[i] ELSE b[i - m]
    BY <1>1, <1>2, ConcatProperties, LenProperties
<1>4. PICK u : EditAll(text, c) = u[m + n] /\ Edits(u, text, c, m + n)
    BY <1>3, EditAllSteps
<1>5. PICK v : EditAll(text, a) = v[m] /\ Edits(v, text, a, m)
    BY <1>3, EditAllSteps
<1>6. PICK middle : middle = v[m]
    OBVIOUS
<1>7. PICK w : EditAll(middle, b) = w[n] /\ Edits(w, middle, b, n)
    BY <1>3, EditAllSteps
<1>8. u[0] = text /\ \A k \in 1..(m + n) : u[k] = Edit(u[k - 1], c[k])
    BY <1>4, Zenon DEF Edits
<1>9. u[m] = middle
  <2>1. \A k \in 1..m : u[k] = Edit(u[k - 1], a[k])
    <3>1. ASSUME NEW k \in 1..m PROVE u[k] = Edit(u[k - 1], a[k])
      <4>1. k \in 1..(m + n) /\ k <= m
          OBVIOUS
      <4>2. c[k] = a[k]
          BY <1>3, <4>1
      <4> QED
          BY <1>8, <4>1, <4>2
    <3> QED
        BY <3>1, Zenon
  <2>2. Edits(u, text, a, m)
      BY <1>8, <2>1, Zenon DEF Edits
  <2> QED
      BY <1>5, <1>6, <2>2, EditsUnique
<1>10. u[m + n] = w[n]
  <2> DEFINE r == [i \in 0..n |-> u[m + i]]
  <2>1. r[0] = middle
      BY <1>9
  <2>2. \A k \in 1..n : r[k] = Edit(r[k - 1], b[k])
    <3>1. ASSUME NEW k \in 1..n PROVE r[k] = Edit(r[k - 1], b[k])
      <4>1. /\ m + k \in 1..(m + n) /\ ~(m + k <= m) /\ (m + k) - m = k
            /\ k \in 0..n /\ k - 1 \in 0..n /\ m + (k - 1) = (m + k) - 1
          OBVIOUS
      <4>2. c[m + k] = b[k]
          BY <1>3, <4>1
      <4>3. u[m + k] = Edit(u[(m + k) - 1], c[m + k])
          BY <1>8, <4>1
      <4>4. r[k] = u[m + k] /\ r[k - 1] = u[m + (k - 1)]
          BY <4>1
      <4> HIDE DEF r
      <4> QED
          BY <4>1, <4>2, <4>3, <4>4
    <3> HIDE DEF r
    <3> QED
        BY <3>1, Zenon
  <2>3. r[n] = u[m + n]
      OBVIOUS
  <2> HIDE DEF r
  <2>4. Edits(r, middle, b, n)
      BY <2>1, <2>2, Zenon DEF Edits
  <2> QED
      BY <1>7, <2>3, <2>4, EditsUnique
<1> QED
    BY <1>2, <1>4, <1>5, <1>6, <1>7, <1>10, Zenon

\* What combining returns for the text of a file.
Combined(text, opes) == Combine(<<WriteWrapper(text)>> \o opes)

\* u are the accumulators and v the texts on the way from the text of a file.
Steps(C, text, ops, n, u, v) ==
    /\ Combined(text, ops) = u[n] /\ EditAll(text, ops) = v[n]
    /\ ~u[0].past /\ \A k \in 1..n : u[k] = FoldOperation(u[k - 1], ops[k])
    /\ Edits(v, text, ops, n)
    /\ \A k \in 0..n : Folded(C, u[k], v[k])

\* The fold goes from the text of a file, operation by operation, and the list
\* stands for what the operations so far make of the text.
LEMMA CombinedSteps ==
    ASSUME NEW C, NEW text \in Seq(C), NEW ops \in Seq(Operation(C)),
           NEW n \in Nat, n = Len(ops)
    PROVE  \E u, v : Steps(C, text, ops, n, u, v)
<1>1. PICK w : w = WriteWrapper(text)
    OBVIOUS
<1>2. /\ w = [type |-> "Insert", anchor |-> "begin", offset |-> 0, text |-> text,
              start |-> 0, size |-> Len(text)]
      /\ Len(text) \in Nat
    BY <1>1, LenProperties DEF WriteWrapper, Insert
<1>3. w \in Operation(C) /\ w.type = "Insert" /\ w.text = text /\ w.offset = 0 /\ w.anchor = "begin"
    BY <1>2 DEF Operation
<1>4. Len(<<>>) = 0 /\ GetFilePos(w, Len(<<>>)) = 0
    BY <1>3 DEF GetFilePos
<1>5. Edit(<<>>, w) = text
  <2>1. Edit(<<>>, w) = (SubSeq(<<>>, 1, 0) \o text) \o SubSeq(<<>>, 0 + 1, Len(<<>>))
      BY <1>3, <1>4, Zenon DEF Edit
  <2>2. 0 + 1 = 1
      OBVIOUS
  <2>3. SubSeq(<<>>, 1, 0) = <<>>
      BY SubSeqEmpty
  <2>4. (<<>> \o text) \o <<>> = text
      BY ConcatEmptySeq
  <2> QED
      BY <1>4, <2>1, <2>2, <2>3, <2>4, Zenon
<1>6. Folded(C, Nothing, <<>>) /\ ~Nothing.past
  <2>1. /\ Nothing.list = <<>> /\ Nothing.total = 0 /\ Nothing.past = FALSE
        /\ Nothing = [list |-> Nothing.list, total |-> Nothing.total, past |-> Nothing.past]
      BY DEF Nothing
  <2>2. <<>> \in Seq(Seq(C)) /\ Len(<<>>) = 0 /\ FlattenSeq(<<>>) = <<>>
      BY EmptySeq, FlattenEmpty
  <2> QED
      BY <2>1, <2>2, Zenon DEF Folded
<1>7. PICK first : first = FoldOperation(Nothing, w)
    OBVIOUS
<1>8. Folded(C, first, text) /\ ~first.past
  <2>1. PICK none : none = <<>>
      OBVIOUS
  <2>2. Folded(C, Nothing, none) /\ Edit(none, w) = text
      BY <1>5, <1>6, <2>1, Zenon
  <2>3. Admissible(none, w) /\ ~AtEnd(none, w)
      BY <1>3, <1>4, <2>1 DEF Admissible, AtEnd
  <2>4. Folded(C, first, text)
      BY <1>3, <1>7, <2>2, FoldStep
  <2>5. ~first.past
      BY <1>3, <1>6, <1>7, <2>2, <2>3, FoldStays
  <2> QED
      BY <2>4, <2>5
<1>9. PICK s : s = <<w>> \o ops
    OBVIOUS
<1>10. DOMAIN s = 1..(n + 1) /\ s[1] = w /\ \A k \in 1..n : s[k + 1] = ops[k]
  <2>1. PICK a \in Seq(Operation(C)) : a = <<w>> /\ Len(a) = 1 /\ a[1] = w
    <3> DEFINE T == Operation(C)
    <3>1. w \in T
        BY <1>3
    <3> HIDE DEF T
    <3>2. <<w>> \in Seq(T) /\ Len(<<w>>) = 1 /\ <<w>>[1] = w
        BY <3>1
    <3> QED
        BY <3>2 DEF T
  <2>2. /\ a \o ops \in Seq(Operation(C)) /\ Len(a \o ops) = 1 + n
        /\ \A i \in 1..(1 + n) : (a \o ops)[i] = IF i <= 1 THEN a[i] ELSE ops[i - 1]
      BY <2>1, ConcatProperties
  <2>3. s = a \o ops
      BY <1>9, <2>1, Zenon
  <2>4. DOMAIN s = 1..(n + 1)
      BY <2>2, <2>3, LenProperties
  <2>5. 1 \in 1..(1 + n) /\ \A k \in 1..n : k + 1 \in 1..(1 + n) /\ ~(k + 1 <= 1) /\ (k + 1) - 1 = k
      OBVIOUS
  <2> QED
      BY <2>1, <2>2, <2>3, <2>4, <2>5
<1>11. PICK t : /\ Combine(s) = t[n + 1] /\ t[0] = Nothing
                /\ \A k \in 1..(n + 1) : t[k] = FoldOperation(t[k - 1], s[k])
  <2>1. n + 1 \in Nat
      OBVIOUS
  <2> QED
      BY <1>10, <2>1, CombineSteps
<1>12. PICK u : u = [k \in 0..n |-> t[k + 1]]
    OBVIOUS
<1>13. u[n] = t[n + 1] /\ \A k \in 0..n : u[k] = t[k + 1]
    BY <1>12
<1>14. u[0] = first
  <2>1. 1 \in 1..(n + 1) /\ 1 - 1 = 0 /\ 0 + 1 = 1 /\ 0 \in 0..n
      OBVIOUS
  <2>2. t[1] = FoldOperation(t[1 - 1], s[1])
      BY <1>11, <2>1
  <2> QED
      BY <1>7, <1>10, <1>11, <1>13, <2>1, <2>2
<1>15. \A k \in 1..n : u[k] = FoldOperation(u[k - 1], ops[k])
  <2>1. ASSUME NEW k \in 1..n PROVE u[k] = FoldOperation(u[k - 1], ops[k])
    <3>1. k + 1 \in 1..(n + 1) /\ (k + 1) - 1 = k /\ k \in 0..n /\ k - 1 \in 0..n /\ (k - 1) + 1 = k
        OBVIOUS
    <3>2. t[k + 1] = FoldOperation(t[(k + 1) - 1], s[k + 1])
        BY <1>11, <3>1
    <3> QED
        BY <1>10, <1>13, <3>1, <3>2
  <2> QED
      BY <2>1, Zenon
<1>16. DOMAIN ops = 1..n /\ \A k \in 1..n : ops[k] \in Operation(C)
    BY LenProperties, ElementOfSeq
<1>17. PICK v : EditAll(text, ops) = v[n] /\ Edits(v, text, ops, n)
    BY <1>16, EditAllSteps
<1>18. v[0] = text /\ \A k \in 1..n : v[k] = Edit(v[k - 1], ops[k])
    BY <1>17, Zenon DEF Edits
<1> DEFINE S == {k \in Nat : k <= n => Folded(C, u[k], v[k])}
<1>19. 0 \in S
    BY <1>8, <1>14, <1>18
<1>20. ASSUME NEW k \in Nat, k \in S PROVE k + 1 \in S
  <2>1. ASSUME k + 1 <= n PROVE Folded(C, u[k + 1], v[k + 1])
    <3>1. k + 1 \in 1..n /\ (k + 1) - 1 = k /\ Folded(C, u[k], v[k])
        BY <1>20, <2>1
    <3>2. u[k + 1] = FoldOperation(u[k], ops[k + 1]) /\ v[k + 1] = Edit(v[k], ops[k + 1])
        BY <1>15, <1>18, <3>1
    <3>3. ops[k + 1] \in Operation(C)
        BY <1>16, <3>1
    <3> QED
        BY <3>1, <3>2, <3>3, FoldStep
  <2> QED
      BY <2>1
<1>21. Nat \subseteq S
  <2> HIDE DEF S
  <2> QED
      BY <1>19, <1>20, NatSetInduction
<1>22. \A k \in 0..n : Folded(C, u[k], v[k])
    BY <1>21
<1>23. Combined(text, ops) = u[n]
    BY <1>1, <1>9, <1>11, <1>13, Zenon DEF Combined
<1>24. ~u[0].past
    BY <1>8, <1>14
<1> HIDE DEF S
<1> QED
    BY <1>15, <1>17, <1>22, <1>23, <1>24, Zenon DEF Steps

\* A text on the way is what the operations so far make of the first one.
LEMMA EditsPrefix ==
    ASSUME NEW T, NEW text, NEW s \in Seq(T), NEW n \in Nat, n = Len(s), NEW v,
           Edits(v, text, s, n), NEW k \in 0..n
    PROVE  v[k] = EditAll(text, SubSeq(s, 1, k))
<1>1. k \in Nat /\ k <= n
    OBVIOUS
<1>2. PICK p \in Seq(T) :
         p = SubSeq(s, 1, k) /\ Len(p) = k /\ \A i \in 1..k : p[i] = s[i]
  <2>1. k \in 0..Len(s)
      OBVIOUS
  <2>2. /\ Upto(s, k) \in Seq(T) /\ Len(Upto(s, k)) = k
        /\ \A i \in 1..k : Upto(s, k)[i] = s[i]
      BY <2>1, CutType
  <2> QED
      BY <2>2 DEF Upto
<1>3. DOMAIN p = 1..k
    BY <1>2, LenProperties
<1>4. PICK w : EditAll(text, p) = w[k] /\ Edits(w, text, p, k)
    BY <1>1, <1>3, EditAllSteps
<1>5. v[0] = text /\ \A i \in 1..n : v[i] = Edit(v[i - 1], s[i])
    BY Zenon DEF Edits
<1>6. \A i \in 1..k : v[i] = Edit(v[i - 1], p[i])
  <2>1. \A i \in 1..k : i \in 1..n
      OBVIOUS
  <2> QED
      BY <1>2, <1>5, <2>1, Zenon
<1>7. Edits(v, text, p, k)
    BY <1>5, <1>6, Zenon DEF Edits
<1>8. v[k] = w[k]
    BY <1>1, <1>4, <1>7, EditsUnique
<1> QED
    BY <1>2, <1>4, <1>8, Zenon

\* Does operation i break its contract, or end at the end of the text it meets?
Leaves(text, opes, i) ==
    \/ ~Admissible(EditAll(text, SubSeq(opes, 1, i - 1)), opes[i])
    \/ AtEnd(EditAll(text, SubSeq(opes, 1, i - 1)), opes[i])

\* The list is left at an operation that breaks its contract, or at a Delete
\* that ends where the text ends.
LEMMA CombinedLeaves ==
    ASSUME NEW C, NEW text \in Seq(C), NEW ops \in Seq(Operation(C)), NEW n \in Nat, n = Len(ops),
           Combined(text, ops).past
    PROVE  \E i \in 1..n : Leaves(text, ops, i)
<1>1. SUFFICES ASSUME \A i \in 1..n : ~Leaves(text, ops, i) PROVE FALSE
    OBVIOUS
<1>2. PICK u, v : Steps(C, text, ops, n, u, v)
    BY CombinedSteps
<1>3. /\ Combined(text, ops) = u[n] /\ ~u[0].past
      /\ \A k \in 1..n : u[k] = FoldOperation(u[k - 1], ops[k])
      /\ Edits(v, text, ops, n) /\ \A k \in 0..n : Folded(C, u[k], v[k])
    BY <1>2, Zenon DEF Steps
<1> DEFINE S == {k \in Nat : k <= n => ~u[k].past}
<1>4. 0 \in S
    BY <1>3
<1>5. ASSUME NEW k \in Nat, k \in S PROVE k + 1 \in S
  <2>1. ASSUME k + 1 <= n PROVE ~u[k + 1].past
    <3>1. k + 1 \in 1..n /\ (k + 1) - 1 = k /\ k \in 0..n /\ ~u[k].past
        BY <1>5, <2>1
    <3>2. u[k + 1] = FoldOperation(u[k], ops[k + 1]) /\ Folded(C, u[k], v[k])
        BY <1>3, <3>1
    <3>3. v[k] = EditAll(text, SubSeq(ops, 1, k))
        BY <1>3, <3>1, EditsPrefix
    <3>4. ops[k + 1] \in Operation(C)
        BY <3>1, ElementOfSeq
    <3>5. Admissible(v[k], ops[k + 1]) /\ ~AtEnd(v[k], ops[k + 1])
      <4>1. ~Leaves(text, ops, k + 1)
          BY <1>1, <3>1
      <4> QED
          BY <3>1, <3>3, <4>1, Zenon DEF Leaves
    <3> QED
        BY <3>1, <3>2, <3>4, <3>5, FoldStays
  <2> QED
      BY <2>1
<1>6. Nat \subseteq S
  <2> HIDE DEF S
  <2> QED
      BY <1>4, <1>5, NatSetInduction
<1>7. ~u[n].past
    BY <1>6
<1> QED
    BY <1>3, <1>7

\* When the list is never left, the new text of the file is the old one with
\* the operations' edits, one after the other.
THEOREM CombiningEdits ==
    ASSUME NEW text \in Seq(Char), NEW opes \in Seq(Operation(Char))
    PROVE  /\ Combined(text, opes).past \in BOOLEAN
           /\ ~Combined(text, opes).past =>
                 /\ GetBufferFromSlices(Combined(text, opes).list) \in Seq(Char)
                 /\ GetBufferFromSlices(Combined(text, opes).list) = EditAll(text, opes)
<1>1. PICK acc : acc = Combined(text, opes)
    OBVIOUS
<1>2. Folded(Char, acc, EditAll(text, opes))
  <2>1. PICK n \in Nat : n = Len(opes)
      BY LenProperties
  <2>2. PICK u, v : /\ acc = u[n] /\ EditAll(text, opes) = v[n]
                    /\ \A k \in 0..n : Folded(Char, u[k], v[k])
    <3>1. PICK u, v : Steps(Char, text, opes, n, u, v)
        BY <2>1, CombinedSteps
    <3> QED
        BY <1>1, <3>1, Zenon DEF Steps
  <2>3. n \in 0..n
      OBVIOUS
  <2> QED
      BY <2>2, <2>3, Zenon
<1>3. acc.past \in BOOLEAN
    BY <1>2, Zenon DEF Folded
<1>4. ASSUME ~acc.past
      PROVE  GetBufferFromSlices(acc.list) \in Seq(Char)
             /\ GetBufferFromSlices(acc.list) = EditAll(text, opes)
  <2>1. acc.list \in Seq(Seq(Char)) /\ EditAll(text, opes) = FlattenSeq(acc.list)
      BY <1>2, <1>4, Zenon DEF Folded
  <2>2. FlattenSeq(acc.list) \in Seq(Char)
      BY <2>1, FlattenConcat
  <2> QED
      BY <2>1, <2>2, Zenon DEF GetBufferFromSlices
<1> QED
    BY <1>1, <1>3, <1>4, Zenon

----------------------------------------------------------------------------
(* The queue and the flush. *)

\* Where a handler can be.
Places == {"new", "refused", "added", "gather", "write", "answered", "failed", "lost"}

\* wOpes is the end of what was added; the handler that flushes holds the lock;
\* its loop stays within the queue.
FlushInv ==
    /\ Len(wOpes) <= Len(added)
    /\ \A i \in DOMAIN wOpes : wOpes[i] = added[Len(added) - Len(wOpes) + i]
    /\ \A r \in Requests : at[r] \in {"gather", "write"} <=> flusher = r
    /\ Gathering => end <= Len(wOpes)

\* The operations of a list of entries are operations.
LEMMA OpesType ==
    ASSUME NEW entries \in Seq(Entry)
    PROVE  Opes(entries) \in Seq(Operation(Char)) /\ Len(Opes(entries)) = Len(entries)
<1>1. Len(entries) \in Nat /\ DOMAIN entries = 1..Len(entries)
    BY LenProperties
<1>2. ASSUME NEW i \in 1..Len(entries) PROVE entries[i].ope \in Operation(Char)
  <2>1. entries[i] \in Entry
      BY ElementOfSeq
  <2> QED
      BY <2>1 DEF Entry
<1>3. Opes(entries) \in [1..Len(entries) -> Operation(Char)]
    BY <1>1, <1>2 DEF Opes
<1> QED
    BY <1>1, <1>3, SeqDef

\* Init's state is well-typed, and nothing is flushed in it.
LEMMA InitFlush == Init => TypeOK /\ FlushInv
<1> SUFFICES ASSUME Init PROVE TypeOK /\ FlushInv
    OBVIOUS
<1>1. <<>> \in Seq(Entry) /\ Len(<<>>) = 0 /\ DOMAIN <<>> = {}
    BY EmptySeq
<1>2. DOMAIN Empty = {}
    BY DEF Empty
<1>3. TypeOK
  <2>1. end \in 0..Len(added) /\ next \in 1..end + 1 /\ crashes \in 0..MaxCrashes
      BY <1>1, JournalAssumption DEF Init
  <2>2. /\ applied \in [Objects -> Seq(Entry)] /\ files \in [Objects -> Seq(Char)]
        /\ origin \in [Objects -> Seq(Char)] /\ dropped \subseteq Entry
      BY <1>1, JournalAssumption DEF Init
  <2> QED
      BY <1>1, <1>2, <2>1, <2>2 DEF Init, TypeOK
<1>4. ~Gathering
    BY DEF Init, Gathering
<1> QED
    BY <1>1, <1>3, <1>4, JournalAssumption DEF Init, FlushInv

\* The entry that the loop has come to.
LEMMA NextEntry ==
    ASSUME TypeOK, FlushInv, NEW r \in Requests, Gather(r)
    PROVE  /\ Gathering /\ next \in 1..Len(wOpes) /\ next \in DOMAIN wOpes
           /\ wOpes[next] \in Entry /\ wOpes[next].obj \in Objects
<1>1. flusher = r /\ at[r] = "gather" /\ next <= end
    BY DEF FlushInv, Gather
<1>2. Gathering
    BY <1>1, JournalAssumption DEF Gathering
<1>3. Len(wOpes) \in Nat /\ DOMAIN wOpes = 1..Len(wOpes) /\ end <= Len(wOpes)
    BY <1>2, LenProperties DEF TypeOK, FlushInv
<1>4. next \in Nat /\ end \in Nat /\ next >= 1
    BY DEF TypeOK
<1>5. next \in 1..Len(wOpes)
    BY <1>1, <1>3, <1>4
<1>6. wOpes[next] \in Entry
    BY <1>5, ElementOfSeq DEF TypeOK
<1> QED
    BY <1>2, <1>3, <1>5, <1>6 DEF Entry

\* The files and their history after a write that has failed: no file is other
\* than before, but x, which may be torn, with all that was in it.
Lost(objects, x) ==
    /\ files' \in [Objects -> Seq(Char)] /\ origin' \in [Objects -> Seq(Char)]
    /\ applied' \in [Objects -> Seq(Entry)] /\ dropped' \subseteq Entry
    /\ dropped \subseteq dropped' /\ EntriesOf(objects) \subseteq dropped'
    /\ \A o \in Objects :
          \/ files'[o] = files[o] /\ origin'[o] = origin[o] /\ applied'[o] = applied[o]
          \/ /\ o = x /\ files'[o] = origin'[o] /\ applied'[o] = <<>>
             /\ Range(applied[o]) \subseteq dropped'

\* What is dropped are entries.
LEMMA EntriesType ==
    ASSUME TypeOK
    PROVE  /\ \A o \in Objects : Range(applied[o]) \subseteq Entry
           /\ \A o \in DOMAIN g2os : Range(g2os[o]) \subseteq Entry
<1>1. ASSUME NEW l \in Seq(Entry) PROVE Range(l) \subseteq Entry
  <2>1. DOMAIN l = 1..Len(l)
      BY LenProperties
  <2>2. \A i \in 1..Len(l) : l[i] \in Entry
      BY ElementOfSeq
  <2> QED
      BY <2>1, <2>2 DEF Range
<1> QED
    BY <1>1 DEF TypeOK

\* A write that fails leaves its file alone or tears it.
LEMMA LostIs ==
    ASSUME TypeOK, NEW S \in SUBSET (DOMAIN g2os), NEW x \in DOMAIN g2os, ~Result(x).past,
           LeaveAlone(S) \/ Tear(x, S)
    PROVE  Lost(S, x)
<1>1. EntriesOf(S) \subseteq Entry /\ Range(applied[x]) \subseteq Entry /\ x \in Objects
    BY EntriesType DEF EntriesOf, TypeOK
<1>2. CASE LeaveAlone(S)
    BY <1>1, <1>2 DEF LeaveAlone, Lost, TypeOK
<1>3. CASE Tear(x, S)
  <2>1. PICK part \in Prefixes(GetBufferFromSlices(Result(x).list)) :
           /\ files' = [files EXCEPT ![x] = part] /\ origin' = [origin EXCEPT ![x] = part]
           /\ applied' = [applied EXCEPT ![x] = <<>>]
           /\ dropped' = dropped \cup EntriesOf(S) \cup Range(applied[x])
      BY <1>3 DEF Tear
  <2>2. part \in Seq(Char)
    <3>1. PICK all : all = GetBufferFromSlices(Result(x).list)
        OBVIOUS
    <3>2. all \in Seq(Char)
      <4>1. base[x] \in Seq(Char) /\ Opes(g2os[x]) \in Seq(Operation(Char))
          BY OpesType DEF TypeOK
      <4>2. Result(x) = Combined(base[x], Opes(g2os[x]))
          BY DEF Result, Combined
      <4> QED
          BY <3>1, <4>1, <4>2, CombiningEdits
    <3>3. PICK l \in 0..Len(all) : part = SubSeq(all, 1, l)
        BY <2>1, <3>1 DEF Prefixes
    <3>4. Upto(all, l) \in Seq(Char)
        BY <3>2, CutType
    <3> QED
        BY <3>3, <3>4 DEF Upto
  <2>3. <<>> \in Seq(Entry)
      BY EmptySeq
  <2>4. /\ files' \in [Objects -> Seq(Char)] /\ origin' \in [Objects -> Seq(Char)]
        /\ applied' \in [Objects -> Seq(Entry)]
      BY <2>1, <2>2, <2>3 DEF TypeOK
  <2>5. dropped' \subseteq Entry
      BY <1>1, <2>1 DEF TypeOK
  <2>6. ASSUME NEW o \in Objects, o # x
        PROVE  files'[o] = files[o] /\ origin'[o] = origin[o] /\ applied'[o] = applied[o]
      BY <2>1, <2>6 DEF TypeOK
  <2>7. files'[x] = origin'[x] /\ applied'[x] = <<>> /\ Range(applied[x]) \subseteq dropped'
      BY <1>1, <2>1 DEF TypeOK
  <2> QED
      BY <2>1, <2>4, <2>5, <2>6, <2>7 DEF Lost
<1> QED
    BY <1>2, <1>3

\* What a write that fails, an exception or a crash loses.
LEMMA FailsLoses ==
    ASSUME TypeOK, NEW r \in Requests, WriteFails(r)
    PROVE  \E x \in DOMAIN g2os : /\ Lost({x}, x)
                                /\ base' = Without(base, x) /\ g2os' = Without(g2os, x)
<1>1. PICK x \in DOMAIN g2os :
         /\ ~Result(x).past
         /\ LeaveAlone({x}) \/ Tear(x, {x})
         /\ base' = Without(base, x) /\ g2os' = Without(g2os, x)
    BY DEF WriteFails
<1>2. {x} \in SUBSET (DOMAIN g2os)
    OBVIOUS
<1>3. Lost({x}, x)
    BY <1>1, <1>2, LostIs
<1> QED
    BY <1>1, <1>3

LEMMA ThrowLoses ==
    ASSUME TypeOK, NEW r \in Requests, WriteThrows(r)
    PROVE  \E x \in DOMAIN g2os : Lost(DOMAIN g2os, x)
<1>1. PICK x \in DOMAIN g2os : ~Result(x).past
    BY DEF WriteThrows
<1>2. LeaveAlone(DOMAIN g2os)
    BY DEF WriteThrows
<1> QED
    BY <1>1, <1>2, LostIs

LEMMA CrashLoses ==
    ASSUME TypeOK, CrashRestart
    PROVE  UNCHANGED <<files, written>> \/ \E x \in DOMAIN g2os : Lost({}, x)
<1>1. CASE UNCHANGED <<files, written>>
    BY <1>1
<1>2. ASSUME NEW x \in DOMAIN g2os, ~Result(x).past, Tear(x, {}) PROVE Lost({}, x)
  <2>1. {} \in SUBSET (DOMAIN g2os)
      OBVIOUS
  <2> QED
      BY <1>2, <2>1, LostIs
<1> QED
    BY <1>1, <1>2 DEF CrashRestart

\* Every step leaves the state well-typed.
LEMMA TypeStep ==
    ASSUME TypeOK, FlushInv, [Next]_vars
    PROVE  TypeOK'
<1>1. Len(added) \in Nat /\ Len(wOpes) \in Nat /\ Len(wOpes) <= Len(added)
    BY LenProperties DEF TypeOK, FlushInv
<1>2. ASSUME NEW r \in Requests, Add(r) PROVE TypeOK'
  <2>1. PICK input \in Inputs :
            /\ wOpes' = Append(wOpes, [from |-> r, obj |-> input.obj, ope |-> input.ope])
            /\ added' = Append(added, [from |-> r, obj |-> input.obj, ope |-> input.ope])
      BY <1>2 DEF Add
  <2>2. [from |-> r, obj |-> input.obj, ope |-> input.ope] \in Entry
      BY <2>1, JournalAssumption DEF Entry
  <2>3. /\ wOpes' \in Seq(Entry) /\ added' \in Seq(Entry) /\ Len(added') = Len(added) + 1
      BY <2>1, <2>2, AppendProperties DEF TypeOK
  <2>4. end \in 0..Len(added')
      BY <2>3, <1>1 DEF TypeOK
  <2>5. undefined' \in BOOLEAN
      BY <1>2 DEF Add, TypeOK
  <2>6. at' \in [Requests -> Places]
      BY <1>2 DEF Add, Move, TypeOK, Places
  <2> QED
      BY <1>2, <2>3, <2>4, <2>5, <2>6 DEF Add, TypeOK, Places, flush, written
<1>3. ASSUME NEW r \in Requests, Lock(r) PROVE TypeOK'
  <2>1. end' = Len(wOpes) /\ end' \in 0..Len(added)
      BY <1>1, <1>3 DEF Lock
  <2>2. next' = 1 /\ next' \in 1..end' + 1
      BY <1>1, <1>3 DEF Lock
  <2>3. DOMAIN Empty = {}
      BY DEF Empty
  <2>4. /\ DOMAIN g2os' \subseteq Objects /\ DOMAIN base' = DOMAIN g2os'
        /\ \A o \in DOMAIN g2os' : base'[o] \in Seq(Char) /\ g2os'[o] \in Seq(Entry)
      BY <1>3, <2>3 DEF Lock
  <2>5. at' \in [Requests -> Places]
        /\ flusher' \in Requests \cup {None}
      BY <1>3 DEF Lock, Move, TypeOK, Places
  <2> QED
      BY <1>3, <2>1, <2>2, <2>4, <2>5 DEF Lock, TypeOK, Places, history, written
<1>4. ASSUME NEW r \in Requests, Gather(r) PROVE TypeOK'
  <2> DEFINE entry == wOpes[next]
             o == entry.obj
             first == o \notin DOMAIN g2os
             list == IF first THEN <<>> ELSE g2os[o]
  <2>1. entry \in Entry /\ o \in Objects
      BY <1>4, NextEntry
  <2>2. /\ base' = IF first THEN With(base, o, files[o]) ELSE base
        /\ g2os' = With(g2os, o, Append(list, entry))
        /\ next' = next + 1
      BY <1>4 DEF Gather
  <2>3. list \in Seq(Entry) /\ <<>> \in Seq(Entry)
      BY EmptySeq DEF TypeOK
  <2>4. Append(list, entry) \in Seq(Entry)
      BY <2>1, <2>3, AppendProperties
  <2>5. files[o] \in Seq(Char)
      BY <2>1 DEF TypeOK
  <2>6. next' \in 1..end + 1
      BY <1>4, <2>2 DEF Gather, TypeOK
  <2> HIDE DEF list, entry
  <2>7. /\ DOMAIN g2os' = DOMAIN g2os \cup {o} /\ DOMAIN base' = DOMAIN base \cup {o}
        /\ \A x \in DOMAIN g2os' : g2os'[x] \in Seq(Entry)
        /\ \A x \in DOMAIN base' : base'[x] \in Seq(Char)
      BY <2>2, <2>4, <2>5 DEF With, TypeOK
  <2> QED
      BY <1>4, <2>1, <2>6, <2>7 DEF Gather, TypeOK, history, written
<1>5. ASSUME NEW r \in Requests, Clear(r) PROVE TypeOK'
  <2>1. wOpes' = <<>> /\ <<>> \in Seq(Entry)
      BY <1>5, EmptySeq DEF Clear
  <2>2. at' \in [Requests -> Places]
      BY <1>5 DEF Clear, Move, TypeOK, Places
  <2> QED
      BY <1>5, <2>1, <2>2 DEF Clear, TypeOK, Places, flush, history, written
<1>6. ASSUME NEW r \in Requests, WriteObject(r) PROVE TypeOK'
  <2>1. PICK o \in DOMAIN g2os :
            LET ret == Combined(base[o], Opes(g2os[o])) IN
            /\ undefined' = ret.past
            /\ files' = IF ret.past THEN files
                        ELSE [files EXCEPT ![o] = GetBufferFromSlices(ret.list)]
            /\ applied' = [applied EXCEPT ![o] = @ \o g2os[o]]
            /\ base' = Without(base, o) /\ g2os' = Without(g2os, o)
      BY <1>6 DEF WriteObject, Result, Combined
  <2> DEFINE ret == Combined(base[o], Opes(g2os[o]))
  <2>2. o \in Objects /\ base[o] \in Seq(Char) /\ g2os[o] \in Seq(Entry)
      BY DEF TypeOK
  <2>3. Opes(g2os[o]) \in Seq(Operation(Char))
      BY <2>2, OpesType
  <2>4. ret.past \in BOOLEAN
      BY <2>2, <2>3, CombiningEdits
  <2>5. ~ret.past => GetBufferFromSlices(ret.list) \in Seq(Char)
      BY <2>2, <2>3, CombiningEdits
  <2>6. applied[o] \in Seq(Entry)
      BY <2>2 DEF TypeOK
  <2>7. applied[o] \o g2os[o] \in Seq(Entry)
      BY <2>2, <2>6, ConcatProperties
  <2>8. applied' \in [Objects -> Seq(Entry)]
      BY <2>1, <2>7 DEF TypeOK
  <2> HIDE DEF ret
  <2>9. files' \in [Objects -> Seq(Char)]
      BY <2>1, <2>5 DEF TypeOK, ret
  <2>10. undefined' \in BOOLEAN
      BY <2>1, <2>4 DEF ret
  <2>11. /\ DOMAIN g2os' \subseteq Objects /\ DOMAIN base' = DOMAIN g2os'
         /\ \A x \in DOMAIN g2os' : base'[x] \in Seq(Char) /\ g2os'[x] \in Seq(Entry)
      BY <2>1 DEF Without, TypeOK
  <2> QED
      BY <1>6, <2>8, <2>9, <2>10, <2>11 DEF WriteObject, TypeOK
<1>7. ASSUME NEW r \in Requests, Refuse(r) PROVE TypeOK'
    BY <1>7 DEF Refuse, Move, TypeOK, Places, flush, history, written
<1>8. ASSUME NEW r \in Requests, WriteFails(r) PROVE TypeOK'
  <2>1. PICK x \in DOMAIN g2os : /\ Lost({x}, x)
                                 /\ base' = Without(base, x) /\ g2os' = Without(g2os, x)
      BY <1>8, FailsLoses
  <2>2. /\ DOMAIN g2os' \subseteq Objects /\ DOMAIN base' = DOMAIN g2os'
        /\ \A o \in DOMAIN g2os' : base'[o] \in Seq(Char) /\ g2os'[o] \in Seq(Entry)
      BY <2>1 DEF Without, TypeOK
  <2>3. /\ files' \in [Objects -> Seq(Char)] /\ origin' \in [Objects -> Seq(Char)]
        /\ applied' \in [Objects -> Seq(Entry)] /\ dropped' \subseteq Entry
      BY <2>1 DEF Lost
  <2> QED
      BY <1>8, <2>2, <2>3 DEF WriteFails, TypeOK
<1>9. ASSUME NEW r \in Requests, WriteThrows(r) PROVE TypeOK'
  <2>1. /\ files' \in [Objects -> Seq(Char)] /\ origin' \in [Objects -> Seq(Char)]
        /\ applied' \in [Objects -> Seq(Entry)] /\ dropped' \subseteq Entry
      BY <1>9, ThrowLoses DEF Lost
  <2>2. DOMAIN Empty = {}
      BY DEF Empty
  <2>3. at' \in [Requests -> Places] /\ flusher' \in Requests \cup {None}
      BY <1>9 DEF WriteThrows, Move, TypeOK, Places
  <2> QED
      BY <1>9, <2>1, <2>2, <2>3 DEF WriteThrows, TypeOK, Places
<1>10. ASSUME NEW r \in Requests, Answer(r) PROVE TypeOK'
    BY <1>10 DEF Answer, Move, TypeOK, Places, history, written
<1>11. ASSUME CrashRestart PROVE TypeOK'
  <2>1. DOMAIN Empty = {} /\ <<>> \in Seq(Entry)
      BY EmptySeq DEF Empty
  <2>2. /\ DOMAIN g2os' \subseteq Objects /\ DOMAIN base' = DOMAIN g2os'
        /\ \A o \in DOMAIN g2os' : base'[o] \in Seq(Char) /\ g2os'[o] \in Seq(Entry)
      BY <1>11, <2>1 DEF CrashRestart
  <2>3. at' \in [Requests -> Places]
      BY <1>11 DEF CrashRestart, TypeOK, Places
  <2>4. crashes' \in 0..MaxCrashes
      BY <1>11, JournalAssumption DEF CrashRestart, TypeOK
  <2>5. /\ files' \in [Objects -> Seq(Char)] /\ origin' \in [Objects -> Seq(Char)]
        /\ applied' \in [Objects -> Seq(Entry)] /\ dropped' \subseteq Entry
      BY <1>11, CrashLoses DEF Lost, written, TypeOK
  <2>6. end' = 0 /\ next' = 1 /\ end' \in 0..Len(added) /\ next' \in 1..end' + 1
      BY <1>1, <1>11 DEF CrashRestart
  <2> QED
      BY <1>11, <2>1, <2>2, <2>3, <2>4, <2>6, <2>5 DEF CrashRestart, TypeOK, Places
<1>12. CASE UNCHANGED vars
    BY <1>12 DEF vars, flush, history, written, TypeOK
<1> QED
    BY <1>2, <1>3, <1>4, <1>5, <1>6, <1>10, <1>11, <1>12, <1>7, <1>8, <1>9 DEF Next, Handle

\* The queue is the end of what was added, also when an entry is added.
LEMMA AddedLast ==
    ASSUME TypeOK, FlushInv, NEW e \in Entry,
           wOpes' = Append(wOpes, e), added' = Append(added, e)
    PROVE  /\ Len(wOpes') = Len(wOpes) + 1 /\ Len(added') = Len(added) + 1
           /\ \A i \in DOMAIN wOpes' : wOpes'[i] = added'[Len(added') - Len(wOpes') + i]
<1>1. /\ Len(wOpes) \in Nat /\ DOMAIN wOpes = 1..Len(wOpes)
      /\ Len(added) \in Nat /\ Len(wOpes) <= Len(added)
    BY LenProperties DEF TypeOK, FlushInv
<1>2. /\ Len(wOpes') = Len(wOpes) + 1 /\ Len(added') = Len(added) + 1
      /\ wOpes' \in Seq(Entry)
      /\ \A i \in 1..Len(wOpes) : wOpes'[i] = wOpes[i]
      /\ wOpes'[Len(wOpes) + 1] = e
      /\ \A i \in 1..Len(added) : added'[i] = added[i]
      /\ added'[Len(added) + 1] = e
    BY AppendProperties DEF TypeOK
<1>3. DOMAIN wOpes' = 1..Len(wOpes) + 1
    BY <1>2, LenProperties
<1>4. ASSUME NEW i \in 1..Len(wOpes)
      PROVE  wOpes'[i] = added'[Len(added') - Len(wOpes') + i]
  <2>1. /\ Len(added') - Len(wOpes') + i = Len(added) - Len(wOpes) + i
        /\ Len(added) - Len(wOpes) + i \in 1..Len(added)
      BY <1>1, <1>2
  <2>2. wOpes[i] = added[Len(added) - Len(wOpes) + i]
      BY <1>1 DEF FlushInv
  <2> QED
      BY <1>2, <2>1, <2>2
<1>5. Len(added') - Len(wOpes') + (Len(wOpes) + 1) = Len(added) + 1
    BY <1>1, <1>2
<1>6. \A i \in 1..Len(wOpes) + 1 : i \in 1..Len(wOpes) \/ i = Len(wOpes) + 1
    BY <1>1
<1> QED
    BY <1>2, <1>3, <1>4, <1>5, <1>6

\* Every step keeps the queue, the lock and the loop together.
LEMMA FlushStep ==
    ASSUME TypeOK, FlushInv, [Next]_vars
    PROVE  FlushInv'
<1>1. /\ Len(added) \in Nat /\ Len(wOpes) \in Nat /\ Len(wOpes) <= Len(added)
      /\ \A r \in Requests : at[r] \in {"gather", "write"} <=> flusher = r
      /\ at \in [Requests -> Places]
      /\ flusher \in Requests \cup {None} /\ end \in Nat
    BY LenProperties DEF TypeOK, FlushInv, Places
<1>2. Len(<<>>) = 0 /\ DOMAIN <<>> = {}
    BY EmptySeq
<1>3. ASSUME NEW r \in Requests, Add(r) PROVE FlushInv'
  <2>1. PICK input \in Inputs :
            /\ wOpes' = Append(wOpes, [from |-> r, obj |-> input.obj, ope |-> input.ope])
            /\ added' = Append(added, [from |-> r, obj |-> input.obj, ope |-> input.ope])
      BY <1>3 DEF Add
  <2>2. [from |-> r, obj |-> input.obj, ope |-> input.ope] \in Entry
      BY <2>1, JournalAssumption DEF Entry
  <2>3. /\ Len(wOpes') = Len(wOpes) + 1 /\ Len(added') = Len(added) + 1
        /\ \A i \in DOMAIN wOpes' : wOpes'[i] = added'[Len(added') - Len(wOpes') + i]
      BY <2>1, <2>2, AddedLast
  <2>4. at[r] = "new" /\ at' = [at EXCEPT ![r] = "added"] /\ flusher' = flusher /\ end' = end
      BY <1>3 DEF Add, Move, flush
  <2>5. \A q \in Requests : at'[q] \in {"gather", "write"} <=> flusher' = q
      BY <1>1, <2>4
  <2>6. Gathering' => Gathering
      BY <1>1, <2>4 DEF Gathering
  <2>7. Gathering' => end' <= Len(wOpes')
      BY <1>1, <2>3, <2>4, <2>6 DEF FlushInv
  <2>8. Len(wOpes') <= Len(added')
      BY <1>1, <2>3
  <2> QED
      BY <2>3, <2>5, <2>7, <2>8 DEF FlushInv
<1>4. ASSUME NEW r \in Requests, Lock(r) PROVE FlushInv'
  <2>1. /\ at[r] = "added" /\ at' = [at EXCEPT ![r] = "gather"] /\ flusher = None /\ flusher' = r
        /\ end' = Len(wOpes) /\ wOpes' = wOpes /\ added' = added
      BY <1>4 DEF Lock, Move, history, written
  <2>2. \A q \in Requests : at'[q] \in {"gather", "write"} <=> flusher' = q
      BY <1>1, <2>1, JournalAssumption
  <2> QED
      BY <1>1, <2>1, <2>2 DEF FlushInv
<1>5. ASSUME NEW r \in Requests, Gather(r) PROVE FlushInv'
    BY <1>5 DEF FlushInv, Gather, Gathering, history, written
<1>6. ASSUME NEW r \in Requests, Clear(r) PROVE FlushInv'
  <2>1. /\ at[r] = "gather" /\ at' = [at EXCEPT ![r] = "write"] /\ wOpes' = <<>>
        /\ flusher' = flusher /\ added' = added /\ end' = end
      BY <1>6 DEF Clear, Move, flush, history, written
  <2>2. \A q \in Requests : at'[q] \in {"gather", "write"} <=> flusher' = q
      BY <1>1, <2>1
  <2>3. flusher = r /\ ~Gathering'
      BY <1>1, <2>1 DEF Gathering
  <2> QED
      BY <1>1, <1>2, <2>1, <2>2, <2>3 DEF FlushInv
<1>7. ASSUME NEW r \in Requests, WriteObject(r) PROVE FlushInv'
    BY <1>7 DEF FlushInv, WriteObject, Gathering
<1>8. ASSUME NEW r \in Requests, Refuse(r) PROVE FlushInv'
  <2>1. /\ at[r] = "new" /\ at' = [at EXCEPT ![r] = "refused"]
        /\ flusher' = flusher /\ wOpes' = wOpes /\ added' = added /\ end' = end
      BY <1>8 DEF Refuse, Move, flush, history
  <2>2. \A q \in Requests : at'[q] \in {"gather", "write"} <=> flusher' = q
      BY <1>1, <2>1
  <2>3. Gathering' => Gathering
      BY <1>1, <2>1 DEF Gathering
  <2> QED
      BY <2>1, <2>2, <2>3 DEF FlushInv
<1>9. ASSUME NEW r \in Requests, WriteFails(r) PROVE FlushInv'
    BY <1>9 DEF FlushInv, WriteFails, Gathering
<1>10. ASSUME NEW r \in Requests, WriteThrows(r) PROVE FlushInv'
  <2>1. /\ at[r] = "write" /\ at' = [at EXCEPT ![r] = "failed"] /\ flusher' = None
        /\ wOpes' = wOpes /\ added' = added
      BY <1>10 DEF WriteThrows, Move
  <2>2. \A q \in Requests : at'[q] \in {"gather", "write"} <=> flusher' = q
      BY <1>1, <2>1, JournalAssumption
  <2>3. ~Gathering'
      BY <2>1 DEF Gathering
  <2> QED
      BY <2>1, <2>2, <2>3 DEF FlushInv
<1>11. ASSUME NEW r \in Requests, Answer(r) PROVE FlushInv'
  <2>1. /\ at[r] = "write" /\ at' = [at EXCEPT ![r] = "answered"] /\ flusher' = None
        /\ wOpes' = wOpes /\ added' = added
      BY <1>11 DEF Answer, Move, history, written
  <2>2. \A q \in Requests : at'[q] \in {"gather", "write"} <=> flusher' = q
      BY <1>1, <2>1, JournalAssumption
  <2>3. ~Gathering'
      BY <2>1 DEF Gathering
  <2> QED
      BY <2>1, <2>2, <2>3 DEF FlushInv
<1>12. ASSUME CrashRestart PROVE FlushInv'
  <2>1. /\ wOpes' = <<>> /\ flusher' = None /\ added' = added
        /\ at' = [r \in Requests |->
                     IF at[r] \in {"added", "gather", "write"} THEN "lost" ELSE at[r]]
      BY <1>12 DEF CrashRestart, history, written
  <2>2. \A q \in Requests : at'[q] \in {"gather", "write"} <=> flusher' = q
      BY <1>1, <2>1, JournalAssumption
  <2>3. ~Gathering'
      BY <2>1 DEF Gathering
  <2> QED
      BY <1>1, <1>2, <2>1, <2>2, <2>3 DEF FlushInv
<1>13. CASE UNCHANGED vars
    BY <1>13 DEF vars, flush, history, written, FlushInv, Gathering
<1> QED
    BY <1>3, <1>4, <1>5, <1>6, <1>7, <1>11, <1>12, <1>13, <1>8, <1>9, <1>10 DEF Next, Handle

----------------------------------------------------------------------------
(* The order of what is written. *)

\* The elements of list are among the first n that were added, in their order.
InOrder(all, list, n) ==
    /\ \A i \in DOMAIN list : \E k \in 1..n : all[k] = list[i]
    /\ \A i, j \in DOMAIN list :
          i < j => \E k, l \in 1..n : k < l /\ all[k] = list[i] /\ all[l] = list[j]

\* The entries that a flush has taken up for an object.
Taken(o) == IF o \in DOMAIN g2os THEN g2os[o] ELSE <<>>

\* How many of the added entries are past: taken up, written or lost.
Past == Len(added) - Len(wOpes) + IF Gathering THEN next - 1 ELSE 0

\* What is in an object's file, and then what the flush is about to write to it,
\* is in the order in which it was added, before all that is still queued.
OrderInv == \A o \in Objects : InOrder(added, applied[o] \o Taken(o), Past)

\* A list stays in order when more is past, or added.
LEMMA InOrderMore ==
    ASSUME NEW all \in Seq(Entry), NEW list, NEW n \in 0..Len(all), NEW m \in Nat, n <= m,
           InOrder(all, list, n)
    PROVE  /\ InOrder(all, list, m)
           /\ \A e \in Entry : InOrder(Append(all, e), list, m)
<1>1. Len(all) \in Nat /\ n \in Nat
    BY LenProperties
<1>2. 1..n \subseteq 1..m /\ 1..n \subseteq 1..Len(all)
    BY <1>1
<1>3. \A e \in Entry : \A k \in 1..n : Append(all, e)[k] = all[k]
    BY <1>2, AppendProperties
<1>4. InOrder(all, list, m)
    BY <1>2 DEF InOrder
<1>5. ASSUME NEW e \in Entry PROVE InOrder(Append(all, e), list, m)
  <2>1. \A i \in DOMAIN list : \E k \in 1..m : Append(all, e)[k] = list[i]
      BY <1>2, <1>3 DEF InOrder
  <2>2. ASSUME NEW i \in DOMAIN list, NEW j \in DOMAIN list, i < j
        PROVE  \E k, l \in 1..m : k < l /\ Append(all, e)[k] = list[i] /\ Append(all, e)[l] = list[j]
    <3>1. PICK k \in 1..n, l \in 1..n : k < l /\ all[k] = list[i] /\ all[l] = list[j]
        BY <2>2 DEF InOrder
    <3> QED
        BY <3>1, <1>2, <1>3
  <2> QED
      BY <2>1, <2>2 DEF InOrder
<1> QED
    BY <1>4, <1>5

\* The next entry goes behind the list.
LEMMA InOrderAppend ==
    ASSUME NEW all \in Seq(Entry), NEW list \in Seq(Entry), NEW n \in Nat,
           n + 1 <= Len(all), InOrder(all, list, n)
    PROVE  InOrder(all, Append(list, all[n + 1]), n + 1)
<1> DEFINE e == all[n + 1]
           longer == Append(list, e)
<1>1. Len(all) \in Nat /\ n + 1 \in 1..Len(all)
    BY LenProperties
<1>2. e \in Entry
    BY <1>1, ElementOfSeq
<1>3. /\ DOMAIN longer = DOMAIN list \cup {Len(list) + 1}
      /\ \A i \in DOMAIN list : longer[i] = list[i]
      /\ longer[Len(list) + 1] = e
    BY <1>2, AppendIndices
<1>4. Len(list) \in Nat /\ DOMAIN list = 1..Len(list)
    BY LenProperties
<1>5. \A k \in 1..n : k \in 1..(n + 1) /\ k < n + 1
    OBVIOUS
<1>6. n + 1 \in 1..(n + 1)
    OBVIOUS
<1> HIDE DEF longer, e
<1>7. ASSUME NEW i \in DOMAIN longer PROVE \E k \in 1..(n + 1) : all[k] = longer[i]
  <2>1. CASE i \in DOMAIN list
      BY <2>1, <1>3, <1>5 DEF InOrder
  <2>2. CASE i = Len(list) + 1
      BY <2>2, <1>3, <1>6 DEF e
  <2> QED
      BY <2>1, <2>2, <1>3
<1>8. ASSUME NEW i \in DOMAIN longer, NEW j \in DOMAIN longer, i < j
      PROVE  \E k, l \in 1..(n + 1) : k < l /\ all[k] = longer[i] /\ all[l] = longer[j]
  <2>1. i \in DOMAIN list
      BY <1>3, <1>4, <1>8
  <2>2. CASE j \in DOMAIN list
    <3>1. PICK k \in 1..n, l \in 1..n : k < l /\ all[k] = list[i] /\ all[l] = list[j]
        BY <1>8, <2>1, <2>2 DEF InOrder
    <3> QED
        BY <3>1, <2>1, <2>2, <1>3, <1>5
  <2>3. CASE j = Len(list) + 1
    <3>1. PICK k \in 1..n : all[k] = list[i]
        BY <2>1 DEF InOrder
    <3>2. all[k] = longer[i] /\ all[n + 1] = longer[j]
        BY <3>1, <2>1, <2>3, <1>3 DEF e
    <3> QED
        BY <3>2, <1>5, <1>6
  <2> QED
      BY <2>2, <2>3, <1>3
<1> QED
    BY <1>7, <1>8 DEF InOrder, longer, e

\* So is a part of a list that is in order.
LEMMA InOrderPrefix ==
    ASSUME NEW all, NEW s \in Seq(Entry), NEW t \in Seq(Entry), NEW n, InOrder(all, s \o t, n)
    PROVE  InOrder(all, s, n)
<1>1. \A i \in DOMAIN s : i \in DOMAIN (s \o t) /\ (s \o t)[i] = s[i]
  <2>1. /\ DOMAIN s = 1..Len(s) /\ Len(s) \in Nat /\ Len(t) \in Nat
        /\ DOMAIN (s \o t) = 1..Len(s \o t) /\ Len(s \o t) = Len(s) + Len(t)
      BY ConcatProperties, LenProperties
  <2>2. \A i \in DOMAIN s : i \in 1..(Len(s) + Len(t)) /\ i <= Len(s)
      BY <2>1
  <2>3. \A i \in 1..(Len(s) + Len(t)) : (s \o t)[i] = IF i <= Len(s) THEN s[i] ELSE t[i - Len(s)]
      BY ConcatProperties
  <2> QED
      BY <2>1, <2>2, <2>3
<1>2. ASSUME NEW i \in DOMAIN s PROVE \E k \in 1..n : all[k] = s[i]
  <2>1. \E k \in 1..n : all[k] = (s \o t)[i]
      BY <1>1 DEF InOrder
  <2> QED
      BY <1>1, <2>1
<1>3. ASSUME NEW i \in DOMAIN s, NEW j \in DOMAIN s, i < j
      PROVE  \E k, l \in 1..n : k < l /\ all[k] = s[i] /\ all[l] = s[j]
  <2>1. \E k, l \in 1..n : k < l /\ all[k] = (s \o t)[i] /\ all[l] = (s \o t)[j]
      BY <1>1, <1>3 DEF InOrder
  <2> QED
      BY <1>1, <2>1
<1> QED
    BY <1>2, <1>3 DEF InOrder

\* What is past is a part of what was added.
LEMMA PastBound ==
    ASSUME TypeOK, FlushInv
    PROVE  /\ Past \in 0..Len(added) /\ Len(added) \in Nat /\ Len(wOpes) \in Nat
           /\ Gathering => Past = Len(added) - Len(wOpes) + (next - 1)
           /\ ~Gathering => Past = Len(added) - Len(wOpes)
<1>1. /\ Len(added) \in Nat /\ Len(wOpes) \in Nat /\ Len(wOpes) <= Len(added)
      /\ end \in Nat /\ next \in Nat /\ next >= 1 /\ next <= end + 1
      /\ Gathering => end <= Len(wOpes)
    BY LenProperties DEF TypeOK, FlushInv
<1> QED
    BY <1>1 DEF Past

\* Nothing moves in the lists of an object, and more may be past.
LEMMA OrderKept ==
    ASSUME TypeOK, FlushInv, OrderInv, NEW o \in Objects, NEW m \in Nat, Past <= m
    PROVE  /\ InOrder(added, applied[o] \o Taken(o), m)
           /\ \A e \in Entry : InOrder(Append(added, e), applied[o] \o Taken(o), m)
           /\ InOrder(added, applied[o], m)
<1>1. applied[o] \in Seq(Entry) /\ Taken(o) \in Seq(Entry)
    BY EmptySeq DEF TypeOK, Taken
<1>2. added \in Seq(Entry) /\ Past \in 0..Len(added)
    BY PastBound DEF TypeOK
<1>3. InOrder(added, applied[o] \o Taken(o), Past)
    BY DEF OrderInv
<1>4. /\ InOrder(added, applied[o] \o Taken(o), m)
      /\ \A e \in Entry : InOrder(Append(added, e), applied[o] \o Taken(o), m)
    BY <1>2, <1>3, InOrderMore
<1> QED
    BY <1>1, <1>4, InOrderPrefix

\* OrderInv of the next state.
LEMMA OrderPrimed ==
    ASSUME \A o \in Objects : InOrder(added', applied'[o] \o Taken(o)', Past')
    PROVE  OrderInv'
BY DEF OrderInv, InOrder

\* Every step keeps the order.
LEMMA OrderStep ==
    ASSUME TypeOK, FlushInv, OrderInv, [Next]_vars, TypeOK', FlushInv'
    PROVE  OrderInv'
<1>1. /\ Past \in 0..Len(added) /\ Len(added) \in Nat /\ Len(wOpes) \in Nat
      /\ Gathering => Past = Len(added) - Len(wOpes) + (next - 1)
      /\ ~Gathering => Past = Len(added) - Len(wOpes)
    BY PastBound
<1>2. \A o \in Objects : applied[o] \in Seq(Entry) /\ Taken(o) \in Seq(Entry)
    BY EmptySeq DEF TypeOK, Taken
<1>3. \A o \in Objects : \A m \in Nat : Past <= m =>
         /\ InOrder(added, applied[o] \o Taken(o), m)
         /\ \A e \in Entry : InOrder(Append(added, e), applied[o] \o Taken(o), m)
         /\ InOrder(added, applied[o], m)
    BY OrderKept
<1>4. Len(<<>>) = 0
    BY EmptySeq
<1>5. ASSUME NEW r \in Requests, Add(r) PROVE OrderInv'
  <2>1. PICK input \in Inputs :
            /\ wOpes' = Append(wOpes, [from |-> r, obj |-> input.obj, ope |-> input.ope])
            /\ added' = Append(added, [from |-> r, obj |-> input.obj, ope |-> input.ope])
      BY <1>5 DEF Add
  <2> DEFINE e == [from |-> r, obj |-> input.obj, ope |-> input.ope]
  <2>2. e \in Entry
      BY <2>1, JournalAssumption DEF Entry
  <2>3. at[r] = "new" /\ at' = [at EXCEPT ![r] = "added"]
        /\ flusher' = flusher /\ next' = next /\ g2os' = g2os /\ applied' = applied
      BY <1>5 DEF Add, Move, flush, written
  <2>4. Gathering' <=> Gathering
    <3>1. at \in [Requests -> Places]
          /\ flusher \in Requests \cup {None} /\ (flusher \in Requests => flusher # r)
        BY <2>3 DEF TypeOK, FlushInv, Places
    <3> QED
        BY <2>3, <3>1 DEF Gathering
  <2>5. Len(added') = Len(added) + 1 /\ Len(wOpes') = Len(wOpes) + 1
      BY <2>1, <2>2, AppendProperties DEF TypeOK
  <2>6. Past' = Past
      BY <2>3, <2>4, <2>5, <1>1 DEF Past
  <2> HIDE DEF e
  <2>7. added' = Append(added, e)
      BY <2>1 DEF e
  <2>8. ASSUME NEW o \in Objects PROVE InOrder(added', applied'[o] \o Taken(o)', Past')
    <3>1. Taken(o)' = Taken(o) /\ applied'[o] = applied[o]
        BY <2>3 DEF Taken
    <3>2. InOrder(Append(added, e), applied[o] \o Taken(o), Past)
        BY <1>1, <1>3, <2>2
    <3> QED
        BY <2>6, <2>7, <3>1, <3>2 
  <2> QED
      BY <2>8, OrderPrimed
<1>6. ASSUME added' = added, Past' \in Nat, Past <= Past',
             \A o \in Objects :
                \/ applied'[o] = applied[o] /\ Taken(o)' = Taken(o)
                \/ applied'[o] \in {applied[o], <<>>} /\ Taken(o)' = <<>>
      PROVE  OrderInv'
  <2>1. ASSUME NEW o \in Objects PROVE InOrder(added', applied'[o] \o Taken(o)', Past')
    <3>1. InOrder(added, applied[o] \o Taken(o), Past') /\ InOrder(added, applied[o], Past')
        BY <1>6, <1>3
    <3>2. applied[o] \o <<>> = applied[o] /\ <<>> \o <<>> = <<>>
        BY <1>2, EmptySeq, ConcatEmptySeq
    <3>3. InOrder(added, <<>>, Past')
        BY DEF InOrder
    <3> QED
        BY <1>6, <3>1, <3>2, <3>3
  <2> QED
      BY <2>1, OrderPrimed
<1>7. ASSUME NEW r \in Requests, Lock(r) PROVE OrderInv'
  <2>1. /\ flusher = None /\ flusher' = r /\ next' = 1 /\ g2os' = Empty
        /\ wOpes' = wOpes /\ added' = added /\ applied' = applied
      BY <1>7 DEF Lock, history, written
  <2>2. Past' = Past /\ Past' \in Nat
    <3>1. ~Gathering
        BY <2>1 DEF Gathering
    <3> QED
        BY <1>1, <2>1, <3>1 DEF Past
  <2>3. \A o \in Objects : Taken(o)' = <<>>
      BY <2>1 DEF Taken, Empty
  <2> QED
      BY <1>1, <1>6, <2>1, <2>2, <2>3
<1>8. ASSUME NEW r \in Requests, Gather(r) PROVE OrderInv'
  <2>1. /\ Gathering /\ next \in 1..Len(wOpes) /\ next \in DOMAIN wOpes
        /\ wOpes[next] \in Entry /\ wOpes[next].obj \in Objects
      BY <1>8, NextEntry
  <2>2. PICK entry \in Entry : entry = wOpes[next]
      BY <2>1
  <2>3. PICK x \in Objects : x = entry.obj
      BY <2>1, <2>2
  <2>4. /\ next' = next + 1 /\ wOpes' = wOpes /\ added' = added /\ applied' = applied
        /\ at' = at /\ flusher' = flusher
        /\ g2os' = With(g2os, x, Append(IF x \notin DOMAIN g2os THEN <<>> ELSE g2os[x], entry))
      BY <1>8, <2>2, <2>3 DEF Gather, history, written
  <2>5. Past' = Past + 1 /\ Past + 1 <= Len(added) /\ Past \in Nat
      BY <1>1, <2>1, <2>4 DEF Past, Gathering, FlushInv
  <2>6. entry = added[Past + 1]
    <3>1. entry = added[Len(added) - Len(wOpes) + next]
        BY <2>1, <2>2 DEF FlushInv
    <3>2. Len(added) - Len(wOpes) + next = Past + 1
        BY <1>1, <2>1
    <3> QED
        BY <3>1, <3>2
  <2>7. /\ Taken(x) = IF x \notin DOMAIN g2os THEN <<>> ELSE g2os[x]
        /\ g2os' = With(g2os, x, Append(Taken(x), entry))
      BY <2>4 DEF Taken
  <2>8. Taken(x)' = Append(Taken(x), entry) /\ \A o \in Objects : o # x => Taken(o)' = Taken(o)
    <3> DEFINE longer == Append(Taken(x), entry)
    <3> HIDE DEF longer
    <3>1. g2os' = With(g2os, x, longer)
        BY <2>7 DEF longer
    <3>2. /\ DOMAIN g2os' = DOMAIN g2os \cup {x} /\ g2os'[x] = longer
          /\ \A o \in DOMAIN g2os : o # x => g2os'[o] = g2os[o]
        BY <3>1 DEF With
    <3>3. Taken(x)' = longer
        BY <3>2 DEF Taken
    <3>4. \A o \in Objects : o # x => Taken(o)' = Taken(o)
        BY <3>2 DEF Taken
    <3> QED
        BY <3>3, <3>4 DEF longer
  <2>9. ASSUME NEW o \in Objects PROVE InOrder(added', applied'[o] \o Taken(o)', Past')
    <3>1. CASE o # x
      <4>1. InOrder(added, applied[o] \o Taken(o), Past + 1)
          BY <1>3, <2>5
      <4> QED
          BY <2>4, <2>5, <2>8, <3>1, <4>1 
    <3>2. CASE o = x
      <4>1. applied[o] \o Append(Taken(o), entry) = Append(applied[o] \o Taken(o), entry)
        <5>1. /\ applied[o] \in Seq(Entry) /\ Taken(o) \in Seq(Entry) /\ <<entry>> \in Seq(Entry)
              /\ applied[o] \o Taken(o) \in Seq(Entry)
            BY <1>2, <2>1, ConcatProperties
        <5>2. /\ Append(Taken(o), entry) = Taken(o) \o <<entry>>
              /\ Append(applied[o] \o Taken(o), entry) = (applied[o] \o Taken(o)) \o <<entry>>
            BY <5>1, <2>1, AppendIsConcat
        <5>3. (applied[o] \o Taken(o)) \o <<entry>> = applied[o] \o (Taken(o) \o <<entry>>)
          <6>1. Regroups(applied[o], Taken(o), <<entry>>)
              BY <5>1, ConcatRegroups
          <6> QED
              BY <6>1 DEF Regroups
        <5> QED
            BY <5>2, <5>3
      <4>2. InOrder(added, applied[o] \o Taken(o), Past) /\ applied[o] \o Taken(o) \in Seq(Entry)
          BY <1>2, ConcatProperties DEF OrderInv
      <4>3. InOrder(added, Append(applied[o] \o Taken(o), entry), Past + 1)
          BY <4>2, <2>5, <2>6, InOrderAppend DEF TypeOK
      <4>4. Taken(o)' = Append(Taken(o), entry) /\ applied'[o] = applied[o]
          BY <2>4, <2>8, <3>2
      <4> QED
          BY <2>4, <2>5, <4>1, <4>3, <4>4 
    <3> QED
        BY <3>1, <3>2
  <2> QED
      BY <2>9, OrderPrimed
<1>9. ASSUME NEW r \in Requests, Clear(r) PROVE OrderInv'
  <2>1. /\ at[r] = "gather" /\ at' = [at EXCEPT ![r] = "write"] /\ wOpes' = <<>>
        /\ flusher' = flusher /\ added' = added /\ g2os' = g2os /\ applied' = applied
      BY <1>9 DEF Clear, Move, flush, history, written
  <2>2. ~Gathering'
      BY <2>1 DEF Gathering, TypeOK, FlushInv
  <2>3. Past' = Len(added)
      BY <1>1, <1>4, <2>1, <2>2 DEF Past
  <2>4. \A o \in Objects : Taken(o)' = Taken(o)
      BY <2>1 DEF Taken
  <2> QED
      BY <1>1, <1>6, <2>1, <2>3, <2>4
<1>10. ASSUME NEW r \in Requests, WriteObject(r) PROVE OrderInv'
  <2>1. PICK x \in DOMAIN g2os :
            /\ applied' = [applied EXCEPT ![x] = @ \o g2os[x]]
            /\ g2os' = Without(g2os, x)
      BY <1>10 DEF WriteObject
  <2>2. wOpes' = wOpes /\ at' = at /\ flusher' = flusher /\ next' = next /\ added' = added
      BY <1>10 DEF WriteObject
  <2>3. Past' = Past
      BY <2>2 DEF Past, Gathering
  <2>4. ASSUME NEW o \in Objects PROVE InOrder(added', applied'[o] \o Taken(o)', Past')
    <3>1. applied'[o] \o Taken(o)' = applied[o] \o Taken(o)
      <4>1. CASE o # x
          BY <2>1, <4>1 DEF Taken, Without, TypeOK
      <4>2. CASE o = x
        <5>1. Taken(o) = g2os[o] /\ Taken(o)' = <<>> /\ applied'[o] = applied[o] \o g2os[o]
            BY <2>1, <4>2 DEF Taken, Without, TypeOK
        <5>2. applied[o] \o g2os[o] \in Seq(Entry)
            BY <1>2, <5>1, ConcatProperties
        <5> QED
            BY <5>1, <5>2, ConcatEmptySeq
      <4> QED
          BY <4>1, <4>2
    <3>2. InOrder(added, applied[o] \o Taken(o), Past)
        BY DEF OrderInv
    <3> QED
        BY <2>2, <2>3, <3>1, <3>2 
  <2> QED
      BY <2>4, OrderPrimed
<1>11. ASSUME NEW r \in Requests, Refuse(r) PROVE OrderInv'
  <2>1. /\ at[r] = "new" /\ at' = [at EXCEPT ![r] = "refused"] /\ flusher' = flusher /\ next' = next
        /\ wOpes' = wOpes /\ added' = added /\ g2os' = g2os /\ applied' = applied
      BY <1>11 DEF Refuse, Move, flush, history, written
  <2>2. Gathering' <=> Gathering
    <3>1. at \in [Requests -> Places]
          /\ flusher \in Requests \cup {None} /\ (flusher \in Requests => flusher # r)
        BY <2>1 DEF TypeOK, FlushInv, Places
    <3> QED
        BY <2>1, <3>1 DEF Gathering
  <2>3. Past' = Past /\ Past' \in Nat
      BY <1>1, <2>1, <2>2 DEF Past
  <2>4. \A o \in Objects : Taken(o)' = Taken(o)
      BY <2>1 DEF Taken
  <2> QED
      BY <1>1, <1>6, <2>1, <2>3, <2>4
<1>12. ASSUME NEW r \in Requests, WriteFails(r) PROVE OrderInv'
  <2>1. PICK x \in DOMAIN g2os : Lost({x}, x) /\ g2os' = Without(g2os, x)
      BY <1>12, FailsLoses
  <2>2. wOpes' = wOpes /\ at' = at /\ flusher' = flusher /\ next' = next /\ added' = added
      BY <1>12 DEF WriteFails
  <2>3. Past' = Past /\ Past' \in Nat
      BY <1>1, <2>2 DEF Past, Gathering
  <2>4. Taken(x)' = <<>> /\ \A o \in Objects : o # x => Taken(o)' = Taken(o)
      BY <2>1 DEF Taken, Without
  <2>5. \A o \in Objects : applied'[o] = applied[o] \/ (o = x /\ applied'[o] = <<>>)
      BY <2>1 DEF Lost
  <2> QED
      BY <1>1, <1>6, <2>2, <2>3, <2>4, <2>5
<1>13. ASSUME NEW r \in Requests, WriteThrows(r) PROVE OrderInv'
  <2>1. /\ at[r] = "write" /\ flusher' = None
        /\ wOpes' = wOpes /\ added' = added /\ g2os' = Empty
      BY <1>13 DEF WriteThrows
  <2>2. ~Gathering /\ ~Gathering'
      BY <2>1 DEF Gathering, FlushInv
  <2>3. Past' = Past /\ Past' \in Nat
      BY <1>1, <2>1, <2>2 DEF Past
  <2>4. \A o \in Objects : Taken(o)' = <<>>
      BY <2>1 DEF Taken, Empty
  <2>5. \A o \in Objects : applied'[o] \in {applied[o], <<>>}
      BY <1>13, ThrowLoses DEF Lost
  <2> QED
      BY <1>1, <1>6, <2>1, <2>3, <2>4, <2>5
<1>14. ASSUME NEW r \in Requests, Answer(r) PROVE OrderInv'
  <2>1. /\ at[r] = "write" /\ flusher' = None
        /\ wOpes' = wOpes /\ added' = added /\ g2os' = g2os /\ applied' = applied /\ next' = next
      BY <1>14 DEF Answer, Move, history, written
  <2>2. ~Gathering /\ ~Gathering'
      BY <2>1 DEF Gathering, FlushInv
  <2>3. Past' = Past /\ Past' \in Nat
      BY <1>1, <2>1, <2>2 DEF Past
  <2>4. \A o \in Objects : Taken(o)' = Taken(o)
      BY <2>1 DEF Taken
  <2> QED
      BY <1>1, <1>6, <2>1, <2>3, <2>4
<1>15. ASSUME CrashRestart PROVE OrderInv'
  <2>1. wOpes' = <<>> /\ flusher' = None /\ added' = added /\ g2os' = Empty
      BY <1>15 DEF CrashRestart
  <2>2. ~Gathering'
      BY <2>1 DEF Gathering
  <2>3. Past' = Len(added)
      BY <1>1, <1>4, <2>1, <2>2 DEF Past
  <2>4. \A o \in Objects : Taken(o)' = <<>>
      BY <2>1 DEF Taken, Empty
  <2>5. \A o \in Objects : applied'[o] \in {applied[o], <<>>}
      BY <1>15, CrashLoses DEF Lost, written
  <2> QED
      BY <1>1, <1>6, <2>1, <2>3, <2>4, <2>5
<1>16. CASE UNCHANGED vars
  <2>1. /\ added' = added /\ applied' = applied /\ Past' = Past
        /\ \A o \in Objects : Taken(o)' = Taken(o)
      BY <1>16 DEF vars, flush, history, written, Past, Gathering, Taken
  <2> QED
      BY <1>1, <1>6, <2>1
<1> QED
    BY <1>5, <1>7, <1>8, <1>9, <1>10, <1>14, <1>15, <1>16, <1>11, <1>12, <1>13 DEF Next, Handle

----------------------------------------------------------------------------
(* What is answered has been written. *)

\* Where an entry can be that has not been lost in a crash.
Queued(e)  == \E i \in DOMAIN wOpes : wOpes[i] = e /\ (Gathering => next <= i)
TakenUp(e) == \E o \in DOMAIN g2os : \E i \in DOMAIN g2os[o] : g2os[o][i] = e
Written(e) ==
    \/ \E o \in Objects : \E i \in DOMAIN applied[o] : applied[o][i] = e
    \/ e \in dropped

\* A flush goes through the whole queue.  From its addition on, an entry is in
\* the queue, in a flush, or its object has been written, if with no success: and
\* the flush of its own handler, if no earlier one, takes it out of the queue and
\* does not answer before that.
AnswerInv ==
    /\ Gathering => end = Len(wOpes)
    /\ flusher = None => DOMAIN g2os = {}
    /\ \A i \in DOMAIN added :
          /\ at[added[i].from] # "new"
          /\ at[added[i].from] \in {"added", "gather"} =>
                Queued(added[i]) \/ TakenUp(added[i]) \/ Written(added[i])
          /\ at[added[i].from] = "write" => TakenUp(added[i]) \/ Written(added[i])
          /\ at[added[i].from] = "answered" => Written(added[i])

\* AnswerInv's last conjunct, of one entry.
Safe(e) ==
    /\ at[e.from] # "new"
    /\ at[e.from] \in {"added", "gather"} => Queued(e) \/ TakenUp(e) \/ Written(e)
    /\ at[e.from] = "write" => TakenUp(e) \/ Written(e)
    /\ at[e.from] = "answered" => Written(e)

\* The elements of a list remain elements when another list is added to it.
LEMMA ConcatKeeps ==
    ASSUME NEW s \in Seq(Entry), NEW t \in Seq(Entry)
    PROVE  /\ \A i \in DOMAIN s : \E k \in DOMAIN (s \o t) : (s \o t)[k] = s[i]
           /\ \A i \in DOMAIN t : \E k \in DOMAIN (s \o t) : (s \o t)[k] = t[i]
<1>1. /\ DOMAIN s = 1..Len(s) /\ Len(s) \in Nat /\ DOMAIN t = 1..Len(t) /\ Len(t) \in Nat
      /\ DOMAIN (s \o t) = 1..(Len(s) + Len(t))
      /\ \A i \in 1..(Len(s) + Len(t)) :
            (s \o t)[i] = IF i <= Len(s) THEN s[i] ELSE t[i - Len(s)]
    BY ConcatProperties, LenProperties
<1>2. \A i \in DOMAIN s : i \in DOMAIN (s \o t) /\ (s \o t)[i] = s[i]
  <2>1. \A i \in DOMAIN s : i \in 1..(Len(s) + Len(t)) /\ i <= Len(s)
      BY <1>1
  <2> QED
      BY <1>1, <2>1
<1>3. \A i \in DOMAIN t : Len(s) + i \in DOMAIN (s \o t) /\ (s \o t)[Len(s) + i] = t[i]
  <2>1. \A i \in DOMAIN t : /\ Len(s) + i \in 1..(Len(s) + Len(t)) /\ ~(Len(s) + i <= Len(s))
                            /\ (Len(s) + i) - Len(s) = i
      BY <1>1
  <2> QED
      BY <1>1, <2>1
<1> QED
    BY <1>2, <1>3

\* A write that fails loses nothing that is not counted as lost.
LEMMA LostKeeps ==
    ASSUME TypeOK, NEW S, NEW x, Lost(S, x), NEW e \in Entry, Written(e)
    PROVE  Written(e)'
<1>1. CASE e \in dropped
    BY <1>1 DEF Lost, Written
<1>2. ASSUME NEW o \in Objects, NEW i \in DOMAIN applied[o], applied[o][i] = e PROVE Written(e)'
  <2>1. CASE applied'[o] = applied[o]
      BY <1>2, <2>1 DEF Written
  <2>2. CASE Range(applied[o]) \subseteq dropped'
      BY <1>2, <2>2 DEF Written, Range
  <2> QED
      BY <2>1, <2>2 DEF Lost
<1> QED
    BY <1>1, <1>2 DEF Written

\* The entries of the objects that a write has failed for are counted as lost.
LEMMA LostTakes ==
    ASSUME NEW S, NEW x, Lost(S, x), NEW o \in S,
           NEW e \in Entry, \E i \in DOMAIN g2os[o] : g2os[o][i] = e
    PROVE  Written(e)'
<1>1. e \in EntriesOf(S)
    BY DEF EntriesOf, Range
<1> QED
    BY <1>1 DEF Lost, Written

\* What is written stays written.
LEMMA WrittenStays ==
    ASSUME TypeOK, [Next]_vars, NEW e \in Entry, Written(e)
    PROVE  Written(e)'
<1>1. CASE applied' = applied /\ dropped' = dropped
    BY <1>1 DEF Written
<1>2. ASSUME NEW r \in Requests, WriteFails(r) PROVE Written(e)'
    BY <1>2, FailsLoses, LostKeeps
<1>3. ASSUME NEW r \in Requests, WriteThrows(r) PROVE Written(e)'
    BY <1>3, ThrowLoses, LostKeeps
<1>4. ASSUME CrashRestart PROVE Written(e)'
    BY <1>1, <1>4, CrashLoses, LostKeeps DEF written
<1>5. ASSUME NEW r \in Requests, WriteObject(r) PROVE Written(e)'
  <2>1. /\ dropped' = dropped
        /\ \E x \in DOMAIN g2os : applied' = [applied EXCEPT ![x] = @ \o g2os[x]]
      BY <1>5 DEF WriteObject
  <2> SUFFICES ASSUME e \notin dropped PROVE Written(e)'
      BY <2>1 DEF Written
  <2> PICK x \in DOMAIN g2os : applied' = [applied EXCEPT ![x] = @ \o g2os[x]]
      BY <2>1
  <2>2. PICK o \in Objects : \E i \in DOMAIN applied[o] : applied[o][i] = e
      BY DEF Written
  <2>3. applied[o] \in Seq(Entry) /\ g2os[x] \in Seq(Entry)
      BY DEF TypeOK
  <2>4. \E i \in DOMAIN (applied[o] \o g2os[x]) : (applied[o] \o g2os[x])[i] = e
    <3>1. PICK s \in Seq(Entry), t \in Seq(Entry) : s = applied[o] /\ t = g2os[x]
        BY <2>3
    <3>2. \A i \in DOMAIN s : \E k \in DOMAIN (s \o t) : (s \o t)[k] = s[i]
        BY ConcatKeeps
    <3>3. PICK i \in DOMAIN s : s[i] = e
        BY <2>2, <3>1
    <3>4. \E k \in DOMAIN (s \o t) : (s \o t)[k] = e
        BY <3>2, <3>3
    <3> QED
        BY <3>1, <3>4
  <2>5. \E i \in DOMAIN applied'[o] : applied'[o][i] = e
      BY <2>1, <2>2, <2>4 DEF TypeOK
  <2> QED
      BY <2>5 DEF Written
<1> QED
    BY <1>1, <1>5, <1>2, <1>3, <1>4
       DEF Next, Handle, Add, Refuse, Lock, Gather, Clear, Answer, vars, flush, history, written

\* Init's state has no entries.
LEMMA InitAnswer == Init => AnswerInv
<1>1. DOMAIN <<>> = {} /\ DOMAIN Empty = {}
    BY DEF Empty
<1>2. Init => ~Gathering
    BY DEF Init, Gathering
<1> QED
    BY <1>1, <1>2 DEF Init, AnswerInv

\* Every step keeps the entries safe.
LEMMA AnswerStep ==
    ASSUME TypeOK, FlushInv, AnswerInv, ~Racing, [Next]_vars
    PROVE  AnswerInv'
<1>1. /\ at \in [Requests -> Places]
      /\ \A r \in Requests : at[r] \in {"gather", "write"} <=> flusher = r
      /\ flusher \in Requests \cup {None} /\ None \notin Requests
      /\ added \in Seq(Entry) /\ wOpes \in Seq(Entry)
      /\ DOMAIN wOpes = 1..Len(wOpes) /\ Len(wOpes) \in Nat
      /\ DOMAIN added = 1..Len(added) /\ next \in Nat /\ end \in Nat
  <2>1. /\ at \in [Requests -> Places]
        /\ flusher \in Requests \cup {None} /\ None \notin Requests
        /\ added \in Seq(Entry) /\ wOpes \in Seq(Entry)
        /\ end \in 0..Len(added) /\ next \in 1..end + 1
      BY JournalAssumption DEF TypeOK, Places
  <2>2. /\ DOMAIN wOpes = 1..Len(wOpes) /\ Len(wOpes) \in Nat
        /\ DOMAIN added = 1..Len(added) /\ Len(added) \in Nat
      BY <2>1, LenProperties
  <2>3. next \in Nat /\ end \in Nat
      BY <2>1, <2>2
  <2> QED
      BY <2>1, <2>2, <2>3, Zenon DEF FlushInv
<1>2. \A i \in DOMAIN added : added[i] \in Entry /\ Safe(added[i])
    BY <1>1, ElementOfSeq, Zenon DEF AnswerInv, Safe
<1>3. \A e \in Entry : e.from \in Requests
    BY DEF Entry
<1>4. \A e \in Entry : Written(e) => Written(e)'
    BY WrittenStays
\* It is enough to look at the entries that were there.
<1>5. ASSUME added' = added, \A e \in Entry : Safe(e) => Safe(e)',
             Gathering' => end' = Len(wOpes'), flusher' = None => DOMAIN g2os' = {}
      PROVE  AnswerInv'
  <2>1. \A i \in DOMAIN added : Safe(added[i])'
      BY <1>2, <1>5 DEF Safe, Queued, TakenUp, Written
  <2> QED
      BY <1>5, <2>1 DEF AnswerInv, Safe, Queued, TakenUp, Written
<1>6. ASSUME NEW r \in Requests, Lock(r) PROVE AnswerInv'
  <2>1. /\ at[r] = "added" /\ at' = [at EXCEPT ![r] = "gather"] /\ flusher = None /\ flusher' = r
        /\ end' = Len(wOpes) /\ next' = 1 /\ wOpes' = wOpes /\ added' = added /\ applied' = applied
        /\ DOMAIN g2os = {}
      BY <1>6 DEF Lock, Move, history, written, AnswerInv
  <2>2. \A e \in Entry : ~TakenUp(e)
      BY <2>1 DEF TakenUp
  <2>3. \A e \in Entry : Queued(e) => Queued(e)'
      BY <1>1, <2>1 DEF Queued
  <2>4. \A e \in Entry : at'[e.from] = at[e.from] \/ (at[e.from] = "added" /\ at'[e.from] = "gather")
      BY <1>1, <1>3, <2>1
  <2>5. \A e \in Entry : Safe(e) => Safe(e)'
      BY <1>4, <2>2, <2>3, <2>4 DEF Safe
  <2> QED
      BY <1>1, <1>5, <2>1, <2>5
<1>7. ASSUME NEW r \in Requests, Gather(r) PROVE AnswerInv'
  <2>1. /\ Gathering /\ next \in 1..Len(wOpes) /\ next \in DOMAIN wOpes
        /\ wOpes[next] \in Entry /\ wOpes[next].obj \in Objects
      BY <1>7, NextEntry
  <2>2. PICK entry \in Entry : entry = wOpes[next]
      BY <2>1
  <2>3. PICK x \in Objects : x = entry.obj
      BY <2>1, <2>2
  <2>4. PICK list : list = IF x \notin DOMAIN g2os THEN <<>> ELSE g2os[x]
      OBVIOUS
  <2>5. PICK longer : longer = Append(list, entry)
      OBVIOUS
  <2>6. /\ next' = next + 1 /\ wOpes' = wOpes /\ added' = added /\ applied' = applied
        /\ at' = at /\ flusher' = flusher /\ end' = end
        /\ g2os' = With(g2os, x, longer)
      BY <1>7, <2>2, <2>3, <2>4, <2>5 DEF Gather, history, written
  <2>7. list \in Seq(Entry)
      BY <2>4, EmptySeq DEF TypeOK
  <2>8. /\ DOMAIN longer = DOMAIN list \cup {Len(list) + 1}
        /\ \A i \in DOMAIN list : longer[i] = list[i]
        /\ longer[Len(list) + 1] = entry
      BY <2>7, <2>5, AppendIndices
  <2>9. /\ DOMAIN g2os' = DOMAIN g2os \cup {x} /\ g2os'[x] = longer
        /\ \A o \in DOMAIN g2os : o # x => g2os'[o] = g2os[o]
      BY <2>6 DEF With
  <2>10. ASSUME NEW e \in Entry, TakenUp(e) PROVE TakenUp(e)'
    <3>1. PICK o \in DOMAIN g2os : \E i \in DOMAIN g2os[o] : g2os[o][i] = e
        BY <2>10 DEF TakenUp
    <3>2. \E i \in DOMAIN g2os'[o] : g2os'[o][i] = e
        BY <3>1, <2>4, <2>8, <2>9
    <3> QED
        BY <3>2, <2>9 DEF TakenUp
  <2>11. TakenUp(entry)'
      BY <2>8, <2>9 DEF TakenUp
  <2>12. ASSUME NEW e \in Entry, Queued(e) PROVE Queued(e)' \/ e = entry
    <3>1. PICK i \in DOMAIN wOpes : wOpes[i] = e /\ next <= i
        BY <2>1, <2>12 DEF Queued
    <3>2. i = next \/ next + 1 <= i
        BY <1>1, <3>1
    <3> QED
        BY <3>1, <3>2, <2>6, <2>2 DEF Queued
  <2>13. \A e \in Entry : Safe(e) => Safe(e)'
      BY <1>4, <2>6, <2>10, <2>11, <2>12 DEF Safe
  <2>14. flusher # None /\ (Gathering' => end' = Len(wOpes'))
      BY <2>1, <2>6 DEF Gathering, AnswerInv
  <2> QED
      BY <1>5, <2>6, <2>13, <2>14
<1>8. ASSUME NEW r \in Requests, Clear(r) PROVE AnswerInv'
  <2>1. /\ at[r] = "gather" /\ at' = [at EXCEPT ![r] = "write"] /\ wOpes' = <<>> /\ ~(next <= end)
        /\ flusher' = flusher /\ added' = added /\ g2os' = g2os /\ applied' = applied
      BY <1>1, <1>8 DEF Clear, Move, flush, history, written
  <2>2. flusher = r /\ Gathering /\ ~Gathering'
      BY <1>1, <2>1 DEF Gathering
  <2>3. \A e \in Entry : ~Queued(e)
      BY <1>1, <2>1, <2>2 DEF Queued, AnswerInv
  <2>4. \A e \in Entry : TakenUp(e) => TakenUp(e)'
      BY <2>1 DEF TakenUp
  <2>5. \A e \in Entry : at'[e.from] = at[e.from] \/ (at[e.from] = "gather" /\ at'[e.from] = "write")
      BY <1>1, <1>3, <2>1
  <2>6. \A e \in Entry : Safe(e) => Safe(e)'
    <3>1. SUFFICES ASSUME NEW e \in Entry, Safe(e) PROVE Safe(e)'
        OBVIOUS
    <3>2. (TakenUp(e) => TakenUp(e)') /\ (Written(e) => Written(e)') /\ ~Queued(e)
        BY <1>4, <2>3, <2>4
    <3>3. at'[e.from] = at[e.from] \/ (at[e.from] = "gather" /\ at'[e.from] = "write")
        BY <2>5
    <3> QED
        BY <3>1, <3>2, <3>3 DEF Safe
  <2> QED
      BY <1>1, <1>5, <2>1, <2>2, <2>6
<1>9. ASSUME NEW r \in Requests, WriteObject(r) PROVE AnswerInv'
  <2>1. PICK x \in DOMAIN g2os :
            /\ applied' = [applied EXCEPT ![x] = @ \o g2os[x]]
            /\ g2os' = Without(g2os, x)
      BY <1>9 DEF WriteObject
  <2>2. /\ wOpes' = wOpes /\ at' = at /\ flusher' = flusher /\ next' = next /\ added' = added
        /\ end' = end
      BY <1>9 DEF WriteObject
  <2>3. ASSUME NEW e \in Entry, TakenUp(e) PROVE TakenUp(e)' \/ Written(e)'
    <3>1. PICK o \in DOMAIN g2os : \E i \in DOMAIN g2os[o] : g2os[o][i] = e
        BY <2>3 DEF TakenUp
    <3>2. CASE o # x
        BY <2>1, <3>1, <3>2 DEF TakenUp, Without
    <3>3. CASE o = x
      <4>1. o \in Objects /\ applied[o] \in Seq(Entry) /\ g2os[o] \in Seq(Entry)
          BY DEF TypeOK
      <4>2. \E i \in DOMAIN (applied[o] \o g2os[o]) : (applied[o] \o g2os[o])[i] = e
        <5>1. PICK s \in Seq(Entry), t \in Seq(Entry) : s = applied[o] /\ t = g2os[o]
            BY <4>1
        <5>2. \A i \in DOMAIN t : \E k \in DOMAIN (s \o t) : (s \o t)[k] = t[i]
            BY ConcatKeeps
        <5>3. PICK i \in DOMAIN t : t[i] = e
            BY <3>1, <5>1
        <5>4. \E k \in DOMAIN (s \o t) : (s \o t)[k] = e
            BY <5>2, <5>3
        <5> QED
            BY <5>1, <5>4
      <4>3. applied'[o] = applied[o] \o g2os[o]
          BY <2>1, <3>3, <4>1 DEF TypeOK
      <4> QED
          BY <4>1, <4>2, <4>3 DEF Written
    <3> QED
        BY <3>2, <3>3
  <2>4. \A e \in Entry : Queued(e) => Queued(e)'
      BY <2>2 DEF Queued, Gathering
  <2>5. \A e \in Entry : Safe(e) => Safe(e)'
      BY <1>1, <1>3, <1>4, <1>9, <2>2, <2>3, <2>4 DEF Safe
  <2>6. at[r] = "write" /\ flusher = r
      BY <1>1, <1>9 DEF WriteObject
  <2>7. ~Gathering'
      BY <2>2, <2>6 DEF Gathering
  <2> QED
      BY <1>1, <1>5, <2>2, <2>5, <2>6, <2>7, Zenon
<1>10. ASSUME NEW r \in Requests, Answer(r) PROVE AnswerInv'
  <2>1. /\ at[r] = "write" /\ at' = [at EXCEPT ![r] = "answered"] /\ flusher' = None /\ DOMAIN g2os = {}
        /\ wOpes' = wOpes /\ added' = added /\ g2os' = g2os /\ applied' = applied
      BY <1>10 DEF Answer, Move, history, written
  <2>2. ~Gathering'
      BY <1>1, <2>1 DEF Gathering
  <2>3. \A e \in Entry : ~TakenUp(e) /\ (Queued(e) => Queued(e)')
      BY <2>1, <2>2 DEF TakenUp, Queued
  <2>4. \A e \in Entry : at'[e.from] = at[e.from] \/ (at[e.from] = "write" /\ at'[e.from] = "answered")
      BY <1>1, <1>3, <2>1
  <2>5. \A e \in Entry : Safe(e) => Safe(e)'
      BY <1>4, <2>3, <2>4 DEF Safe
  <2> QED
      BY <1>5, <2>1, <2>2, <2>5
<1>11. ASSUME NEW r \in Requests, Refuse(r) PROVE AnswerInv'
  <2>1. /\ at[r] = "new" /\ at' = [at EXCEPT ![r] = "refused"] /\ flusher' = flusher
        /\ next' = next /\ end' = end /\ wOpes' = wOpes /\ added' = added /\ g2os' = g2os
      BY <1>11 DEF Refuse, Move, flush, history
  <2>2. flusher # r /\ (Gathering' <=> Gathering)
      BY <1>1, <2>1 DEF Gathering
  <2>3. \A e \in Entry : (Queued(e) => Queued(e)') /\ (TakenUp(e) => TakenUp(e)')
      BY <2>1, <2>2 DEF Queued, TakenUp
  <2>4. \A e \in Entry : at[e.from] # "new" => at'[e.from] = at[e.from]
      BY <1>1, <1>3, <2>1
  <2>5. \A e \in Entry : Safe(e) => Safe(e)'
      BY <1>4, <2>3, <2>4 DEF Safe
  <2>6. (Gathering' => end' = Len(wOpes')) /\ (flusher' = None => DOMAIN g2os' = {})
      BY <2>1, <2>2 DEF AnswerInv
  <2> QED
      BY <1>5, <2>1, <2>5, <2>6
<1>12. ASSUME NEW r \in Requests, WriteFails(r) PROVE AnswerInv'
  <2>1. PICK x \in DOMAIN g2os : Lost({x}, x) /\ g2os' = Without(g2os, x)
      BY <1>12, FailsLoses
  <2>2. /\ wOpes' = wOpes /\ at' = at /\ flusher' = flusher /\ next' = next /\ added' = added
        /\ end' = end
      BY <1>12 DEF WriteFails
  <2>3. ASSUME NEW e \in Entry, TakenUp(e) PROVE TakenUp(e)' \/ Written(e)'
    <3>1. PICK o \in DOMAIN g2os : \E i \in DOMAIN g2os[o] : g2os[o][i] = e
        BY <2>3 DEF TakenUp
    <3>2. CASE o # x
        BY <2>1, <3>1, <3>2 DEF TakenUp, Without
    <3>3. CASE o = x
        BY <2>1, <3>1, <3>3, LostTakes
    <3> QED
        BY <3>2, <3>3
  <2>4. \A e \in Entry : Queued(e) => Queued(e)'
      BY <2>2 DEF Queued, Gathering
  <2>5. \A e \in Entry : Safe(e) => Safe(e)'
      BY <1>4, <2>2, <2>3, <2>4 DEF Safe
  <2>6. at[r] = "write" /\ flusher = r
      BY <1>1, <1>12 DEF WriteFails
  <2>7. ~Gathering'
      BY <2>2, <2>6 DEF Gathering
  <2> QED
      BY <1>1, <1>5, <2>2, <2>5, <2>6, <2>7, Zenon
<1>13. ASSUME NEW r \in Requests, WriteThrows(r) PROVE AnswerInv'
  <2>1. PICK x \in DOMAIN g2os : Lost(DOMAIN g2os, x)
      BY <1>13, ThrowLoses
  <2>2. /\ at[r] = "write" /\ at' = [at EXCEPT ![r] = "failed"] /\ flusher' = None
        /\ g2os' = Empty /\ wOpes' = wOpes /\ added' = added
      BY <1>13 DEF WriteThrows, Move
  <2>3. ~Gathering' /\ DOMAIN g2os' = {}
      BY <2>2 DEF Gathering, Empty
  <2>4. \A e \in Entry : TakenUp(e) => Written(e)'
      BY <2>1, LostTakes DEF TakenUp
  <2>5. \A e \in Entry : at'[e.from] = at[e.from] \/ at'[e.from] = "failed"
      BY <1>1, <1>3, <2>2
  <2>6. \A e \in Entry : Queued(e) => Queued(e)'
      BY <2>2, <2>3 DEF Queued
  <2>7. \A e \in Entry : Safe(e) => Safe(e)'
      BY <1>4, <2>4, <2>5, <2>6 DEF Safe
  <2> QED
      BY <1>5, <2>2, <2>3, <2>7
<1>14. ASSUME CrashRestart PROVE AnswerInv'
  <2>1. /\ flusher' = None /\ added' = added /\ g2os' = Empty
        /\ at' = [r \in Requests |->
                     IF at[r] \in {"added", "gather", "write"} THEN "lost" ELSE at[r]]
      BY <1>14 DEF CrashRestart
  <2>2. ~Gathering' /\ DOMAIN g2os' = {}
      BY <2>1 DEF Gathering, Empty
  <2>3. \A e \in Entry : \/ at'[e.from] = "lost"
                         \/ /\ at'[e.from] = at[e.from]
                            /\ at[e.from] \notin {"added", "gather", "write"}
      BY <1>3, <2>1
  <2>4. \A e \in Entry : Safe(e) => Safe(e)'
      BY <1>4, <2>3 DEF Safe
  <2> QED
      BY <1>5, <2>1, <2>2, <2>4
<1>15. CASE UNCHANGED vars
  <2>1. /\ at' = at /\ wOpes' = wOpes /\ g2os' = g2os /\ written' = written /\ added' = added
        /\ flusher' = flusher /\ next' = next /\ end' = end
      BY <1>15 DEF vars, flush, history, written
  <2>2. \A e \in Entry : Safe(e) => Safe(e)'
      BY <2>1 DEF Safe, Queued, TakenUp, Written, Gathering, written
  <2>3. (Gathering' => end' = Len(wOpes')) /\ (flusher' = None => DOMAIN g2os' = {})
      BY <2>1 DEF Gathering, AnswerInv
  <2> QED
      BY <1>5, <2>1, <2>2, <2>3
<1>16. ASSUME NEW r \in Requests, Add(r) PROVE AnswerInv'
  <2>1. PICK input \in Inputs :
            /\ wOpes' = Append(wOpes, [from |-> r, obj |-> input.obj, ope |-> input.ope])
            /\ added' = Append(added, [from |-> r, obj |-> input.obj, ope |-> input.ope])
      BY <1>16 DEF Add
  <2>2. PICK new \in Entry : new = [from |-> r, obj |-> input.obj, ope |-> input.ope]
      BY <2>1, JournalAssumption DEF Entry
  <2>3. /\ at[r] = "new" /\ at' = [at EXCEPT ![r] = "added"] /\ ~Gathering /\ g2os' = g2os
        /\ flusher' = flusher /\ next' = next
      BY <1>16 DEF Add, Move, flush
  <2>4. ~Gathering'
      BY <1>1, <2>3 DEF Gathering
  <2>5. /\ \A i \in DOMAIN wOpes : i \in DOMAIN wOpes' /\ wOpes'[i] = wOpes[i]
        /\ Len(wOpes) + 1 \in DOMAIN wOpes' /\ wOpes'[Len(wOpes) + 1] = new
      BY <1>1, <2>1, <2>2, AppendIndices
  <2>6. /\ DOMAIN added' = DOMAIN added \cup {Len(added) + 1}
        /\ \A i \in DOMAIN added : added'[i] = added[i]
        /\ added'[Len(added) + 1] = new
      BY <1>1, <2>1, <2>2, AppendIndices
  <2>7. \A e \in Entry : (Queued(e) => Queued(e)') /\ (TakenUp(e) => TakenUp(e)')
      BY <2>3, <2>4, <2>5 DEF Queued, TakenUp
  <2>8. Queued(new)'
      BY <2>4, <2>5 DEF Queued
  <2>9. \A e \in Entry : at[e.from] # "new" => at'[e.from] = at[e.from]
      BY <1>1, <1>3, <2>3
  <2>10. \A e \in Entry : Safe(e) => Safe(e)'
      BY <1>4, <2>7, <2>9 DEF Safe
  <2>11. Safe(new)'
    <3>1. new.from = r
        BY <2>2
    <3>2. at'[new.from] = "added"
        BY <1>1, <2>3, <3>1
    <3> QED
        BY <2>8, <3>2 DEF Safe
  <2>12. ASSUME NEW i \in DOMAIN added' PROVE \E e \in Entry : added'[i] = e /\ Safe(e)'
    <3>1. CASE i \in DOMAIN added
        BY <3>1, <1>2, <2>6, <2>10
    <3>2. CASE i = Len(added) + 1
        BY <3>2, <2>6, <2>11
    <3> QED
        BY <3>1, <3>2, <2>6
  <2>13. flusher' = None => DOMAIN g2os' = {}
      BY <2>3 DEF AnswerInv
  <2> QED
      BY <2>4, <2>12, <2>13 DEF AnswerInv, Safe, Queued, TakenUp, Written
<1> QED
    BY <1>16, <1>6, <1>7, <1>8, <1>9, <1>10, <1>14, <1>15, <1>11, <1>12, <1>13 DEF Next, Handle

----------------------------------------------------------------------------
(* The files. *)

\* A file that a flush has read is as it was read, and every file is what the
\* written operations make of its text at the start, or since it was torn.
FilesInv ==
    /\ \A o \in DOMAIN g2os : base[o] = files[o]
    /\ FilesAreEdited

\* The operations of two lists of entries, one after the other.
LEMMA OpesConcat ==
    ASSUME NEW s \in Seq(Entry), NEW t \in Seq(Entry)
    PROVE  Opes(s \o t) = Opes(s) \o Opes(t)
<1>1. PICK m \in Nat, n \in Nat : m = Len(s) /\ n = Len(t)
    BY LenProperties
<1>2. PICK a \in Seq(Operation(Char)), b \in Seq(Operation(Char)) :
         a = Opes(s) /\ b = Opes(t) /\ Len(a) = m /\ Len(b) = n
    BY <1>1, OpesType
<1>3. PICK c \in Seq(Entry) : c = s \o t
    BY ConcatProperties
<1>4. /\ Len(c) = m + n /\ DOMAIN s = 1..m /\ DOMAIN t = 1..n /\ DOMAIN c = 1..(m + n)
      /\ \A i \in 1..(m + n) : c[i] = IF i <= m THEN s[i] ELSE t[i - m]
    BY <1>1, <1>3, ConcatProperties, LenProperties
<1>5. PICK d \in Seq(Operation(Char)) : d = Opes(c) /\ Len(d) = m + n
    BY <1>4, OpesType
<1>6. PICK e \in Seq(Operation(Char)) : e = a \o b
    BY ConcatProperties
<1>7. /\ Len(e) = m + n
      /\ \A i \in 1..(m + n) : e[i] = IF i <= m THEN a[i] ELSE b[i - m]
  <2>1. /\ Len(a \o b) = Len(a) + Len(b)
        /\ \A i \in 1..(Len(a) + Len(b)) :
              (a \o b)[i] = IF i <= Len(a) THEN a[i] ELSE b[i - Len(a)]
      BY ConcatProperties, Zenon
  <2>2. Len(a) = m /\ Len(b) = n /\ e = a \o b
      BY <1>2, <1>6
  <2> QED
      BY <2>1, <2>2
<1>8. /\ \A i \in 1..m : a[i] = s[i].ope
      /\ \A i \in 1..n : b[i] = t[i].ope
      /\ \A i \in 1..(m + n) : d[i] = c[i].ope
    BY <1>2, <1>4, <1>5 DEF Opes
<1>9. ASSUME NEW i \in 1..(m + n) PROVE d[i] = e[i]
  <2>1. CASE i <= m
    <3>1. i \in 1..m
        BY <2>1
    <3> QED
        BY <2>1, <3>1, <1>4, <1>7, <1>8
  <2>2. CASE ~(i <= m)
    <3>1. i - m \in 1..n
        BY <2>2
    <3> QED
        BY <2>2, <3>1, <1>4, <1>7, <1>8
  <2> QED
      BY <2>1, <2>2
<1>10. d = e
    BY <1>5, <1>7, <1>9, SeqEqual
<1> QED
    BY <1>2, <1>3, <1>5, <1>6, <1>10, Zenon

\* Init's files have no operations in them.
LEMMA InitFiles == Init => FilesInv
<1> SUFFICES ASSUME Init PROVE FilesInv
    OBVIOUS
<1>1. DOMAIN g2os = {}
    BY DEF Init, Empty
<1>2. ASSUME NEW o \in Objects PROVE files[o] = EditAll(origin[o], Opes(applied[o]))
  <2>1. Opes(<<>>) = <<>>
      BY DEF Opes
  <2>2. applied[o] = <<>> /\ files[o] = origin[o]
      BY DEF Init
  <2>3. EditAll(origin[o], <<>>) = origin[o]
      BY EditAllFew
  <2> QED
      BY <2>1, <2>2, <2>3, Zenon
<1> QED
    BY <1>1, <1>2 DEF FilesInv, FilesAreEdited

\* Every step keeps the files what the operations make of them.
LEMMA FilesStep ==
    ASSUME TypeOK, FlushInv, FilesInv, [Next]_vars
    PROVE  FilesInv'
<1>1. ASSUME files' = files, origin' = origin, applied' = applied, undefined => undefined',
             \A o \in DOMAIN g2os' : base'[o] = files[o]
      PROVE  FilesInv'
    BY <1>1 DEF FilesInv, FilesAreEdited, Opes
<1>2. ASSUME files' = files, origin' = origin, applied' = applied, undefined => undefined',
             base' = base, g2os' = g2os
      PROVE  FilesInv'
  <2>1. \A o \in DOMAIN g2os' : base'[o] = files[o]
      BY <1>2 DEF FilesInv
  <2> QED
      BY <1>1, <1>2, <2>1
<1>3. DOMAIN Empty = {}
    BY DEF Empty
<1>4. ASSUME NEW r \in Requests, Add(r) PROVE FilesInv'
  <2>1. undefined => undefined'
      BY <1>4 DEF Add
  <2> QED
      BY <1>2, <1>4, <2>1 DEF Add, flush, written
<1>5. ASSUME NEW r \in Requests, Lock(r) PROVE FilesInv'
    BY <1>1, <1>3, <1>5 DEF Lock, history, written
<1>6. ASSUME NEW r \in Requests, Gather(r) PROVE FilesInv'
  <2> PICK o \in Objects : o = wOpes[next].obj
      BY <1>6, NextEntry
  <2> PICK list : list = Append(IF o \notin DOMAIN g2os THEN <<>> ELSE g2os[o], wOpes[next])
      OBVIOUS
  <2>1. /\ base' = IF o \notin DOMAIN g2os THEN With(base, o, files[o]) ELSE base
        /\ g2os' = With(g2os, o, list)
      BY <1>6, Zenon DEF Gather
  <2>2. DOMAIN g2os' = DOMAIN g2os \cup {o} /\ DOMAIN base = DOMAIN g2os
      BY <2>1 DEF With, TypeOK
  <2>3. \A x \in DOMAIN g2os' : base'[x] = files[x]
      BY <2>1, <2>2 DEF With, FilesInv
  <2> QED
      BY <1>1, <1>6, <2>3 DEF Gather, history, written
<1>7. ASSUME NEW r \in Requests, Clear(r) PROVE FilesInv'
    BY <1>2, <1>7 DEF Clear, flush, history, written
<1>8. ASSUME NEW r \in Requests, ~undefined, WriteObject(r) PROVE FilesInv'
  <2>1. PICK o \in DOMAIN g2os :
            LET ret == Combined(base[o], Opes(g2os[o])) IN
            /\ undefined' = ret.past
            /\ files' = IF ret.past THEN files
                        ELSE [files EXCEPT ![o] = GetBufferFromSlices(ret.list)]
            /\ applied' = [applied EXCEPT ![o] = @ \o g2os[o]]
            /\ base' = Without(base, o) /\ g2os' = Without(g2os, o)
      BY <1>8 DEF WriteObject, Result, Combined
  <2> origin' = origin
      BY <1>8 DEF WriteObject
  <2>2. PICK ret : ret = Combined(base[o], Opes(g2os[o]))
      OBVIOUS
  <2>3. /\ ret = Combined(base[o], Opes(g2os[o]))
        /\ undefined' = ret.past
        /\ files' = IF ret.past THEN files
                    ELSE [files EXCEPT ![o] = GetBufferFromSlices(ret.list)]
        /\ applied' = [applied EXCEPT ![o] = @ \o g2os[o]]
        /\ base' = Without(base, o) /\ g2os' = Without(g2os, o)
      BY <2>1, <2>2, Zenon
  <2>4. PICK now \in Seq(Entry), more \in Seq(Entry) :
            now = applied[o] /\ more = g2os[o] /\ o \in Objects /\ base[o] \in Seq(Char)
      BY DEF TypeOK
  <2>5. Opes(now) \in Seq(Operation(Char)) /\ Opes(more) \in Seq(Operation(Char))
      BY OpesType
  <2>6. base[o] = files[o] /\ files[o] = EditAll(origin[o], Opes(now))
      BY <1>8, <2>4 DEF FilesInv, FilesAreEdited
  <2>7. ~ret.past => GetBufferFromSlices(ret.list) = EditAll(base[o], Opes(more))
      BY <2>3, <2>4, <2>5, CombiningEdits, Zenon
  <2>8. EditAll(EditAll(origin[o], Opes(now)), Opes(more)) = EditAll(origin[o], Opes(now \o more))
    <3> PICK text : text = origin[o]
        OBVIOUS
    <3>1. PICK a \in Seq(Operation(Char)), b \in Seq(Operation(Char)) :
              a = Opes(now) /\ b = Opes(more) /\ text = origin[o]
        BY <2>5
    <3>2. EditAll(text, a \o b) = EditAll(EditAll(text, a), b)
        BY EditAllConcat
    <3>3. Opes(now \o more) = a \o b
        BY <3>1, OpesConcat, Zenon
    <3> QED
        BY <3>1, <3>2, <3>3, Zenon
  <2>9. /\ applied'[o] = now \o more /\ \A x \in Objects : x # o => applied'[x] = applied[x]
        /\ ~ret.past => /\ files'[o] = GetBufferFromSlices(ret.list)
                        /\ \A x \in Objects : x # o => files'[x] = files[x]
      BY <2>3, <2>4 DEF TypeOK
  <2>10. ASSUME ~undefined', NEW x \in Objects
        PROVE  files'[x] = EditAll(origin[x], Opes(applied'[x]))
    <3>1. ~ret.past
        BY <2>3, <2>10
    <3>2. CASE x = o
        BY <2>6, <2>7, <2>8, <2>9, <3>1, <3>2, Zenon
    <3>3. CASE x # o
      <4>1. files[x] = EditAll(origin[x], Opes(applied[x]))
          BY <1>8 DEF FilesInv, FilesAreEdited
      <4> QED
          BY <2>9, <3>1, <3>3, <4>1, Zenon
    <3> QED
        BY <3>2, <3>3
  <2>11. FilesAreEdited'
      BY <2>10, Zenon DEF FilesAreEdited, Opes
  <2>12. ASSUME NEW x \in DOMAIN g2os' PROVE base'[x] = files'[x]
    <3>1. x \in DOMAIN g2os /\ x \in Objects /\ x # o /\ base'[x] = base[x]
        BY <2>3, <2>12 DEF Without, TypeOK
    <3>2. files'[x] = files[x]
        BY <2>3, <2>9, <3>1
    <3> QED
        BY <3>1, <3>2 DEF FilesInv
  <2> QED
      BY <2>11, <2>12 DEF FilesInv
<1>9. ASSUME NEW r \in Requests, Answer(r) PROVE FilesInv'
    BY <1>2, <1>9 DEF Answer, history, written
\* A torn file has no operations, and the others are as they were.
<1>10. ASSUME NEW S, NEW x \in DOMAIN g2os, Lost(S, x), undefined' = undefined
      PROVE  FilesAreEdited'
  <2>1. ASSUME ~undefined', NEW o \in Objects
        PROVE  files'[o] = EditAll(origin'[o], Opes(applied'[o]))
    <3>1. CASE files'[o] = files[o] /\ origin'[o] = origin[o] /\ applied'[o] = applied[o]
        BY <1>10, <2>1, <3>1 DEF FilesInv, FilesAreEdited
    <3>2. CASE files'[o] = origin'[o] /\ applied'[o] = <<>>
      <4>1. Opes(<<>>) = <<>>
          BY DEF Opes
      <4>2. PICK text : text = origin'[o]
          OBVIOUS
      <4>3. EditAll(text, <<>>) = text
          BY EditAllFew
      <4> QED
          BY <3>2, <4>1, <4>2, <4>3, Zenon
    <3> QED
        BY <1>10, <3>1, <3>2 DEF Lost
  <2> QED
      BY <2>1, Zenon DEF FilesAreEdited, Opes
<1>11. ASSUME NEW r \in Requests, Refuse(r) PROVE FilesInv'
    BY <1>2, <1>11 DEF Refuse, flush, history, written
<1>12. ASSUME NEW r \in Requests, WriteFails(r) PROVE FilesInv'
  <2>1. PICK x \in DOMAIN g2os : /\ Lost({x}, x)
                                /\ base' = Without(base, x) /\ g2os' = Without(g2os, x)
      BY <1>12, FailsLoses
  <2>2. FilesAreEdited'
      BY <1>10, <1>12, <2>1 DEF WriteFails
  <2>3. ASSUME NEW o \in DOMAIN g2os' PROVE base'[o] = files'[o]
    <3>1. o \in DOMAIN g2os /\ o \in Objects /\ o # x /\ base'[o] = base[o]
        BY <2>1, <2>3 DEF Without, TypeOK
    <3> QED
        BY <2>1, <3>1 DEF Lost, FilesInv
  <2> QED
      BY <2>2, <2>3 DEF FilesInv
<1>13. ASSUME NEW r \in Requests, WriteThrows(r) PROVE FilesInv'
  <2>1. PICK x \in DOMAIN g2os : Lost(DOMAIN g2os, x)
      BY <1>13, ThrowLoses
  <2>2. FilesAreEdited' /\ DOMAIN g2os' = {}
      BY <1>10, <1>13, <1>3, <2>1 DEF WriteThrows
  <2> QED
      BY <2>2 DEF FilesInv
<1>14. ASSUME CrashRestart PROVE FilesInv'
  <2>1. undefined' = undefined /\ DOMAIN g2os' = {}
      BY <1>3, <1>14 DEF CrashRestart
  <2>2. CASE UNCHANGED <<files, written>>
      BY <1>1, <2>1, <2>2 DEF written
  <2>3. ASSUME NEW x \in DOMAIN g2os, Lost({}, x) PROVE FilesInv'
      BY <1>10, <2>1, <2>3 DEF FilesInv
  <2> QED
      BY <1>14, <2>2, <2>3, CrashLoses
<1>15. CASE UNCHANGED vars
    BY <1>2, <1>15 DEF vars, flush, history, written
<1> QED
    BY <1>4, <1>5, <1>6, <1>7, <1>8, <1>9, <1>14, <1>15, <1>11, <1>12, <1>13 DEF Next, Handle

----------------------------------------------------------------------------
(* When the list of slices is left. *)

\* The operations of the first entries of a list are the first operations.
LEMMA OpesUpto ==
    ASSUME NEW s \in Seq(Entry), NEW k \in 0..Len(s)
    PROVE  Opes(Upto(s, k)) = Upto(Opes(s), k)
<1>1. /\ Upto(s, k) \in Seq(Entry) /\ Len(Upto(s, k)) = k
      /\ \A i \in 1..k : Upto(s, k)[i] = s[i]
    BY CutType
<1>2. PICK a \in Seq(Operation(Char)), b \in Seq(Operation(Char)) :
         a = Opes(s) /\ Len(a) = Len(s) /\ b = Opes(Upto(s, k)) /\ Len(b) = k
    BY <1>1, OpesType
<1>3. k \in 0..Len(a) /\ k \in Nat /\ \A i \in 1..k : i \in 1..Len(s)
    BY <1>2, LenProperties
<1>4. /\ Upto(a, k) \in Seq(Operation(Char)) /\ Len(Upto(a, k)) = k
      /\ \A i \in 1..k : Upto(a, k)[i] = a[i]
    BY <1>3, CutType
<1>5. /\ \A i \in 1..Len(s) : a[i] = s[i].ope
      /\ \A i \in 1..k : b[i] = Upto(s, k)[i].ope
  <2>1. DOMAIN s = 1..Len(s) /\ DOMAIN Upto(s, k) = 1..k
      BY <1>1, LenProperties
  <2> QED
      BY <1>2, <2>1 DEF Opes
<1>6. \A i \in 1..k : b[i] = Upto(a, k)[i]
    BY <1>1, <1>3, <1>4, <1>5
<1>7. b = Upto(a, k)
    BY <1>2, <1>4, <1>6, SeqEqual
<1> QED
    BY <1>2, <1>7, Zenon

\* Entry i of the entries that a flush writes meets what the flush's operations
\* before it make of the file.
LEMMA MetBy ==
    ASSUME NEW now \in Seq(Entry), NEW more \in Seq(Entry), NEW i \in 1..Len(more), NEW text
    PROVE  /\ Len(now) + i \in DOMAIN (now \o more) /\ (now \o more)[Len(now) + i] = more[i]
           /\ EditAll(text, Opes(SubSeq(now \o more, 1, (Len(now) + i) - 1)))
                = EditAll(EditAll(text, Opes(now)), SubSeq(Opes(more), 1, i - 1))
<1>1. PICK m \in Nat, n \in Nat : m = Len(now) /\ n = Len(more)
    BY LenProperties
<1>2. PICK all \in Seq(Entry) : all = now \o more
    BY ConcatProperties
<1>3. m + i \in DOMAIN all /\ all[m + i] = more[i]
  <2>1. /\ DOMAIN all = 1..(m + n)
        /\ \A j \in 1..(m + n) : all[j] = IF j <= m THEN now[j] ELSE more[j - m]
      BY <1>1, <1>2, ConcatProperties, LenProperties
  <2>2. m + i \in 1..(m + n) /\ ~(m + i <= m) /\ (m + i) - m = i
      BY <1>1
  <2> QED
      BY <2>1, <2>2
<1>4. PICK k \in 0..Len(more) : k = i - 1 /\ (m + i) - 1 = m + k
    BY <1>1
<1>5. PICK few \in Seq(Entry) : few = Upto(more, k)
    BY CutType
<1>6. Upto(all, m + k) = now \o few
  <2>1. Upto(now \o more, Len(now) + k) = now \o Upto(more, k)
      BY CutSecond
  <2> QED
      BY <1>1, <1>2, <1>5, <2>1, Zenon
<1>7. PICK a \in Seq(Operation(Char)), b \in Seq(Operation(Char)) : a = Opes(now) /\ b = Opes(few)
    BY OpesType
<1>8. Opes(now \o few) = a \o b
    BY <1>7, OpesConcat, Zenon
<1>9. b = SubSeq(Opes(more), 1, i - 1)
    BY <1>4, <1>5, <1>7, OpesUpto, Zenon DEF Upto
<1>10. EditAll(text, a \o b) = EditAll(EditAll(text, a), b)
    BY EditAllConcat
<1>11. SubSeq(all, 1, (m + i) - 1) = now \o few
    BY <1>4, <1>6, Zenon DEF Upto
<1>12. EditAll(text, Opes(SubSeq(all, 1, (m + i) - 1))) = EditAll(EditAll(text, a), b)
    BY <1>8, <1>10, <1>11, Zenon
<1> QED
    BY <1>1, <1>2, <1>3, <1>7, <1>9, <1>12, Zenon

\* What leaves the list is an operation of the object that is written.
LEMMA WriteLeaves ==
    ASSUME TypeOK, FilesInv, ~undefined, NEW r \in Requests, WriteObject(r), undefined'
    PROVE  \E o \in Objects : \E i \in DOMAIN applied'[o] : (Breaks(o, i) \/ EndsAtEnd(o, i))'
<1>1. PICK o \in DOMAIN g2os :
         /\ undefined' = Combined(base[o], Opes(g2os[o])).past
         /\ applied' = [applied EXCEPT ![o] = @ \o g2os[o]] /\ origin' = origin
    BY DEF WriteObject, Result, Combined
<1>2. PICK now \in Seq(Entry), more \in Seq(Entry), text \in Seq(Char) :
         now = applied[o] /\ more = g2os[o] /\ text = base[o] /\ o \in Objects
    BY DEF TypeOK
<1>3. text = EditAll(origin[o], Opes(now))
    BY <1>2 DEF FilesInv, FilesAreEdited
<1>4. PICK opes \in Seq(Operation(Char)) : opes = Opes(more) /\ Len(opes) = Len(more)
    BY OpesType
<1>5. PICK i \in 1..Len(more) : Leaves(text, opes, i)
  <2>1. Combined(text, opes).past
      BY <1>1, <1>2, <1>4
  <2>2. PICK n \in Nat : n = Len(opes)
      BY LenProperties
  <2>3. \E i \in 1..n : Leaves(text, opes, i)
      BY <2>1, <2>2, CombinedLeaves
  <2> QED
      BY <1>4, <2>2, <2>3
<1>6. PICK all \in Seq(Entry) : all = now \o more
    BY ConcatProperties
<1> PICK first, j : first = origin[o] /\ j = Len(now) + i
    OBVIOUS
<1>7. /\ j \in DOMAIN all /\ all[j] = more[i]
      /\ EditAll(origin[o], Opes(SubSeq(all, 1, j - 1)))
            = EditAll(EditAll(origin[o], Opes(now)), SubSeq(Opes(more), 1, i - 1))
  <2>1. /\ Len(now) + i \in DOMAIN (now \o more) /\ (now \o more)[Len(now) + i] = more[i]
        /\ EditAll(first, Opes(SubSeq(now \o more, 1, (Len(now) + i) - 1)))
             = EditAll(EditAll(first, Opes(now)), SubSeq(Opes(more), 1, i - 1))
      BY MetBy
  <2> QED
      BY <1>6, <2>1, Zenon
<1>8. opes[i] = more[i].ope
  <2>1. i \in DOMAIN more
      BY LenProperties
  <2> QED
      BY <1>4, <2>1 DEF Opes
<1>9. PICK met : met = EditAll(text, SubSeq(opes, 1, i - 1))
    OBVIOUS
<1>10. EditAll(origin[o], Opes(SubSeq(all, 1, j - 1))) = met
    BY <1>3, <1>4, <1>7, <1>9, Zenon
<1>11. ~Admissible(met, all[j].ope) \/ AtEnd(met, all[j].ope)
    BY <1>5, <1>7, <1>8, <1>9, Zenon DEF Leaves
<1>12. applied'[o] = all
    BY <1>1, <1>2, <1>6 DEF TypeOK
<1>13. Before(o, j)' = met
    BY <1>1, <1>10, <1>12, Zenon DEF Before
<1>14. Breaks(o, j)' \/ EndsAtEnd(o, j)'
    BY <1>11, <1>12, <1>13, Zenon DEF Breaks, EndsAtEnd, AtEnd
<1> QED
    BY <1>2, <1>7, <1>12, <1>14

----------------------------------------------------------------------------
(* Theorems. *)

JournalInv == TypeOK /\ FlushInv /\ OrderInv

\* JournalInv holds in every state of every behaviour.
THEOREM JournalInvariant == Spec => []JournalInv
<1>1. Init => JournalInv
  <2>1. ASSUME Init PROVE OrderInv
    <3>1. DOMAIN (<<>> \o <<>>) = {} /\ DOMAIN Empty = {}
      <4>1. <<>> \o <<>> = <<>>
          BY ConcatEmptySeq, EmptySeq
      <4> QED
          BY <4>1 DEF Empty
    <3>2. \A o \in Objects : applied[o] \o Taken(o) = <<>> \o <<>>
        BY <2>1, <3>1 DEF Init, Taken
    <3> QED
        BY <3>1, <3>2 DEF OrderInv, InOrder
  <2> QED
      BY <2>1, InitFlush DEF JournalInv
<1>2. JournalInv /\ [Next]_vars => JournalInv'
    BY TypeStep, FlushStep, OrderStep DEF JournalInv
<1> QED
    BY <1>1, <1>2, PTL DEF Spec

\* Type correctness of the journal, the flush and the handlers.
THEOREM JournalTypeCorrect == Spec => []TypeOK
<1>1. JournalInv => TypeOK
    BY DEF JournalInv
<1> QED
    BY <1>1, JournalInvariant, PTL

\* The operations of an object are written in the order in which they were
\* added, none of them twice, whoever flushes them and whatever is lost.
THEOREM AlwaysAppliedInOrder == Spec => []AppliedInOrder
<1>1. ASSUME JournalInv PROVE AppliedInOrder
  <2>1. ASSUME NEW o \in Objects, NEW i \in DOMAIN applied[o], NEW j \in DOMAIN applied[o], i < j
        PROVE  \E k, l \in DOMAIN added : k < l /\ added[k] = applied[o][i] /\ added[l] = applied[o][j]
    <3>1. Past \in 0..Len(added) /\ Len(added) \in Nat /\ DOMAIN added = 1..Len(added)
        BY <1>1, PastBound, LenProperties DEF JournalInv, TypeOK
    <3>2. InOrder(added, applied[o], Past)
        BY <1>1, <3>1, OrderKept DEF JournalInv
    <3>3. PICK k \in 1..Past, l \in 1..Past :
              k < l /\ added[k] = applied[o][i] /\ added[l] = applied[o][j]
        BY <2>1, <3>2 DEF InOrder
    <3>4. k \in DOMAIN added /\ l \in DOMAIN added
        BY <3>1
    <3> QED
        BY <3>3, <3>4
  <2> QED
      BY <2>1 DEF AppliedInOrder
<1> QED
    BY <1>1, JournalInvariant, PTL

\* What is answered "success" is in the object's file, or was lost to a write that
\* failed (dropped says which), when no operation is added while a flush is in its
\* loop.  The code ensures neither: Write's result is not looked at, and the two
\* mutexes do not exclude each other.  With Racing the theorem is false.
THEOREM AnsweredAlwaysFlushed ==
    ASSUME ~Racing
    PROVE  Spec => []AnsweredIsFlushed
<1>1. Init => AnswerInv
    BY InitAnswer
<1>2. JournalInv /\ AnswerInv /\ [Next]_vars => AnswerInv'
    BY AnswerStep DEF JournalInv
<1>3. AnswerInv => AnsweredIsFlushed
    BY DEF AnswerInv, AnsweredIsFlushed, Written
<1> QED
    BY <1>1, <1>2, <1>3, JournalInvariant, PTL DEF Spec

\* A file is what the operations written to it make of its text, at the start or
\* since it was last torn, whatever was combined with what and however many
\* flushes, failed writes and crashes came between.
THEOREM FilesAlwaysEdited == Spec => []FilesAreEdited
<1>1. Init => FilesInv
    BY InitFiles
<1>2. JournalInv /\ FilesInv /\ [Next]_vars => FilesInv'
    BY FilesStep DEF JournalInv
<1>3. FilesInv => FilesAreEdited
    BY DEF FilesInv
<1> QED
    BY <1>1, <1>2, <1>3, JournalInvariant, PTL DEF Spec

\* The list of slices is left only by an operation that breaks its contract, or
\* by a Delete that ends where the text ends, when no operation is added while
\* a flush is in its loop.
THEOREM OnlyEndsAlwaysLeave ==
    ASSUME ~Racing
    PROVE  Spec => []OnlyEndsLeaveTheList
<1>1. Init => FilesInv /\ OnlyEndsLeaveTheList
    BY InitFiles DEF Init, OnlyEndsLeaveTheList
<1>2. JournalInv /\ FilesInv /\ OnlyEndsLeaveTheList /\ [Next]_vars
        => FilesInv' /\ OnlyEndsLeaveTheList'
  <2>1. SUFFICES ASSUME JournalInv, FilesInv, OnlyEndsLeaveTheList, [Next]_vars
                 PROVE  FilesInv' /\ OnlyEndsLeaveTheList'
      OBVIOUS
  <2>2. FilesInv'
      BY <2>1, FilesStep DEF JournalInv
  <2>3. CASE ~undefined'
      BY <2>2, <2>3 DEF OnlyEndsLeaveTheList
  <2>4. CASE undefined' /\ ~undefined
    <3>1. PICK r \in Requests : WriteObject(r)
        BY <2>1, <2>4 DEF JournalInv, TypeOK, Next, Handle, Add, Refuse, Lock, Gather, Clear,
                          WriteFails, WriteThrows, Answer, CrashRestart, vars
    <3>2. \E o \in Objects : \E i \in DOMAIN applied'[o] : (Breaks(o, i) \/ EndsAtEnd(o, i))'
        BY <2>1, <2>4, <3>1, WriteLeaves DEF JournalInv
    <3> QED
        BY <2>2, <3>2 DEF OnlyEndsLeaveTheList
  <2>5. CASE undefined
    <3>1. applied' = applied /\ origin' = origin
        BY <2>1, <2>5 DEF Next, CrashRestart, vars, history, written
    <3>2. PICK o \in Objects : \E i \in DOMAIN applied[o] : Breaks(o, i) \/ EndsAtEnd(o, i)
        BY <2>1, <2>5 DEF OnlyEndsLeaveTheList
    <3>3. PICK i \in DOMAIN applied[o] : Breaks(o, i) \/ EndsAtEnd(o, i)
        BY <3>2
    <3>4. (Breaks(o, i) \/ EndsAtEnd(o, i))'
        BY <3>1, <3>3 DEF Breaks, EndsAtEnd, Before
    <3> QED
        BY <2>2, <3>1, <3>4 DEF OnlyEndsLeaveTheList
  <2> QED
      BY <2>2, <2>3, <2>4, <2>5
<1> QED
    BY <1>1, <1>2, JournalInvariant, PTL DEF Spec
=============================================================================
