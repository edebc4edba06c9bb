----------------------------- MODULE ListLemmas -----------------------------
(***************************************************************************)
(* What inserting into, removing from and replacing in a list returns, and *)
(* induction over the natural numbers.                                     *)
(***************************************************************************)
EXTENDS Naturals, Sequences, SequencesExt, SequenceTheorems, FiniteSetTheorems,
        WellFoundedInduction, TLAPS

\* Induction, for the set of the numbers that have the property: a smallest
\* number without it has a predecessor with it.
LEMMA NatSetInduction ==
    ASSUME NEW S, 0 \in S, \A n \in Nat : n \in S => n + 1 \in S
    PROVE  Nat \subseteq S
<1> DEFINE R == OpToRel(<, Nat)
           T == Nat \ S
<1>1. \A x, y \in Nat : x < y => <<x, y>> \in R
    BY DEF OpToRel
<1>2. IsWellFoundedOn(R, Nat)
    BY NatLessThanWellFounded, Zenon
<1> HIDE DEF R
<1> SUFFICES ASSUME T # {} PROVE FALSE
    OBVIOUS
<1>3. PICK x \in T : \A y \in T : <<y, x>> \notin R
    BY <1>2, WFMin
<1>4. x \in Nat /\ x # 0 /\ x - 1 \in Nat /\ x - 1 < x /\ x = (x - 1) + 1
    OBVIOUS
<1>5. x - 1 \in S
    BY <1>1, <1>3, <1>4
<1> QED
    BY <1>3, <1>4, <1>5

\* A set of numbers has a smallest one.
LEMMA Least ==
    ASSUME NEW S, S \subseteq Nat, S # {}
    PROVE  \E x \in S : \A y \in S : x <= y
<1> DEFINE R == OpToRel(<, Nat)
<1>1. \A x, y \in Nat : x < y => <<x, y>> \in R
    BY DEF OpToRel
<1>2. IsWellFoundedOn(R, Nat)
    BY NatLessThanWellFounded, Zenon
<1> HIDE DEF R
<1>3. PICK x \in S : \A y \in S : <<y, x>> \notin R
    BY <1>2, WFMin
<1>4. \A y \in S : ~(y < x)
    BY <1>1, <1>3
<1> QED
    BY <1>3, <1>4

\* A list after an element was appended.
LEMMA AppendIndices ==
    ASSUME NEW S, NEW s \in Seq(S), NEW e \in S
    PROVE  /\ DOMAIN Append(s, e) = DOMAIN s \cup {Len(s) + 1}
           /\ Len(s) + 1 \notin DOMAIN s
           /\ \A i \in DOMAIN s : Append(s, e)[i] = s[i]
           /\ Append(s, e)[Len(s) + 1] = e
<1>1. /\ DOMAIN s = 1..Len(s) /\ Len(s) \in Nat
      /\ DOMAIN Append(s, e) = 1..Len(Append(s, e))
      /\ Len(Append(s, e)) = Len(s) + 1
    BY AppendProperties, LenProperties
<1>2. /\ \A i \in 1..Len(s) : Append(s, e)[i] = s[i]
      /\ Append(s, e)[Len(s) + 1] = e
    BY AppendProperties
<1>3. 1..(Len(s) + 1) = (1..Len(s)) \cup {Len(s) + 1} /\ Len(s) + 1 \notin 1..Len(s)
    BY <1>1
<1> QED
    BY <1>1, <1>2, <1>3

\* A list after its first element was taken.
LEMMA TailIndices ==
    ASSUME NEW S, NEW s \in Seq(S), s # <<>>
    PROVE  /\ 1 \in DOMAIN s /\ Head(s) = s[1]
           /\ \A i \in DOMAIN Tail(s) : i + 1 \in DOMAIN s /\ Tail(s)[i] = s[i + 1] /\ i \in Nat
<1>1. /\ DOMAIN s = 1..Len(s) /\ Len(s) \in Nat \ {0}
      /\ DOMAIN Tail(s) = 1..Len(Tail(s))
      /\ Len(Tail(s)) = Len(s) - 1
      /\ \A i \in 1..Len(Tail(s)) : Tail(s)[i] = s[i + 1]
    BY HeadTailProperties, LenProperties, EmptySeq
<1>2. Head(s) = s[1]
    BY <1>1
<1> QED
    BY <1>1, <1>2

\* An element of a concatenation is an element of one of the two.
LEMMA ConcatIndices ==
    ASSUME NEW S, NEW s \in Seq(S), NEW t \in Seq(S), NEW i \in DOMAIN (s \o t)
    PROVE  /\ i \in DOMAIN s => (s \o t)[i] = s[i]
           /\ i \notin DOMAIN s => i - Len(s) \in DOMAIN t /\ (s \o t)[i] = t[i - Len(s)]
           /\ i \in Nat /\ Len(s) \in Nat
<1>1. /\ DOMAIN s = 1..Len(s) /\ Len(s) \in Nat
      /\ DOMAIN t = 1..Len(t) /\ Len(t) \in Nat
      /\ DOMAIN (s \o t) = 1..Len(s \o t)
      /\ Len(s \o t) = Len(s) + Len(t)
    BY ConcatProperties, LenProperties
<1>2. \A j \in 1..(Len(s) + Len(t)) :
         (s \o t)[j] = IF j <= Len(s) THEN s[j] ELSE t[j - Len(s)]
    BY ConcatProperties
<1>3. i \in 1..(Len(s) + Len(t))
    BY <1>1
<1>4. (s \o t)[i] = IF i <= Len(s) THEN s[i] ELSE t[i - Len(s)]
    BY <1>2, <1>3
<1>5. i \notin DOMAIN s => ~(i <= Len(s)) /\ i - Len(s) \in 1..Len(t)
    BY <1>1, <1>3
<1> QED
    BY <1>1, <1>3, <1>4, <1>5

\* The two parts an edit at position n leaves alone: what is before n, and what
\* is from m on.
LEMMA Parts ==
    ASSUME NEW S, NEW s \in Seq(S), NEW n \in 1..(Len(s) + 1), NEW m \in 1..(Len(s) + 1)
    PROVE  /\ SubSeq(s, 1, n - 1) \in Seq(S) /\ Len(SubSeq(s, 1, n - 1)) = n - 1
           /\ \A i \in 1..(n - 1) : SubSeq(s, 1, n - 1)[i] = s[i]
           /\ SubSeq(s, m, Len(s)) \in Seq(S) /\ Len(SubSeq(s, m, Len(s))) = Len(s) - m + 1
           /\ \A i \in 1..(Len(s) - m + 1) : SubSeq(s, m, Len(s))[i] = s[m + i - 1]
<1>1. Len(s) \in Nat /\ n \in Int /\ m \in Int /\ \A i \in 1..Len(s) : s[i] \in S
    BY LenProperties, ElementOfSeq
<1>2. /\ SubSeq(s, 1, n - 1) \in Seq(S) /\ Len(SubSeq(s, 1, n - 1)) = n - 1
      /\ \A i \in 1..(n - 1) : SubSeq(s, 1, n - 1)[i] = s[i]
  <2>1. \A i \in 1..(n - 1) : s[i] \in S
      BY <1>1
  <2>2. n - 1 \in Int /\ n - 1 >= 0
      BY <1>1
  <2> QED
      BY <2>1, <2>2, <1>1, SubSeqProperties, Z3
<1>3. /\ SubSeq(s, m, Len(s)) \in Seq(S) /\ Len(SubSeq(s, m, Len(s))) = Len(s) - m + 1
      /\ \A i \in 1..(Len(s) - m + 1) : SubSeq(s, m, Len(s))[i] = s[m + i - 1]
  <2>1. \A i \in m..Len(s) : s[i] \in S
      BY <1>1
  <2> QED
      BY <2>1, <1>1, SubSeqProperties, Z3
<1> QED
    BY <1>2, <1>3

\* A list after an insertion.
LEMMA InsertAtIndices ==
    ASSUME NEW S, NEW s \in Seq(S), NEW n \in 1..(Len(s) + 1), NEW e \in S
    PROVE  /\ InsertAt(s, n, e) \in Seq(S) /\ Len(InsertAt(s, n, e)) = Len(s) + 1
           /\ \A i \in 1..(Len(s) + 1) :
                 InsertAt(s, n, e)[i] = IF i < n THEN s[i] ELSE IF i = n THEN e ELSE s[i - 1]
<1> DEFINE a == SubSeq(s, 1, n - 1)
           b == SubSeq(s, n, Len(s))
           c == a \o <<e>>
           r == c \o b
<1>1. Len(s) \in Nat /\ n \in Int
    BY LenProperties
<1>2. /\ a \in Seq(S) /\ Len(a) = n - 1 /\ \A i \in 1..(n - 1) : a[i] = s[i]
      /\ b \in Seq(S) /\ Len(b) = Len(s) - n + 1
      /\ \A i \in 1..(Len(s) - n + 1) : b[i] = s[n + i - 1]
    BY Parts
<1>3. <<e>> \in Seq(S) /\ Len(<<e>>) = 1 /\ <<e>>[1] = e
    OBVIOUS
<1> HIDE DEF a, b
<1>4. /\ c \in Seq(S) /\ Len(c) = n
      /\ \A i \in 1..n : c[i] = IF i <= n - 1 THEN a[i] ELSE e
  <2>1. /\ c \in Seq(S) /\ Len(c) = Len(a) + Len(<<e>>)
        /\ \A i \in 1..(Len(a) + Len(<<e>>)) :
              c[i] = IF i <= Len(a) THEN a[i] ELSE <<e>>[i - Len(a)]
      BY <1>2, <1>3, ConcatProperties, Zenon
  <2> QED
      BY <2>1, <1>1, <1>2, <1>3
<1> HIDE DEF c
<1>5. /\ r \in Seq(S) /\ Len(r) = Len(c) + Len(b)
      /\ \A i \in 1..(Len(c) + Len(b)) : r[i] = IF i <= Len(c) THEN c[i] ELSE b[i - Len(c)]
    BY <1>2, <1>4, ConcatProperties, Zenon
<1>6. InsertAt(s, n, e) = r
    BY Zenon DEF InsertAt, a, b, c
<1> HIDE DEF r
<1>7. Len(r) = Len(s) + 1
    BY <1>1, <1>2, <1>4, <1>5
<1>8. ASSUME NEW i \in 1..(Len(s) + 1)
      PROVE  r[i] = IF i < n THEN s[i] ELSE IF i = n THEN e ELSE s[i - 1]
  <2>1. CASE i <= n
      BY <2>1, <1>1, <1>2, <1>4, <1>5
  <2>2. CASE i > n
    <3>0. i \in 1..(Len(c) + Len(b)) /\ ~(i <= Len(c)) /\ i - Len(c) = i - n
        BY <2>2, <1>1, <1>2, <1>4
    <3>4. r[i] = b[i - n]
        BY <3>0, <1>5
    <3>1. i - n \in 1..(Len(s) - n + 1) /\ r[i] = b[i - n]
        BY <3>4, <2>2, <1>1
    <3>2. r[i] = s[n + (i - n) - 1]
        BY <3>1, <1>2
    <3>3. n + (i - n) - 1 = i - 1
        BY <1>1
    <3> QED
        BY <2>2, <3>2, <3>3, <1>1
  <2> QED
      BY <2>1, <2>2, <1>1
<1> QED
    BY <1>5, <1>6, <1>7, <1>8

\* The end of a list from one of its elements on.
LEMMA FirstApart ==
    ASSUME NEW S, NEW s \in Seq(S), NEW n \in 1..Len(s)
    PROVE  SubSeq(s, n, Len(s)) = <<s[n]>> \o SubSeq(s, n + 1, Len(s))
<1>1. PICK m \in n..Len(s) : m = Len(s)
    BY LenProperties
<1>2. SubSeq(s, n, m) = <<s[n]>> \o SubSeq(s, n + 1, m)
    BY SubSeqRecursiveFirst
<1> QED
    BY <1>1, <1>2

\* A list after a removal.
LEMMA RemoveAtIndices ==
    ASSUME NEW S, NEW s \in Seq(S), NEW n \in 1..Len(s)
    PROVE  /\ RemoveAt(s, n) \in Seq(S) /\ Len(RemoveAt(s, n)) = Len(s) - 1
           /\ \A i \in 1..(Len(s) - 1) :
                 RemoveAt(s, n)[i] = IF i < n THEN s[i] ELSE s[i + 1]
<1>1. Len(s) \in Nat /\ n \in Int
  <2>1. Len(s) \in Nat
      BY LenProperties, Zenon
  <2> QED
      BY <2>1
<1> DEFINE a == SubSeq(s, 1, n - 1)
           b == SubSeq(s, n + 1, Len(s))
           r == a \o b
<1>2. /\ a \in Seq(S) /\ Len(a) = n - 1 /\ \A i \in 1..(n - 1) : a[i] = s[i]
      /\ b \in Seq(S) /\ Len(b) = Len(s) - n
      /\ \A i \in 1..(Len(s) - n) : b[i] = s[n + i]
  <2> DEFINE m == n + 1
  <2>1. n \in 1..(Len(s) + 1) /\ m \in 1..(Len(s) + 1)
      BY <1>1
  <2> HIDE DEF m
  <2>2. /\ SubSeq(s, m, Len(s)) \in Seq(S) /\ Len(SubSeq(s, m, Len(s))) = Len(s) - m + 1
        /\ \A i \in 1..(Len(s) - m + 1) : SubSeq(s, m, Len(s))[i] = s[m + i - 1]
        /\ a \in Seq(S) /\ Len(a) = n - 1 /\ \A i \in 1..(n - 1) : a[i] = s[i]
      BY <2>1, Parts
  <2>3. /\ m = n + 1 /\ b = SubSeq(s, m, Len(s))
        /\ \A i \in Int : m + i - 1 = n + i
      BY <1>1 DEF m
  <2> HIDE DEF a, b
  <2>4. Len(s) - m + 1 = Len(s) - n
      BY <2>3, <1>1
  <2>5. ASSUME NEW i \in 1..(Len(s) - n) PROVE b[i] = s[n + i]
    <3>1. b[i] = s[m + i - 1]
        BY <2>2, <2>3, <2>4, Zenon
    <3>2. m + i - 1 = n + i
        BY <2>3
    <3> QED
        BY <3>1, <3>2
  <2> QED
      BY <2>2, <2>3, <2>4, <2>5, Zenon
<1> HIDE DEF a, b
<1>3. /\ r \in Seq(S) /\ Len(r) = Len(a) + Len(b)
      /\ \A i \in 1..(Len(a) + Len(b)) : r[i] = IF i <= Len(a) THEN a[i] ELSE b[i - Len(a)]
    BY <1>2, ConcatProperties, Zenon
<1>4. RemoveAt(s, n) = r
    BY Zenon DEF RemoveAt, a, b
<1> HIDE DEF r
<1>5. Len(r) = Len(s) - 1
    BY <1>1, <1>2, <1>3
<1>6. ASSUME NEW i \in 1..(Len(s) - 1)
      PROVE  r[i] = IF i < n THEN s[i] ELSE s[i + 1]
  <2>1. CASE i < n
    <3>1. i \in 1..(Len(a) + Len(b)) /\ i <= Len(a) /\ i \in 1..(n - 1)
        BY <2>1, <1>1, <1>2
    <3> QED
        BY <2>1, <3>1, <1>2, <1>3
  <2>2. CASE i >= n
    <3>1. i - (n - 1) \in 1..(Len(s) - n) /\ r[i] = b[i - (n - 1)]
      <4>1. /\ i \in 1..((n - 1) + (Len(s) - n)) /\ ~(i <= n - 1)
            /\ i - (n - 1) \in 1..(Len(s) - n)
          BY <2>2, <1>1
      <4>2. i \in 1..(Len(a) + Len(b)) /\ ~(i <= Len(a)) /\ i - Len(a) = i - (n - 1)
          BY <4>1, <1>2
      <4> QED
          BY <4>1, <4>2, <1>3
    <3>2. r[i] = s[n + (i - (n - 1))]
        BY <3>1, <1>2
    <3>3. n + (i - (n - 1)) = i + 1
        BY <1>1
    <3> QED
        BY <2>2, <3>2, <3>3, <1>1
  <2> QED
      BY <2>1, <2>2, <1>1
<1> QED
    BY <1>3, <1>4, <1>5, <1>6

\* A list after a replacement.
LEMMA ReplaceAtIndices ==
    ASSUME NEW S, NEW s \in Seq(S), NEW n \in 1..Len(s), NEW e \in S
    PROVE  /\ ReplaceAt(s, n, e) \in Seq(S) /\ Len(ReplaceAt(s, n, e)) = Len(s)
           /\ \A i \in 1..Len(s) : ReplaceAt(s, n, e)[i] = IF i = n THEN e ELSE s[i]
<1>1. /\ [s EXCEPT ![n] = e] \in Seq(S) /\ Len([s EXCEPT ![n] = e]) = Len(s)
      /\ \A j \in 1..Len(s) : [s EXCEPT ![n] = e][j] = IF j = n THEN e ELSE s[j]
    BY ExceptSeq
<1> QED
    BY <1>1, Zenon DEF ReplaceAt

\* The elements of a list after an insertion are the old ones and the new one.
LEMMA InsertAtElements ==
    ASSUME NEW S, NEW s \in Seq(S), NEW n \in 1..(Len(s) + 1), NEW e \in S
    PROVE  /\ InsertAt(s, n, e) \in Seq(S)
           /\ \A i \in DOMAIN InsertAt(s, n, e) :
                 \/ InsertAt(s, n, e)[i] = e
                 \/ \E j \in DOMAIN s : InsertAt(s, n, e)[i] = s[j]
<1>0. PICK r : r = InsertAt(s, n, e)
    OBVIOUS
<1>1. /\ r \in Seq(S) /\ Len(r) = Len(s) + 1
      /\ \A i \in 1..(Len(s) + 1) : r[i] = IF i < n THEN s[i] ELSE IF i = n THEN e ELSE s[i - 1]
  <2>1. /\ InsertAt(s, n, e) \in Seq(S) /\ Len(InsertAt(s, n, e)) = Len(s) + 1
        /\ \A i \in 1..(Len(s) + 1) :
              InsertAt(s, n, e)[i] = IF i < n THEN s[i] ELSE IF i = n THEN e ELSE s[i - 1]
      BY InsertAtIndices
  <2> QED
      BY <1>0, <2>1
<1>2. Len(s) \in Nat /\ n \in Int /\ DOMAIN s = 1..Len(s) /\ DOMAIN r = 1..(Len(s) + 1)
    BY <1>1, LenProperties
<1>3. ASSUME NEW i \in DOMAIN r PROVE r[i] = e \/ \E j \in DOMAIN s : r[i] = s[j]
  <2>1. CASE i < n
      BY <2>1, <1>1, <1>2
  <2>2. CASE i > n
    <3>1. i - 1 \in DOMAIN s /\ r[i] = s[i - 1]
        BY <2>2, <1>1, <1>2
    <3> QED
        BY <3>1
  <2> QED
      BY <2>1, <2>2, <1>1, <1>2
<1> QED
    BY <1>0, <1>1, <1>3

\* The elements of a list after a removal are old ones.
LEMMA RemoveAtElements ==
    ASSUME NEW S, NEW s \in Seq(S), NEW n \in 1..Len(s)
    PROVE  /\ RemoveAt(s, n) \in Seq(S)
           /\ \A i \in DOMAIN RemoveAt(s, n) :
                 \E j \in DOMAIN s : RemoveAt(s, n)[i] = s[j]
<1> DEFINE r == RemoveAt(s, n)
<1>1. /\ r \in Seq(S) /\ Len(r) = Len(s) - 1
      /\ \A i \in 1..(Len(s) - 1) : r[i] = IF i < n THEN s[i] ELSE s[i + 1]
    BY RemoveAtIndices, Zenon
<1> HIDE DEF r
<1>2. Len(s) \in Nat /\ n \in Int /\ DOMAIN s = 1..Len(s) /\ DOMAIN r = 1..(Len(s) - 1)
    BY <1>1, LenProperties
<1>3. ASSUME NEW i \in DOMAIN r PROVE \E j \in DOMAIN s : r[i] = s[j]
  <2>1. i \in DOMAIN s /\ i + 1 \in DOMAIN s
      BY <1>2
  <2> QED
      BY <2>1, <1>1, <1>2
<1> QED
    BY <1>1, <1>3 DEF r

\* The elements of a list after a replacement are old ones and the new one.
LEMMA ReplaceAtElements ==
    ASSUME NEW S, NEW s \in Seq(S), NEW n \in 1..Len(s), NEW e \in S
    PROVE  /\ ReplaceAt(s, n, e) \in Seq(S)
           /\ \A i \in DOMAIN ReplaceAt(s, n, e) :
                 \/ ReplaceAt(s, n, e)[i] = e
                 \/ \E j \in DOMAIN s : ReplaceAt(s, n, e)[i] = s[j]
<1> DEFINE r == ReplaceAt(s, n, e)
<1>1. /\ r \in Seq(S) /\ Len(r) = Len(s)
      /\ \A i \in 1..Len(s) : r[i] = IF i = n THEN e ELSE s[i]
    BY ReplaceAtIndices
<1> HIDE DEF r
<1>2. DOMAIN s = 1..Len(s) /\ DOMAIN r = 1..Len(s)
    BY <1>1, LenProperties
<1> QED
    BY <1>1, <1>2 DEF r

\* x is in the list at most once.
Once(list, x) == \A i, j \in DOMAIN list : list[i] = x /\ list[j] = x => i = j

\* Edits keep what is in a list once, and a new element enters it once.
LEMMA InsertAtOnce ==
    ASSUME NEW S, NEW s \in Seq(S), NEW n \in 1..(Len(s) + 1), NEW e \in S, NEW x,
           IF x = e THEN \A j \in DOMAIN s : s[j] # e ELSE Once(s, x)
    PROVE  Once(InsertAt(s, n, e), x)
<1>0. PICK r : r = InsertAt(s, n, e)
    OBVIOUS
<1>1. /\ r \in Seq(S) /\ Len(r) = Len(s) + 1
      /\ \A i \in 1..(Len(s) + 1) : r[i] = IF i < n THEN s[i] ELSE IF i = n THEN e ELSE s[i - 1]
  <2>1. /\ InsertAt(s, n, e) \in Seq(S) /\ Len(InsertAt(s, n, e)) = Len(s) + 1
        /\ \A i \in 1..(Len(s) + 1) :
              InsertAt(s, n, e)[i] = IF i < n THEN s[i] ELSE IF i = n THEN e ELSE s[i - 1]
      BY InsertAtIndices
  <2> QED
      BY <1>0, <2>1
<1>2. Len(s) \in Nat /\ n \in Int /\ DOMAIN s = 1..Len(s) /\ DOMAIN r = 1..(Len(s) + 1)
    BY <1>1, LenProperties
<1>3. ASSUME NEW i \in DOMAIN r, NEW j \in DOMAIN r, r[i] = x, r[j] = x, i < j PROVE FALSE
  <2>1. CASE j < n
      BY <2>1, <1>1, <1>2, <1>3 DEF Once
  <2>2. CASE j = n
      BY <2>2, <1>1, <1>2, <1>3
  <2>3. CASE i = n
    <3>1. j - 1 \in DOMAIN s /\ r[j] = s[j - 1] /\ r[i] = e
        BY <2>3, <1>1, <1>2, <1>3
    <3> QED
        BY <3>1, <1>3
  <2>4. CASE i < n /\ j > n
    <3>1. j - 1 \in DOMAIN s /\ r[j] = s[j - 1] /\ i \in DOMAIN s /\ r[i] = s[i] /\ i # j - 1
        BY <2>4, <1>1, <1>2, <1>3
    <3> QED
        BY <3>1, <1>3 DEF Once
  <2>5. CASE i > n
    <3>1. /\ j - 1 \in DOMAIN s /\ r[j] = s[j - 1]
          /\ i - 1 \in DOMAIN s /\ r[i] = s[i - 1] /\ i - 1 # j - 1
        BY <2>5, <1>1, <1>2, <1>3
    <3> QED
        BY <3>1, <1>3 DEF Once
  <2> QED
      BY <2>1, <2>2, <2>3, <2>4, <2>5, <1>2, <1>3
<1>4. \A i, j \in DOMAIN r : i = j \/ i < j \/ j < i
    BY <1>2
<1> QED
    BY <1>0, <1>3, <1>4 DEF Once

LEMMA RemoveAtOnce ==
    ASSUME NEW S, NEW s \in Seq(S), NEW n \in 1..Len(s), NEW x, Once(s, x)
    PROVE  Once(RemoveAt(s, n), x)
<1>0. PICK r : r = RemoveAt(s, n)
    OBVIOUS
<1>1. /\ r \in Seq(S) /\ Len(r) = Len(s) - 1
      /\ \A i \in 1..(Len(s) - 1) : r[i] = IF i < n THEN s[i] ELSE s[i + 1]
  <2>1. /\ RemoveAt(s, n) \in Seq(S) /\ Len(RemoveAt(s, n)) = Len(s) - 1
        /\ \A i \in 1..(Len(s) - 1) : RemoveAt(s, n)[i] = IF i < n THEN s[i] ELSE s[i + 1]
      BY RemoveAtIndices
  <2> QED
      BY <1>0, <2>1
<1>2. Len(s) \in Nat /\ n \in Int /\ DOMAIN s = 1..Len(s) /\ DOMAIN r = 1..(Len(s) - 1)
    BY <1>1, LenProperties
<1>3. ASSUME NEW i \in DOMAIN r, NEW j \in DOMAIN r, r[i] = x, r[j] = x PROVE i = j
  <2> DEFINE from(m) == IF m < n THEN m ELSE m + 1
  <2>1. ASSUME NEW m \in DOMAIN r PROVE from(m) \in DOMAIN s /\ r[m] = s[from(m)]
    <3>1. m \in 1..(Len(s) - 1) /\ m \in 1..Len(s) /\ m + 1 \in 1..Len(s)
        BY <1>2
    <3>2. r[m] = IF m < n THEN s[m] ELSE s[m + 1]
        BY <3>1, <1>1
    <3> QED
        BY <3>1, <3>2, <1>2
  <2>2. from(i) = from(j)
    <3>1. /\ from(i) \in DOMAIN s /\ s[from(i)] = x
          /\ from(j) \in DOMAIN s /\ s[from(j)] = x
        BY <2>1, <1>3
    <3> HIDE DEF from
    <3> QED
        BY <3>1 DEF Once
  <2>3. i \in Int /\ j \in Int /\ n \in Int
      BY <1>2
  <2>4. CASE i < n /\ j < n
      BY <2>2, <2>4
  <2>5. CASE i >= n /\ j >= n
      BY <2>2, <2>3, <2>5
  <2>6. CASE i < n /\ j >= n
      BY <2>2, <2>3, <2>6
  <2>7. CASE i >= n /\ j < n
      BY <2>2, <2>3, <2>7
  <2> QED
      BY <2>3, <2>4, <2>5, <2>6, <2>7
<1> QED
    BY <1>0, <1>3 DEF Once

LEMMA ReplaceAtOnce ==
    ASSUME NEW S, NEW s \in Seq(S), NEW n \in 1..Len(s), NEW e \in S, NEW x,
           IF x = e THEN \A j \in DOMAIN s : s[j] # e ELSE Once(s, x)
    PROVE  Once(ReplaceAt(s, n, e), x)
<1> DEFINE r == ReplaceAt(s, n, e)
<1>1. /\ r \in Seq(S) /\ Len(r) = Len(s)
      /\ \A i \in 1..Len(s) : r[i] = IF i = n THEN e ELSE s[i]
    BY ONLY ReplaceAtIndices, s \in Seq(S), n \in 1..Len(s), e \in S
<1> HIDE DEF r
<1>2. DOMAIN s = 1..Len(s) /\ DOMAIN r = 1..Len(s)
    BY <1>1, LenProperties
<1>3. Once(r, x)
    BY <1>1, <1>2 DEF Once
<1> QED
    BY <1>3 DEF r

----------------------------------------------------------------------------
(* The values a map has for the elements of a list, in the list's order. *)
Image(list, map) == [i \in DOMAIN list |-> map[list[i]]]

LEMMA ImageType ==
    ASSUME NEW S, NEW T, NEW s \in Seq(S), NEW map, \A i \in DOMAIN s : map[s[i]] \in T
    PROVE  /\ Image(s, map) \in Seq(T) /\ Len(Image(s, map)) = Len(s)
           /\ \A i \in 1..Len(s) : Image(s, map)[i] = map[s[i]]
<1>1. DOMAIN s = 1..Len(s) /\ Len(s) \in Nat
    BY LenProperties
<1>2. /\ [i \in 1..Len(s) |-> map[s[i]]] \in [1..Len(s) -> T]
      /\ Image(s, map) = [i \in 1..Len(s) |-> map[s[i]]]
    BY <1>1 DEF Image
<1>3. Image(s, map) \in [1..Len(s) -> T] /\ Image(s, map) \in Seq(T)
    BY <1>1, <1>2
<1>4. Len(Image(s, map)) = Len(s)
    BY <1>1, <1>3, LenProperties
<1> QED
    BY <1>2, <1>3, <1>4

\* Editing a list edits its image.
LEMMA ImageInsertAt ==
    ASSUME NEW S, NEW T, NEW s \in Seq(S), NEW n \in 1..(Len(s) + 1), NEW e \in S,
           NEW map, NEW new, \A i \in DOMAIN s : new[s[i]] = map[s[i]] /\ map[s[i]] \in T,
           new[e] \in T
    PROVE  Image(InsertAt(s, n, e), new) = InsertAt(Image(s, map), n, new[e])
<1>0. PICK r, d : r = InsertAt(s, n, e) /\ d = Image(s, map)
    OBVIOUS
<1>1. /\ r \in Seq(S) /\ Len(r) = Len(s) + 1
      /\ \A i \in 1..(Len(s) + 1) : r[i] = IF i < n THEN s[i] ELSE IF i = n THEN e ELSE s[i - 1]
  <2>1. /\ InsertAt(s, n, e) \in Seq(S) /\ Len(InsertAt(s, n, e)) = Len(s) + 1
        /\ \A i \in 1..(Len(s) + 1) :
              InsertAt(s, n, e)[i] = IF i < n THEN s[i] ELSE IF i = n THEN e ELSE s[i - 1]
      BY InsertAtIndices
  <2> QED
      BY <1>0, <2>1
<1>2. /\ d \in Seq(T) /\ Len(d) = Len(s) /\ \A i \in 1..Len(s) : d[i] = map[s[i]]
  <2>1. \A i \in DOMAIN s : map[s[i]] \in T
      OBVIOUS
  <2>2. ASSUME s \in Seq(S), \A i \in DOMAIN s : map[s[i]] \in T
        PROVE  /\ Image(s, map) \in Seq(T) /\ Len(Image(s, map)) = Len(s)
               /\ \A i \in 1..Len(s) : Image(s, map)[i] = map[s[i]]
      BY ONLY ImageType, s \in Seq(S), \A i \in DOMAIN s : map[s[i]] \in T
  <2> QED
      BY <1>0, <2>1, <2>2
<1>3. /\ Len(s) \in Nat /\ n \in Int /\ DOMAIN s = 1..Len(s) /\ DOMAIN r = 1..(Len(s) + 1)
    BY <1>1, LenProperties
<1>4. PICK x, q : x = new[e] /\ q = InsertAt(d, n, x)
    OBVIOUS
<1>5. /\ q \in Seq(T) /\ Len(q) = Len(s) + 1
      /\ \A i \in 1..(Len(s) + 1) : q[i] = IF i < n THEN d[i] ELSE IF i = n THEN x ELSE d[i - 1]
  <2>1. n \in 1..(Len(d) + 1) /\ x \in T
      BY <1>2, <1>4
  <2>2. /\ InsertAt(d, n, x) \in Seq(T) /\ Len(InsertAt(d, n, x)) = Len(d) + 1
        /\ \A i \in 1..(Len(d) + 1) :
              InsertAt(d, n, x)[i] = IF i < n THEN d[i] ELSE IF i = n THEN x ELSE d[i - 1]
      BY <1>2, <2>1, InsertAtIndices
  <2> QED
      BY <1>2, <1>4, <2>2
<1>6. ASSUME NEW i \in 1..(Len(s) + 1) PROVE new[r[i]] = q[i]
  <2>1. CASE i < n
    <3>1. i \in 1..Len(s) /\ r[i] = s[i] /\ q[i] = d[i]
        BY <1>1, <1>3, <1>5, <2>1
    <3> QED
        BY <3>1, <1>2, <1>3
  <2>2. CASE i = n
    <3>1. r[i] = e /\ q[i] = x
        BY <1>1, <1>3, <1>5, <2>2
    <3> QED
        BY <3>1, <1>4
  <2>3. CASE i > n
    <3>1. i - 1 \in 1..Len(s) /\ r[i] = s[i - 1] /\ q[i] = d[i - 1]
        BY <1>1, <1>3, <1>5, <2>3
    <3> QED
        BY <3>1, <1>2, <1>3
  <2> QED
      BY <1>3, <2>1, <2>2, <2>3
<1>7. DOMAIN q = 1..(Len(s) + 1) /\ q = [i \in DOMAIN q |-> q[i]]
    BY <1>5, LenProperties
<1>8. Image(r, new) = q
    BY <1>3, <1>6, <1>7 DEF Image
<1> QED
    BY <1>0, <1>4, <1>8

LEMMA ImageRemoveAt ==
    ASSUME NEW S, NEW s \in Seq(S), NEW n \in 1..Len(s), NEW map
    PROVE  Image(RemoveAt(s, n), map) = RemoveAt(Image(s, map), n)
<1>0. PICK r, d, q : r = RemoveAt(s, n) /\ d = Image(s, map) /\ q = RemoveAt(d, n)
    OBVIOUS
<1> DEFINE T == {map[s[i]] : i \in DOMAIN s}
<1>8. \A i \in DOMAIN s : map[s[i]] \in T
    OBVIOUS
<1> HIDE DEF T
<1>1. /\ r \in Seq(S) /\ Len(r) = Len(s) - 1
      /\ \A i \in 1..(Len(s) - 1) : r[i] = IF i < n THEN s[i] ELSE s[i + 1]
  <2>1. /\ RemoveAt(s, n) \in Seq(S) /\ Len(RemoveAt(s, n)) = Len(s) - 1
        /\ \A i \in 1..(Len(s) - 1) : RemoveAt(s, n)[i] = IF i < n THEN s[i] ELSE s[i + 1]
      BY RemoveAtIndices
  <2> QED
      BY <1>0, <2>1
<1>2. /\ d \in Seq(T) /\ Len(d) = Len(s) /\ \A i \in 1..Len(s) : d[i] = map[s[i]]
  <2>1. /\ Image(s, map) \in Seq(T) /\ Len(Image(s, map)) = Len(s)
        /\ \A i \in 1..Len(s) : Image(s, map)[i] = map[s[i]]
      BY <1>8, ImageType
  <2> QED
      BY <1>0, <2>1
<1>3. /\ Len(s) \in Nat /\ n \in Int /\ DOMAIN s = 1..Len(s) /\ DOMAIN r = 1..(Len(s) - 1)
    BY <1>1, LenProperties
<1>4. /\ q \in Seq(T) /\ Len(q) = Len(s) - 1
      /\ \A i \in 1..(Len(s) - 1) : q[i] = IF i < n THEN d[i] ELSE d[i + 1]
  <2>1. n \in 1..Len(d)
      BY <1>2
  <2>2. /\ RemoveAt(d, n) \in Seq(T) /\ Len(RemoveAt(d, n)) = Len(d) - 1
        /\ \A i \in 1..(Len(d) - 1) : RemoveAt(d, n)[i] = IF i < n THEN d[i] ELSE d[i + 1]
      BY <1>2, <2>1, RemoveAtIndices
  <2> QED
      BY <1>0, <1>2, <2>2
<1>5. ASSUME NEW i \in 1..(Len(s) - 1) PROVE map[r[i]] = q[i]
  <2>1. i \in 1..Len(s) /\ i + 1 \in 1..Len(s)
      BY <1>3
  <2> QED
      BY <2>1, <1>1, <1>2, <1>4
<1>6. DOMAIN q = 1..(Len(s) - 1) /\ q = [i \in DOMAIN q |-> q[i]]
    BY <1>4, LenProperties
<1>7. Image(r, map) = q
    BY <1>3, <1>5, <1>6 DEF Image
<1> QED
    BY <1>0, <1>7

LEMMA ImageReplaceAt ==
    ASSUME NEW S, NEW T, NEW s \in Seq(S), NEW n \in 1..Len(s), NEW e \in S,
           NEW map, NEW new, \A i \in DOMAIN s : new[s[i]] = map[s[i]] /\ map[s[i]] \in T,
           new[e] \in T
    PROVE  Image(ReplaceAt(s, n, e), new) = ReplaceAt(Image(s, map), n, new[e])
<1>0. PICK d, x : d = Image(s, map) /\ x = new[e]
    OBVIOUS
<1> DEFINE r == ReplaceAt(s, n, e)
<1>1. /\ r \in Seq(S) /\ Len(r) = Len(s)
      /\ \A i \in 1..Len(s) : r[i] = IF i = n THEN e ELSE s[i]
    BY ONLY ReplaceAtIndices, s \in Seq(S), n \in 1..Len(s), e \in S
<1> HIDE DEF r
<1>2. /\ d \in Seq(T) /\ Len(d) = Len(s) /\ \A i \in 1..Len(s) : d[i] = map[s[i]]
  <2>1. \A i \in DOMAIN s : map[s[i]] \in T
      OBVIOUS
  <2>2. ASSUME s \in Seq(S), \A i \in DOMAIN s : map[s[i]] \in T
        PROVE  /\ Image(s, map) \in Seq(T) /\ Len(Image(s, map)) = Len(s)
               /\ \A i \in 1..Len(s) : Image(s, map)[i] = map[s[i]]
      BY ONLY ImageType, s \in Seq(S), \A i \in DOMAIN s : map[s[i]] \in T
  <2> QED
      BY <1>0, <2>1, <2>2
<1>3. PICK q : q = ReplaceAt(d, n, x)
    OBVIOUS
<1>4. /\ q \in Seq(T) /\ Len(q) = Len(d)
      /\ \A i \in 1..Len(d) : q[i] = IF i = n THEN x ELSE d[i]
  <2>1. n \in 1..Len(d) /\ x \in T
      BY <1>0, <1>2
  <2>2. /\ ReplaceAt(d, n, x) \in Seq(T) /\ Len(ReplaceAt(d, n, x)) = Len(d)
        /\ \A i \in 1..Len(d) : ReplaceAt(d, n, x)[i] = IF i = n THEN x ELSE d[i]
      BY <1>2, <2>1, ReplaceAtIndices
  <2> QED
      BY <1>3, <2>2
<1>5. /\ Len(s) \in Nat /\ DOMAIN s = 1..Len(s) /\ DOMAIN r = 1..Len(s)
      /\ DOMAIN q = 1..Len(s) /\ q = [i \in DOMAIN q |-> q[i]]
    BY <1>1, <1>2, <1>4, LenProperties
<1>6. ASSUME NEW i \in 1..Len(s) PROVE new[r[i]] = q[i]
    BY <1>0, <1>1, <1>2, <1>4, <1>5
<1>7. Image(r, new) = q
    BY <1>5, <1>6 DEF Image
<1> QED
    BY <1>0, <1>3, <1>7 DEF r

\* Removing and replacing, said with the parts of the list.
LEMMA TailOfRest ==
    ASSUME NEW S, NEW s \in Seq(S), NEW n \in 1..Len(s)
    PROVE  Tail(SubSeq(s, n, Len(s))) = SubSeq(s, n + 1, Len(s))
<1>0. PICK m, a, b : m = n + 1 /\ a = SubSeq(s, n, Len(s)) /\ b = SubSeq(s, m, Len(s))
    BY Zenon
<1>1. Len(s) \in Nat /\ n \in Int /\ n \in 1..(Len(s) + 1) /\ m \in 1..(Len(s) + 1)
    BY <1>0, LenProperties
<1>2. /\ SubSeq(s, n, Len(s)) \in Seq(S) /\ Len(SubSeq(s, n, Len(s))) = Len(s) - n + 1
      /\ \A i \in 1..(Len(s) - n + 1) : SubSeq(s, n, Len(s))[i] = s[n + i - 1]
    BY <1>1, Parts
<1>3. /\ SubSeq(s, m, Len(s)) \in Seq(S) /\ Len(SubSeq(s, m, Len(s))) = Len(s) - m + 1
      /\ \A i \in 1..(Len(s) - m + 1) : SubSeq(s, m, Len(s))[i] = s[m + i - 1]
    BY <1>1, Parts
<1>4. /\ a \in Seq(S) /\ Len(a) = Len(s) - n + 1 /\ \A i \in 1..(Len(s) - n + 1) : a[i] = s[n + i - 1]
      /\ b \in Seq(S) /\ Len(b) = Len(s) - n /\ \A i \in 1..(Len(s) - n) : b[i] = s[n + i]
  <2>1. Len(s) - m + 1 = Len(s) - n /\ \A i \in Int : m + i - 1 = n + i
      BY <1>0, <1>1
  <2>2. ASSUME NEW i \in 1..(Len(s) - n) PROVE b[i] = s[n + i]
    <3>0. i \in 1..(Len(s) - m + 1) /\ m + i - 1 = n + i
        BY <2>1, <1>1
    <3>1. b[i] = s[m + i - 1] /\ m + i - 1 = n + i
        BY <1>0, <1>3, <3>0
    <3> QED
        BY <3>1
  <2> QED
      BY <1>0, <1>2, <1>3, <2>1, <2>2, Zenon
<1>5. a # <<>>
    BY <1>1, <1>4, EmptySeq
<1>6. /\ Tail(a) \in Seq(S) /\ Len(Tail(a)) = Len(s) - n
      /\ \A i \in 1..Len(Tail(a)) : Tail(a)[i] = a[i + 1]
  <2>1. /\ Tail(a) \in Seq(S) /\ Len(Tail(a)) = Len(a) - 1
        /\ \A i \in 1..Len(Tail(a)) : Tail(a)[i] = a[i + 1]
      BY <1>4, <1>5, HeadTailProperties
  <2>2. PICK l1, l2, l3 : l1 = Len(s) /\ l2 = Len(a) /\ l3 = Len(Tail(a))
      OBVIOUS
  <2>3. l1 \in Int /\ n \in Int /\ l2 = l1 - n + 1 /\ l3 = l2 - 1
      BY <1>1, <1>4, <2>1, <2>2
  <2>4. l3 = l1 - n
      BY ONLY <2>3
  <2>5. Len(Tail(a)) = Len(s) - n
      BY <2>2, <2>4
  <2> QED
      BY <2>1, <2>5, Zenon
<1>7. ASSUME NEW i \in 1..Len(Tail(a)) PROVE Tail(a)[i] = b[i]
  <2>1. i \in 1..(Len(s) - n) /\ i + 1 \in 1..(Len(s) - n + 1) /\ n + (i + 1) - 1 = n + i
      BY <1>1, <1>6
  <2>2. a[i + 1] = s[n + (i + 1) - 1]
      BY <1>4, <2>1
  <2> QED
      BY <1>4, <1>6, <2>1, <2>2
<1>8. Tail(a) = b
    BY <1>4, <1>6, <1>7, SeqEqual
<1> QED
    BY <1>0, <1>8

LEMMA ReplaceAtParts ==
    ASSUME NEW S, NEW s \in Seq(S), NEW n \in 1..Len(s), NEW e \in S
    PROVE  ReplaceAt(s, n, e) = SubSeq(s, 1, n - 1) \o <<e>> \o SubSeq(s, n + 1, Len(s))
<1>0. PICK m, a, b : m = n + 1 /\ a = SubSeq(s, 1, n - 1) /\ b = SubSeq(s, m, Len(s))
    OBVIOUS
<1>1. Len(s) \in Nat /\ n \in Int /\ n \in 1..(Len(s) + 1) /\ m \in 1..(Len(s) + 1)
    BY <1>0, LenProperties
<1>2. /\ SubSeq(s, 1, n - 1) \in Seq(S) /\ Len(SubSeq(s, 1, n - 1)) = n - 1
      /\ \A i \in 1..(n - 1) : SubSeq(s, 1, n - 1)[i] = s[i]
      /\ SubSeq(s, m, Len(s)) \in Seq(S) /\ Len(SubSeq(s, m, Len(s))) = Len(s) - m + 1
      /\ \A i \in 1..(Len(s) - m + 1) : SubSeq(s, m, Len(s))[i] = s[m + i - 1]
  <2>1. PICK k \in 1..(Len(s) + 1), l \in 1..(Len(s) + 1) : k = n /\ l = m
      BY <1>1
  <2>2. /\ SubSeq(s, 1, k - 1) \in Seq(S) /\ Len(SubSeq(s, 1, k - 1)) = k - 1
        /\ \A i \in 1..(k - 1) : SubSeq(s, 1, k - 1)[i] = s[i]
        /\ SubSeq(s, l, Len(s)) \in Seq(S) /\ Len(SubSeq(s, l, Len(s))) = Len(s) - l + 1
        /\ \A i \in 1..(Len(s) - l + 1) : SubSeq(s, l, Len(s))[i] = s[l + i - 1]
      BY Parts
  <2> QED
      BY <2>1, <2>2, Zenon
<1>3. /\ a \in Seq(S) /\ Len(a) = n - 1 /\ \A i \in 1..(n - 1) : a[i] = s[i]
      /\ b \in Seq(S) /\ Len(b) = Len(s) - n
  <2>1. Len(s) - m + 1 = Len(s) - n
      BY <1>0, <1>1
  <2> QED
      BY <1>0, <1>2, <2>1, Zenon
<1>4. ASSUME NEW i \in 1..(Len(s) - n) PROVE b[i] = s[n + i]
  <2>1. i \in 1..(Len(s) - m + 1) /\ m + i - 1 = n + i
      BY <1>0, <1>1
  <2>2. b[i] = s[m + i - 1]
      BY <1>0, <1>2, <2>1
  <2> QED
      BY <2>1, <2>2
<1>5. <<e>> \in Seq(S) /\ Len(<<e>>) = 1 /\ <<e>>[1] = e
    OBVIOUS
<1>6. PICK c, r : c = a \o <<e>> /\ r = c \o b
    OBVIOUS
<1>7. /\ c \in Seq(S) /\ Len(c) = n
      /\ \A i \in 1..n : c[i] = IF i <= n - 1 THEN a[i] ELSE e
  <2>1. /\ c \in Seq(S) /\ Len(c) = Len(a) + Len(<<e>>)
        /\ \A i \in 1..(Len(a) + Len(<<e>>)) :
              c[i] = IF i <= Len(a) THEN a[i] ELSE <<e>>[i - Len(a)]
      BY <1>3, <1>5, <1>6, ConcatProperties, Zenon
  <2> QED
      BY <2>1, <1>1, <1>3, <1>5
<1>8. /\ r \in Seq(S) /\ Len(r) = Len(c) + Len(b)
      /\ \A i \in 1..(Len(c) + Len(b)) : r[i] = IF i <= Len(c) THEN c[i] ELSE b[i - Len(c)]
    BY <1>3, <1>6, <1>7, ConcatProperties, Zenon
<1>9. Len(r) = Len(s)
    BY <1>1, <1>3, <1>7, <1>8
<1>10. PICK q : q = ReplaceAt(s, n, e)
    OBVIOUS
<1>11. /\ q \in Seq(S) /\ Len(q) = Len(s)
       /\ \A i \in 1..Len(s) : q[i] = IF i = n THEN e ELSE s[i]
  <2>1. /\ ReplaceAt(s, n, e) \in Seq(S) /\ Len(ReplaceAt(s, n, e)) = Len(s)
        /\ \A i \in 1..Len(s) : ReplaceAt(s, n, e)[i] = IF i = n THEN e ELSE s[i]
      BY ONLY ReplaceAtIndices, s \in Seq(S), n \in 1..Len(s), e \in S
  <2> QED
      BY <1>10, <2>1
<1>12. ASSUME NEW i \in 1..Len(s) PROVE r[i] = q[i]
  <2>1. CASE i <= n
      BY <2>1, <1>1, <1>3, <1>7, <1>8, <1>9, <1>11
  <2>2. CASE i > n
    <3>1. /\ i \in 1..(Len(c) + Len(b)) /\ ~(i <= Len(c)) /\ i - Len(c) = i - n
          /\ i - n \in 1..(Len(s) - n) /\ n + (i - n) = i
        BY <2>2, <1>1, <1>3, <1>7
    <3>2. r[i] = b[i - n] /\ b[i - n] = s[n + (i - n)]
        BY <3>1, <1>4, <1>8
    <3> QED
        BY <2>2, <3>1, <3>2, <1>1, <1>11
  <2> QED
      BY <2>1, <2>2, <1>1
<1>13. r = q
    BY <1>8, <1>9, <1>11, <1>12, SeqEqual
<1> QED
    BY <1>0, <1>6, <1>10, <1>13

----------------------------------------------------------------------------
(* How often an element occurs in a list.                                  *)

Occurrences(s, x) == {i \in DOMAIN s : s[i] = x}

LEMMA OccurrencesType ==
    ASSUME NEW S, NEW s \in Seq(S), NEW x
    PROVE  /\ IsFiniteSet(Occurrences(s, x)) /\ Cardinality(Occurrences(s, x)) \in Nat
           /\ s = <<>> => Cardinality(Occurrences(s, x)) = 0
           /\ Cardinality(Occurrences(s, x)) = 0 => \A i \in DOMAIN s : s[i] # x
<1>1. DOMAIN s = 1..Len(s) /\ Len(s) \in Nat
    BY LenProperties
<1>2. IsFiniteSet(1..Len(s))
    BY <1>1, FS_Interval
<1>3. IsFiniteSet(Occurrences(s, x))
    BY <1>1, <1>2, FS_Subset DEF Occurrences
<1>4. s = <<>> => Occurrences(s, x) = {}
    BY DEF Occurrences
<1> QED
    BY <1>3, <1>4, FS_CardinalityType, FS_EmptySet DEF Occurrences

LEMMA OccurrencesAppend ==
    ASSUME NEW S, NEW s \in Seq(S), NEW e \in S, NEW x
    PROVE  Cardinality(Occurrences(Append(s, e), x))
               = Cardinality(Occurrences(s, x)) + (IF x = e THEN 1 ELSE 0)
<1>1. PICK a, n : a = Append(s, e) /\ n = Len(s) + 1
    OBVIOUS
<1>2. /\ DOMAIN a = DOMAIN s \cup {n} /\ n \notin DOMAIN s /\ a[n] = e
      /\ \A i \in DOMAIN s : a[i] = s[i]
    BY <1>1, AppendIndices, AppendProperties
<1>3. /\ IsFiniteSet(Occurrences(s, x)) /\ Cardinality(Occurrences(s, x)) \in Nat
      /\ n \notin Occurrences(s, x)
    BY <1>2, OccurrencesType DEF Occurrences
<1>4. CASE x = e
  <2>1. Occurrences(a, x) = Occurrences(s, x) \cup {n}
      BY <1>2, <1>4 DEF Occurrences
  <2>2. Cardinality(Occurrences(a, x)) = Cardinality(Occurrences(s, x)) + 1
      BY <1>3, <2>1, FS_AddElement
  <2> QED
      BY <1>1, <1>4, <2>2
<1>5. CASE x # e
  <2>1. Occurrences(a, x) = Occurrences(s, x)
      BY <1>2, <1>5 DEF Occurrences
  <2> QED
      BY <1>1, <1>3, <1>5, <2>1
<1> QED
    BY <1>4, <1>5

LEMMA OccurrencesTail ==
    ASSUME NEW S, NEW s \in Seq(S), s # <<>>, NEW x
    PROVE  Cardinality(Occurrences(s, x))
               = Cardinality(Occurrences(Tail(s), x)) + (IF x = Head(s) THEN 1 ELSE 0)
<1>1. PICK t : t = Tail(s)
    OBVIOUS
<1>2. /\ t \in Seq(S) /\ DOMAIN s = 1..Len(s) /\ DOMAIN t = 1..Len(t) /\ Len(s) \in Nat
      /\ Len(s) = Len(t) + 1 /\ Len(t) \in Nat /\ Head(s) = s[1]
      /\ \A i \in DOMAIN t : t[i] = s[i + 1]
    BY <1>1, HeadTailProperties, LenProperties, TailIndices
<1> DEFINE later == Occurrences(s, x) \ {1}
           shift == [i \in Occurrences(t, x) |-> i + 1]
<1>3. IsFiniteSet(Occurrences(t, x)) /\ Cardinality(Occurrences(t, x)) \in Nat
    BY <1>2, OccurrencesType
<1>4. ExistsBijection(Occurrences(t, x), later)
  <2>1. \A i \in Occurrences(t, x) : i \in Nat /\ i + 1 \in later
      BY <1>2 DEF Occurrences
  <2>2. ASSUME NEW j \in later PROVE \E i \in Occurrences(t, x) : i + 1 = j
    <3>1. j \in 1..Len(s) /\ j # 1 /\ s[j] = x
        BY <1>2 DEF Occurrences
    <3>2. j - 1 \in DOMAIN t /\ (j - 1) + 1 = j
        BY <1>2, <3>1
    <3>3. t[j - 1] = x
        BY <1>2, <3>1, <3>2
    <3> QED
        BY <3>2, <3>3 DEF Occurrences
  <2>3. \A i, j \in Occurrences(t, x) : i + 1 = j + 1 => i = j
      BY <2>1
  <2>4. shift \in Bijection(Occurrences(t, x), later)
    <3>1. shift \in [Occurrences(t, x) -> later]
        BY <2>1
    <3>2. \A i, j \in Occurrences(t, x) : shift[i] = shift[j] => i = j
        BY <2>3
    <3>3. \A j \in later : \E i \in Occurrences(t, x) : shift[i] = j
        BY <2>2
    <3> HIDE DEF shift, later
    <3> QED
        BY <3>1, <3>2, <3>3 DEF Bijection, Injection, IsInjective, Surjection
  <2> QED
      BY <2>4 DEF ExistsBijection
<1>5. IsFiniteSet(later) /\ Cardinality(later) = Cardinality(Occurrences(t, x))
    BY <1>3, <1>4, FS_Bijection
<1> HIDE DEF later, shift
<1>6. CASE x = Head(s)
  <2>1. Occurrences(s, x) = later \cup {1} /\ 1 \notin later
      BY <1>2, <1>6 DEF Occurrences, later
  <2>2. Cardinality(Occurrences(s, x)) = Cardinality(later) + 1
      BY <1>5, <2>1, FS_AddElement
  <2> QED
      BY <1>1, <1>5, <1>6, <2>2
<1>7. CASE x # Head(s)
  <2>1. Occurrences(s, x) = later
      BY <1>2, <1>7 DEF Occurrences, later
  <2>2. Cardinality(Occurrences(s, x)) = Cardinality(later)
      BY <2>1
  <2> QED
      BY <1>1, <1>3, <1>5, <1>7, <2>2
<1> QED
    BY <1>6, <1>7

----------------------------------------------------------------------------
(* Texts: cutting what was put together. *)

\* The first n characters of a text, and the others.
Upto(s, n) == SubSeq(s, 1, n)
From(s, n) == SubSeq(s, n + 1, Len(s))

LEMMA CutType ==
    ASSUME NEW C, NEW s \in Seq(C), NEW n \in 0..Len(s)
    PROVE  /\ Upto(s, n) \in Seq(C) /\ Len(Upto(s, n)) = n
           /\ \A i \in 1..n : Upto(s, n)[i] = s[i]
           /\ From(s, n) \in Seq(C) /\ Len(From(s, n)) = Len(s) - n
           /\ \A i \in 1..(Len(s) - n) : From(s, n)[i] = s[n + i]
<1>1. Len(s) \in Nat /\ n \in Nat /\ n <= Len(s)
    BY LenProperties
<1>2. PICK m \in 1..(Len(s) + 1) : m = n + 1
    BY <1>1
<1>3. /\ SubSeq(s, 1, m - 1) \in Seq(C) /\ Len(SubSeq(s, 1, m - 1)) = m - 1
      /\ \A i \in 1..(m - 1) : SubSeq(s, 1, m - 1)[i] = s[i]
      /\ SubSeq(s, m, Len(s)) \in Seq(C) /\ Len(SubSeq(s, m, Len(s))) = Len(s) - m + 1
      /\ \A i \in 1..(Len(s) - m + 1) : SubSeq(s, m, Len(s))[i] = s[m + i - 1]
    BY Parts
<1>4. m - 1 = n /\ Len(s) - m + 1 = Len(s) - n
    BY <1>1, <1>2
<1>5. \A i \in 1..(Len(s) - n) : m + i - 1 = n + i
    BY <1>1, <1>2
<1> QED
    BY <1>2, <1>3, <1>4, <1>5, Zenon DEF Upto, From

\* A cut within the first of two parts.
LEMMA CutFirst ==
    ASSUME NEW C, NEW s \in Seq(C), NEW t \in Seq(C), NEW n \in 0..Len(s)
    PROVE  /\ Upto(s \o t, n) = Upto(s, n)
           /\ From(s \o t, n) = From(s, n) \o t
<1>1. /\ Len(s) \in Nat /\ Len(t) \in Nat /\ n \in Nat /\ n <= Len(s)
      /\ s \o t \in Seq(C) /\ Len(s \o t) = Len(s) + Len(t)
      /\ \A i \in 1..(Len(s) + Len(t)) : (s \o t)[i] = IF i <= Len(s) THEN s[i] ELSE t[i - Len(s)]
    BY LenProperties, ConcatProperties
<1>2. n \in 0..Len(s \o t)
    BY <1>1
<1>3. /\ Upto(s, n) \in Seq(C) /\ Len(Upto(s, n)) = n
      /\ \A i \in 1..n : Upto(s, n)[i] = s[i]
      /\ From(s, n) \in Seq(C) /\ Len(From(s, n)) = Len(s) - n
      /\ \A i \in 1..(Len(s) - n) : From(s, n)[i] = s[n + i]
    BY CutType
<1>4. /\ Upto(s \o t, n) \in Seq(C) /\ Len(Upto(s \o t, n)) = n
      /\ \A i \in 1..n : Upto(s \o t, n)[i] = (s \o t)[i]
      /\ From(s \o t, n) \in Seq(C) /\ Len(From(s \o t, n)) = Len(s \o t) - n
      /\ \A i \in 1..(Len(s \o t) - n) : From(s \o t, n)[i] = (s \o t)[n + i]
    BY <1>1, <1>2, CutType
<1>5. Upto(s \o t, n) = Upto(s, n)
  <2>1. \A i \in 1..n : i \in 1..(Len(s) + Len(t)) /\ i <= Len(s)
      BY <1>1
  <2>2. \A i \in 1..n : Upto(s \o t, n)[i] = Upto(s, n)[i]
      BY <1>1, <1>3, <1>4, <2>1
  <2> QED
      BY <1>3, <1>4, <2>2, SeqEqual
<1>6. From(s \o t, n) = From(s, n) \o t
  <2>1. /\ From(s, n) \o t \in Seq(C) /\ Len(From(s, n) \o t) = (Len(s) - n) + Len(t)
        /\ \A i \in 1..((Len(s) - n) + Len(t)) :
              (From(s, n) \o t)[i] = IF i <= Len(s) - n THEN From(s, n)[i] ELSE t[i - (Len(s) - n)]
    <3>1. PICK b \in Seq(C) : b = From(s, n)
        BY <1>3
    <3>2. /\ b \o t \in Seq(C) /\ Len(b \o t) = Len(b) + Len(t)
          /\ \A i \in 1..(Len(b) + Len(t)) : (b \o t)[i] = IF i <= Len(b) THEN b[i] ELSE t[i - Len(b)]
        BY ConcatProperties
    <3>3. Len(b) = Len(s) - n
        BY <1>3, <3>1
    <3> QED
        BY <3>1, <3>2, <3>3
  <2>2. Len(s \o t) - n = (Len(s) - n) + Len(t)
      BY <1>1
  <2>3. ASSUME NEW i \in 1..((Len(s) - n) + Len(t))
        PROVE  From(s \o t, n)[i] = (From(s, n) \o t)[i]
    <3>1. From(s \o t, n)[i] = (s \o t)[n + i] /\ n + i \in 1..(Len(s) + Len(t))
        BY <1>1, <1>4, <2>2
    <3>2. CASE i <= Len(s) - n
      <4>1. n + i <= Len(s) /\ i \in 1..(Len(s) - n)
          BY <1>1, <3>2
      <4>2. (s \o t)[n + i] = s[n + i] /\ From(s, n)[i] = s[n + i]
          BY <1>1, <1>3, <3>1, <4>1
      <4> QED
          BY <2>1, <3>1, <3>2, <4>2
    <3>3. CASE ~(i <= Len(s) - n)
      <4>1. ~(n + i <= Len(s)) /\ (n + i) - Len(s) = i - (Len(s) - n)
          BY <1>1, <3>3
      <4>2. (s \o t)[n + i] = t[i - (Len(s) - n)]
          BY <1>1, <3>1, <4>1
      <4> QED
          BY <2>1, <3>1, <3>3, <4>2
    <3> QED
        BY <3>2, <3>3
  <2> QED
      BY <1>4, <2>1, <2>2, <2>3, SeqEqual
<1> QED
    BY <1>5, <1>6

\* A cut within the second of two parts.
LEMMA CutSecond ==
    ASSUME NEW C, NEW s \in Seq(C), NEW t \in Seq(C), NEW n \in 0..Len(t)
    PROVE  /\ Upto(s \o t, Len(s) + n) = s \o Upto(t, n)
           /\ From(s \o t, Len(s) + n) = From(t, n)
<1>1. /\ Len(s) \in Nat /\ Len(t) \in Nat /\ n \in Nat /\ n <= Len(t)
      /\ s \o t \in Seq(C) /\ Len(s \o t) = Len(s) + Len(t)
      /\ \A i \in 1..(Len(s) + Len(t)) : (s \o t)[i] = IF i <= Len(s) THEN s[i] ELSE t[i - Len(s)]
    BY LenProperties, ConcatProperties
<1>2. PICK m \in 0..Len(s \o t) : m = Len(s) + n
    BY <1>1
<1>3. /\ Upto(t, n) \in Seq(C) /\ Len(Upto(t, n)) = n
      /\ \A i \in 1..n : Upto(t, n)[i] = t[i]
      /\ From(t, n) \in Seq(C) /\ Len(From(t, n)) = Len(t) - n
      /\ \A i \in 1..(Len(t) - n) : From(t, n)[i] = t[n + i]
    BY CutType
<1>4. /\ Upto(s \o t, m) \in Seq(C) /\ Len(Upto(s \o t, m)) = m
      /\ \A i \in 1..m : Upto(s \o t, m)[i] = (s \o t)[i]
      /\ From(s \o t, m) \in Seq(C) /\ Len(From(s \o t, m)) = Len(s \o t) - m
      /\ \A i \in 1..(Len(s \o t) - m) : From(s \o t, m)[i] = (s \o t)[m + i]
    BY <1>1, CutType
<1>5. Upto(s \o t, m) = s \o Upto(t, n)
  <2>1. /\ s \o Upto(t, n) \in Seq(C) /\ Len(s \o Upto(t, n)) = m
        /\ \A i \in 1..m : (s \o Upto(t, n))[i] = IF i <= Len(s) THEN s[i] ELSE Upto(t, n)[i - Len(s)]
    <3>1. PICK b \in Seq(C) : b = Upto(t, n)
        BY <1>3
    <3>2. /\ s \o b \in Seq(C) /\ Len(s \o b) = Len(s) + Len(b)
          /\ \A i \in 1..(Len(s) + Len(b)) : (s \o b)[i] = IF i <= Len(s) THEN s[i] ELSE b[i - Len(s)]
        BY ConcatProperties
    <3>3. Len(s) + Len(b) = m
        BY <1>2, <1>3, <3>1
    <3> QED
        BY <3>1, <3>2, <3>3
  <2>2. ASSUME NEW i \in 1..m PROVE Upto(s \o t, m)[i] = (s \o Upto(t, n))[i]
    <3>1. i \in 1..(Len(s) + Len(t)) /\ (~(i <= Len(s)) => i - Len(s) \in 1..n)
        BY <1>1, <1>2
    <3> QED
        BY <1>1, <1>3, <1>4, <2>1, <3>1
  <2> QED
      BY <1>4, <2>1, <2>2, SeqEqual
<1>6. From(s \o t, m) = From(t, n)
  <2>1. Len(s \o t) - m = Len(t) - n
      BY <1>1, <1>2
  <2>2. ASSUME NEW i \in 1..(Len(t) - n) PROVE From(s \o t, m)[i] = From(t, n)[i]
    <3>1. m + i \in 1..(Len(s) + Len(t)) /\ ~(m + i <= Len(s)) /\ (m + i) - Len(s) = n + i
        BY <1>1, <1>2
    <3> QED
        BY <1>1, <1>3, <1>4, <2>1, <3>1
  <2> QED
      BY <1>3, <1>4, <2>1, <2>2, SeqEqual
<1> QED
    BY <1>2, <1>5, <1>6

----------------------------------------------------------------------------
(* What a list of slices stands for. *)

\* FlattenSeq puts the elements together one after the other.
LEMMA FlattenSteps ==
    ASSUME NEW list, NEW n \in Nat, Len(list) = n, n # 0
    PROVE  \E f : /\ FlattenSeq(list) = f[n] /\ f[1] = list[1]
                  /\ \A i \in 2..n : f[i] = f[i - 1] \o list[i]
<1> DEFINE Flattens(f, m) == f = [i \in 1..m |-> IF i = 1 THEN list[i] ELSE f[i - 1] \o list[i]]
           S == {m \in Nat : \E f : Flattens(f, m)}
<1>1. 0 \in S
  <2>1. Flattens([i \in 1..0 |-> list[i]], 0)
      OBVIOUS
  <2> QED
      BY <2>1
<1>2. ASSUME NEW m \in Nat, m \in S PROVE m + 1 \in S
  <2>1. PICK f : Flattens(f, m)
      BY <1>2
  <2> DEFINE g == [i \in 1..(m + 1) |->
                      IF i = 1 THEN list[1] ELSE IF i = m + 1 THEN f[m] \o list[m + 1] ELSE f[i]]
  <2>2. ASSUME NEW i \in 1..(m + 1)
        PROVE  g[i] = IF i = 1 THEN list[i] ELSE g[i - 1] \o list[i]
    <3>1. CASE i = 1
        BY <3>1
    <3>2. CASE i # 1 /\ i = m + 1
      <4>1. m \in 1..(m + 1) /\ m \in 1..m /\ m # m + 1 /\ i - 1 = m
          BY <3>2
      <4>2. g[m] = f[m]
        <5>1. f[1] = list[1] \/ m # 1
            BY <2>1, <4>1
        <5> QED
            BY <4>1, <5>1
      <4>3. g[i] = f[m] \o list[m + 1]
          BY <3>2
      <4> QED
          BY <3>2, <4>1, <4>2, <4>3
    <3>3. CASE i # 1 /\ i # m + 1
      <4>1. i \in 1..m /\ i - 1 \in 1..m /\ i - 1 \in 1..(m + 1) /\ i - 1 # m + 1
          BY <3>3
      <4>2. f[i] = f[i - 1] \o list[i]
          BY <2>1, <3>3, <4>1
      <4>3. g[i] = f[i]
          BY <3>3
      <4>4. g[i - 1] = f[i - 1]
        <5>1. f[1] = list[1]
            BY <2>1, <4>1
        <5> QED
            BY <4>1, <5>1
      <4> QED
          BY <3>3, <4>2, <4>3, <4>4
    <3> QED
        BY <3>1, <3>2, <3>3
  <2>3. DOMAIN g = 1..(m + 1) /\ g = [i \in DOMAIN g |-> g[i]]
      OBVIOUS
  <2> HIDE DEF g
  <2>4. Flattens(g, m + 1)
      BY <2>2, <2>3
  <2> HIDE DEF Flattens
  <2> QED
      BY <2>4
<1> HIDE DEF Flattens
<1>3. Nat \subseteq S
  <2> HIDE DEF S
  <2> QED
      BY <1>1, <1>2, NatSetInduction
<1>4. PICK f : f = CHOOSE g : Flattens(g, n)
    OBVIOUS
<1>5. Flattens(f, n)
    BY <1>3, <1>4
<1>6. FlattenSeq(list) = f[n]
    BY <1>4 DEF FlattenSeq, Flattens
<1>7. f[1] = list[1] /\ \A i \in 2..n : f[i] = f[i - 1] \o list[i]
  <2>1. 1 \in 1..n /\ \A i \in 2..n : i \in 1..n /\ i # 1
      OBVIOUS
  <2> QED
      BY <1>5, <2>1 DEF Flattens
<1> QED
    BY <1>6, <1>7

\* No slices are no text.
LEMMA FlattenEmpty == FlattenSeq(<<>>) = <<>>
BY EmptySeq DEF FlattenSeq

\* The text of a list with one more slice.
LEMMA FlattenAppend ==
    ASSUME NEW C, NEW list \in Seq(Seq(C)), NEW x \in Seq(C)
    PROVE  FlattenSeq(Append(list, x)) = FlattenSeq(list) \o x
<1>1. PICK n \in Nat : Len(list) = n
    BY LenProperties
<1>2. PICK longer \in Seq(Seq(C)) : longer = Append(list, x)
    BY AppendProperties
<1>3. /\ Len(longer) = n + 1 /\ longer[n + 1] = x
      /\ \A i \in 1..n : longer[i] = list[i]
    BY <1>1, <1>2, AppendProperties
<1>4. PICK g : /\ FlattenSeq(longer) = g[n + 1] /\ g[1] = longer[1]
               /\ \A i \in 2..(n + 1) : g[i] = g[i - 1] \o longer[i]
  <2>1. n + 1 \in Nat /\ n + 1 # 0
      BY <1>1
  <2> QED
      BY <1>3, <2>1, FlattenSteps
<1>5. CASE n = 0
  <2>1. list = <<>>
      BY <1>1, <1>5, EmptySeq
  <2>2. FlattenSeq(longer) = x
      BY <1>3, <1>4, <1>5
  <2>3. <<>> \o x = x
      BY ConcatEmptySeq
  <2> QED
      BY <1>2, <2>1, <2>2, <2>3, FlattenEmpty
<1>6. CASE n # 0
  <2>1. PICK f : /\ FlattenSeq(list) = f[n] /\ f[1] = list[1]
                 /\ \A i \in 2..n : f[i] = f[i - 1] \o list[i]
      BY <1>1, <1>6, FlattenSteps
  <2> DEFINE S == {i \in Nat : i + 1 <= n => g[i + 1] = f[i + 1]}
  <2>2. 0 \in S
      BY <1>3, <1>4, <1>6, <2>1
  <2>3. ASSUME NEW i \in Nat, i \in S PROVE i + 1 \in S
    <3>1. ASSUME i + 2 <= n PROVE g[i + 2] = f[i + 2]
      <4>1. g[i + 1] = f[i + 1]
          BY <2>3, <3>1
      <4>2. i + 2 \in 2..n /\ i + 2 \in 2..(n + 1) /\ i + 2 \in 1..n /\ (i + 2) - 1 = i + 1
          BY <3>1
      <4>3. PICK m : m = i + 2
          OBVIOUS
      <4>4. /\ m \in 2..n /\ m \in 2..(n + 1) /\ m \in 1..n
            /\ g[m - 1] = f[m - 1]
          BY <4>1, <4>2, <4>3
      <4>5. g[m] = g[m - 1] \o list[m] /\ f[m] = f[m - 1] \o list[m]
          BY <1>3, <1>4, <2>1, <4>4
      <4> QED
          BY <4>3, <4>4, <4>5
    <3>2. (i + 1) + 1 = i + 2
        OBVIOUS
    <3> QED
        BY <3>1, <3>2
  <2>4. Nat \subseteq S
    <3> HIDE DEF S
    <3> QED
        BY <2>2, <2>3, NatSetInduction
  <2>5. g[n] = f[n]
    <3>1. n - 1 \in Nat /\ (n - 1) + 1 = n
        BY <1>6
    <3>2. \A i \in Nat : i + 1 <= n => g[i + 1] = f[i + 1]
        BY <2>4
    <3> QED
        BY <3>1, <3>2
  <2>6. n + 1 \in 2..(n + 1) /\ (n + 1) - 1 = n
      BY <1>6
  <2>7. g[n + 1] = g[n] \o x
      BY <1>3, <1>4, <2>6
  <2> QED
      BY <1>2, <1>4, <2>1, <2>5, <2>7
<1> QED
    BY <1>5, <1>6

\* A list of slices is empty, or has a last slice.
LEMMA EmptyOrLast ==
    ASSUME NEW T, NEW list \in Seq(T), NEW n \in Nat, Len(list) = n + 1
    PROVE  \E u \in Seq(T), e \in T : list = Append(u, e) /\ Len(u) = n
<1>1. list # <<>>
    BY EmptySeq
<1>2. PICK u \in Seq(T), e \in T : list = Append(u, e)
    BY <1>1, SequenceEmptyOrAppend
<1>3. Len(u) \in Nat /\ Len(list) = Len(u) + 1
    BY <1>2, AppendProperties, LenProperties
<1> QED
    BY <1>2, <1>3

\* Is joining three lists the same in either order?
Regroups(a, b, c) == (a \o b) \o c = a \o (b \o c)

\* It is.
LEMMA ConcatRegroups ==
    ASSUME NEW C
    PROVE  \A a, b, c \in Seq(C) : Regroups(a, b, c)
    BY ConcatAssociative DEF Regroups

\* Slices of characters make a text, and two lists after one another the two
\* texts after one another.
LEMMA FlattenConcat ==
    ASSUME NEW C, NEW s \in Seq(Seq(C)), NEW t \in Seq(Seq(C))
    PROVE  /\ FlattenSeq(s) \in Seq(C) /\ FlattenSeq(t) \in Seq(C)
           /\ FlattenSeq(s \o t) = FlattenSeq(s) \o FlattenSeq(t)
<1> DEFINE S == {n \in Nat : \A u \in Seq(Seq(C)) : Len(u) = n => FlattenSeq(u) \in Seq(C)}
           R == {n \in Nat : \A u \in Seq(Seq(C)) : Len(u) = n =>
                                FlattenSeq(s \o u) = FlattenSeq(s) \o FlattenSeq(u)}
<1>1. \A u \in Seq(Seq(C)) : Len(u) = 0 => u = <<>>
    BY EmptySeq
<1>2. 0 \in S
    BY <1>1, FlattenEmpty, EmptySeq
<1>3. ASSUME NEW n \in Nat, n \in S PROVE n + 1 \in S
  <2>1. ASSUME NEW u \in Seq(Seq(C)), Len(u) = n + 1 PROVE FlattenSeq(u) \in Seq(C)
    <3>1. PICK v \in Seq(Seq(C)), e \in Seq(C) : u = Append(v, e) /\ Len(v) = n
        BY <2>1, EmptyOrLast
    <3>2. FlattenSeq(v) \in Seq(C)
        BY <1>3, <3>1
    <3>3. FlattenSeq(v) \o e \in Seq(C)
        BY <3>2, ConcatProperties
    <3>4. FlattenSeq(u) = FlattenSeq(v) \o e
        BY <3>1, FlattenAppend
    <3> QED
        BY <3>3, <3>4
  <2> QED
      BY <2>1
<1>4. Nat \subseteq S
  <2> HIDE DEF S
  <2> QED
      BY <1>2, <1>3, NatSetInduction
<1>5. \A u \in Seq(Seq(C)) : FlattenSeq(u) \in Seq(C)
  <2>1. \A u \in Seq(Seq(C)) : Len(u) \in Nat
      BY LenProperties
  <2> QED
      BY <1>4, <2>1
<1> HIDE DEF S
<1>6. 0 \in R
  <2>1. FlattenSeq(s) \o <<>> = FlattenSeq(s) /\ s \o <<>> = s
      BY <1>5, ConcatEmptySeq
  <2> QED
      BY <1>1, <2>1, FlattenEmpty
<1>7. ASSUME NEW n \in Nat, n \in R PROVE n + 1 \in R
  <2>1. ASSUME NEW u \in Seq(Seq(C)), Len(u) = n + 1
        PROVE  FlattenSeq(s \o u) = FlattenSeq(s) \o FlattenSeq(u)
    <3>1. PICK v \in Seq(Seq(C)), e \in Seq(C) : u = Append(v, e) /\ Len(v) = n
        BY <2>1, EmptyOrLast
    <3>2. FlattenSeq(s \o v) = FlattenSeq(s) \o FlattenSeq(v)
        BY <1>7, <3>1
    <3>3. s \o u = Append(s \o v, e) /\ s \o v \in Seq(Seq(C))
      <4>1. <<e>> \in Seq(Seq(C)) /\ s \o v \in Seq(Seq(C))
          BY ConcatProperties
      <4>2. u = v \o <<e>> /\ Append(s \o v, e) = (s \o v) \o <<e>>
          BY <3>1, <4>1, AppendIsConcat
      <4>3. (s \o v) \o <<e>> = s \o (v \o <<e>>)
        <5>1. Regroups(s, v, <<e>>)
            BY <3>1, <4>1, ConcatRegroups
        <5> QED
            BY <5>1 DEF Regroups
      <4> QED
          BY <4>1, <4>2, <4>3
    <3>4. FlattenSeq(s \o u) = FlattenSeq(s \o v) \o e
        BY <3>3, FlattenAppend
    <3>5. FlattenSeq(u) = FlattenSeq(v) \o e
        BY <3>1, FlattenAppend
    <3>6. (FlattenSeq(s) \o FlattenSeq(v)) \o e = FlattenSeq(s) \o (FlattenSeq(v) \o e)
      <4>1. Regroups(FlattenSeq(s), FlattenSeq(v), e)
          BY <1>5, <3>1, ConcatRegroups
      <4> QED
          BY <4>1 DEF Regroups
    <3> QED
        BY <3>2, <3>4, <3>5, <3>6
  <2> QED
      BY <2>1
<1>8. Nat \subseteq R
  <2> HIDE DEF R
  <2> QED
      BY <1>6, <1>7, NatSetInduction
<1>9. Len(t) \in Nat
    BY LenProperties
<1> QED
    BY <1>5, <1>8, <1>9

\* One text after another, for the steps in which what its characters are does
\* not matter.
Cat(s, t) == s \o t

\* One, two and three slices.
LEMMA FlattenFew ==
    ASSUME NEW C, NEW x \in Seq(C), NEW y \in Seq(C), NEW z \in Seq(C)
    PROVE  /\ <<x>> \in Seq(Seq(C)) /\ <<x, y>> \in Seq(Seq(C)) /\ <<x, y, z>> \in Seq(Seq(C))
           /\ FlattenSeq(<<x>>) = x
           /\ FlattenSeq(<<x, y>>) = Cat(x, y)
           /\ FlattenSeq(<<x, y, z>>) = Cat(Cat(x, y), z)
<1>1. <<>> \in Seq(Seq(C)) /\ <<x>> \in Seq(Seq(C)) /\ <<x, y>> \in Seq(Seq(C)) /\ <<x, y, z>> \in Seq(Seq(C))
    BY EmptySeq
<1>2. <<x>> = Append(<<>>, x) /\ <<x, y>> = Append(<<x>>, y) /\ <<x, y, z>> = Append(<<x, y>>, z)
    OBVIOUS
<1>3. FlattenSeq(<<x>>) = FlattenSeq(<<>>) \o x /\ <<>> \o x = x
    BY <1>1, <1>2, FlattenAppend, ConcatEmptySeq
<1>4. FlattenSeq(<<x>>) = x
    BY <1>3, FlattenEmpty
<1>5. FlattenSeq(<<x, y>>) = Cat(x, y)
    BY <1>1, <1>2, <1>4, FlattenAppend DEF Cat
<1>6. FlattenSeq(<<x, y, z>>) = Cat(Cat(x, y), z)
  <2>1. FlattenSeq(<<x, y, z>>) = FlattenSeq(<<x, y>>) \o z
      BY <1>1, <1>2, FlattenAppend
  <2> QED
      BY <1>5, <2>1, Zenon DEF Cat
<1> QED
    BY <1>1, <1>4, <1>5, <1>6
=============================================================================
