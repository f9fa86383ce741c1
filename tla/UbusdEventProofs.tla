-------------------------- MODULE UbusdEventProofs --------------------------
(***************************************************************************)
(* Event delivery in ubusd, for any patterns, objects and events: leaving    *)
(* the sorted pattern tree at the first shorter match misses no listener.    *)
(***************************************************************************)
EXTENDS UbusdEvent, SequenceTheorems, NaturalsInduction, WellFoundedInduction, TLAPS

String == Seq(Nat)

\* The two strings have the same first n characters.
Agree(a, b, n) == \A j \in 1..n : a[j] = b[j]

\* Before, with the place where a is the smaller one.
LessAt(a, b, i) ==
    /\ i \in 1..Len(b) /\ i <= Len(a) + 1 /\ Agree(a, b, i - 1)
    /\ i <= Len(a) => a[i] < b[i]

\* n is where two strings part.
PartAt(a, b, n) ==
    /\ n \in 0..Len(a) /\ n <= Len(b) /\ Agree(a, b, n)
    /\ n < Len(a) /\ n < Len(b) => a[n + 1] # b[n + 1]

\* The pattern is the string or, without its "*", begins it.
Begins(key, id) == Len(key) <= Len(id) /\ Agree(key, id, Len(key))

----------------------------------------------------------------------------
(* A set of natural numbers that is not empty has a least element.          *)
LEMMA LeastNumber ==
  ASSUME NEW S \in SUBSET Nat, S # {}
  PROVE  \E x \in S : \A y \in S : x <= y
<1>1. \E x \in S : \A y \in S : ~(<<y, x>> \in OpToRel(<, Nat))
  BY NatLessThanWellFounded, WFMin
<1>2. PICK x \in S : \A y \in S : ~(y < x)
  BY <1>1 DEF OpToRel
<1> QED
  BY <1>2

(* Beginnings of equal length are equal if their characters are.            *)
LEMMA SameBeginning ==
  ASSUME NEW a \in String, NEW b \in String, NEW n \in Nat, n <= Len(a), n <= Len(b)
  PROVE  SubSeq(a, 1, n) = SubSeq(b, 1, n) <=> Agree(a, b, n)
<1>1. /\ SubSeq(a, 1, n) \in Seq(Nat) /\ Len(SubSeq(a, 1, n)) = n
      /\ \A i \in 1..n : SubSeq(a, 1, n)[i] = a[i]
  <2>1. \A i \in 1..n : a[i] \in Nat
    BY ElementOfSeq DEF String
  <2>2. \A i \in 1..((n - 1) + 1) : SubSeq(a, 1, n)[i] = a[(1 + i) - 1]
    BY <2>1, SubSeqProperties
  <2> QED
    BY <2>1, <2>2, SubSeqProperties
<1>2. /\ SubSeq(b, 1, n) \in Seq(Nat) /\ Len(SubSeq(b, 1, n)) = n
      /\ \A i \in 1..n : SubSeq(b, 1, n)[i] = b[i]
  <2>1. \A i \in 1..n : b[i] \in Nat
    BY ElementOfSeq DEF String
  <2>2. \A i \in 1..((n - 1) + 1) : SubSeq(b, 1, n)[i] = b[(1 + i) - 1]
    BY <2>1, SubSeqProperties
  <2> QED
    BY <2>1, <2>2, SubSeqProperties
<1>3. ASSUME Agree(a, b, n) PROVE SubSeq(a, 1, n) = SubSeq(b, 1, n)
  <2>1. \A i \in 1..n : SubSeq(a, 1, n)[i] = SubSeq(b, 1, n)[i]
    BY <1>1, <1>2, <1>3 DEF Agree
  <2> QED
    BY <1>1, <1>2, <2>1, SeqEqual
<1>4. ASSUME SubSeq(a, 1, n) = SubSeq(b, 1, n) PROVE Agree(a, b, n)
  BY <1>1, <1>2, <1>4 DEF Agree
<1> QED
  BY <1>3, <1>4

(* strcmp.                                                                  *)
LEMMA BeforeIs ==
  ASSUME NEW a \in String, NEW b \in String
  PROVE  Before(a, b) <=> \E i \in Nat : LessAt(a, b, i)
<1>0. Len(a) \in Nat /\ Len(b) \in Nat
  BY LenProperties DEF String
<1>1. ASSUME NEW i \in 1..Len(b), i <= Len(a) + 1
      PROVE  SubSeq(a, 1, i - 1) = SubSeq(b, 1, i - 1) <=> Agree(a, b, i - 1)
  <2>1. i - 1 \in Nat /\ i - 1 <= Len(a) /\ i - 1 <= Len(b)
    BY <1>0, <1>1
  <2> QED
    BY <2>1, SameBeginning
<1>2. 1..Len(b) \subseteq Nat
  BY <1>0
<1> QED
  BY <1>1, <1>2 DEF Before, LessAt

(* ubus_strmatch_len.                                                       *)
LEMMA MatchLenIs ==
  ASSUME NEW a \in String, NEW b \in String
  PROVE  MatchLen(a, b) \in Nat /\ PartAt(a, b, MatchLen(a, b))
<1>0. Len(a) \in Nat /\ Len(b) \in Nat
  BY LenProperties DEF String
<1> DEFINE S == {n \in Nat : n = Len(a) \/ n = Len(b) \/ a[n + 1] # b[n + 1]}
<1>1. PICK n \in S : \A y \in S : n <= y
  <2>1. S \in SUBSET Nat /\ S # {}
    BY <1>0
  <2> HIDE DEF S
  <2> QED
    BY <2>1, LeastNumber
<1>2. n \in Nat /\ n <= Len(a) /\ n <= Len(b)
  BY <1>0, <1>1
<1>3. Agree(a, b, n)
  <2> SUFFICES ASSUME NEW j \in 1..n PROVE a[j] = b[j]
    BY DEF Agree
  <2>1. PICK x \in Nat : x < n /\ x + 1 = j
    <3>1. j - 1 \in Nat /\ j - 1 < n /\ (j - 1) + 1 = j
      BY <1>2
    <3> QED
      BY <3>1
  <2>2. x \notin S
    <3>1. ~(n <= x) /\ \A y \in S : n <= y
      BY <1>1, <1>2, <2>1
    <3> HIDE DEF S
    <3> QED
      BY <3>1, Zenon
  <2>3. a[x + 1] = b[x + 1]
    BY <2>2
  <2> QED
    BY <2>1, <2>3
<1>4. n < Len(a) /\ n < Len(b) => a[n + 1] # b[n + 1]
  BY <1>0, <1>1
<1> DEFINE P(m) == /\ m <= Len(b) /\ SubSeq(a, 1, m) = SubSeq(b, 1, m)
                   /\ m < Len(a) /\ m < Len(b) => a[m + 1] # b[m + 1]
<1>5. n \in 0..Len(a) /\ P(n)
  BY <1>0, <1>2, <1>3, <1>4, SameBeginning
<1>6. MatchLen(a, b) \in 0..Len(a) /\ P(MatchLen(a, b))
  <2>1. MatchLen(a, b) = CHOOSE m \in 0..Len(a) : P(m)
    BY DEF MatchLen
  <2> HIDE DEF P
  <2> QED
    BY <1>5, <2>1
<1> QED
  BY <1>0, <1>6, SameBeginning DEF PartAt

(* Before is asymmetric ...                                                 *)
LEMMA BeforeAsymmetric ==
  ASSUME NEW a \in String, NEW b \in String, Before(a, b)
  PROVE  ~Before(b, a)
<1> SUFFICES ASSUME Before(b, a) PROVE FALSE
  OBVIOUS
<1>0. Len(a) \in Nat /\ Len(b) \in Nat /\ (\A i \in 1..Len(a) : a[i] \in Nat) /\ \A i \in 1..Len(b) : b[i] \in Nat
  BY LenProperties, ElementOfSeq DEF String
<1>1. PICK i \in Nat : LessAt(a, b, i)
  BY BeforeIs
<1>2. PICK j \in Nat : LessAt(b, a, j)
  BY BeforeIs
<1>3. CASE i < j
  BY <1>0, <1>1, <1>2, <1>3 DEF LessAt, Agree
<1>4. CASE j < i
  BY <1>0, <1>1, <1>2, <1>4 DEF LessAt, Agree
<1>5. CASE i = j
  BY <1>0, <1>1, <1>2, <1>5 DEF LessAt
<1> QED
  BY <1>3, <1>4, <1>5

(* ... and what is not before t is behind what is before t.                 *)
LEMMA BeforeWeak ==
  ASSUME NEW e \in String, NEW t \in String, NEW u \in String, Before(e, t), ~Before(u, t)
  PROVE  Before(e, u)
<1>0. /\ Len(e) \in Nat /\ Len(t) \in Nat /\ Len(u) \in Nat
      /\ \A i \in 1..Len(e) : e[i] \in Nat
      /\ \A i \in 1..Len(t) : t[i] \in Nat
      /\ \A i \in 1..Len(u) : u[i] \in Nat
  BY LenProperties, ElementOfSeq DEF String
<1>1. PICK i \in Nat : LessAt(e, t, i)
  BY BeforeIs
<1>2. PICK m \in Nat : PartAt(u, t, m)
  BY MatchLenIs
<1>3. m = Len(t) \/ (m < Len(t) /\ m < Len(u) /\ t[m + 1] < u[m + 1])
  <2> SUFFICES ASSUME m < Len(t), m = Len(u) \/ ~(t[m + 1] < u[m + 1]) PROVE FALSE
    BY <1>0, <1>2 DEF PartAt
  <2>1. m < Len(u) => u[m + 1] < t[m + 1]
    BY <1>0, <1>2 DEF PartAt
  <2>2. LessAt(u, t, m + 1)
    BY <1>0, <1>2, <2>1 DEF LessAt, PartAt, Agree
  <2> QED
    BY <2>2, BeforeIs
<1>4. CASE m < i - 1
  <2>1. LessAt(e, u, m + 1)
    BY <1>0, <1>1, <1>2, <1>3, <1>4 DEF LessAt, PartAt, Agree
  <2> QED
    BY <2>1, BeforeIs
<1>5. CASE m >= i - 1
  <2>1. i \in 1..Len(u) /\ t[i] <= u[i]
    BY <1>0, <1>1, <1>2, <1>3, <1>5 DEF LessAt, PartAt, Agree
  <2>2. Agree(e, u, i - 1)
    BY <1>0, <1>1, <1>2, <1>5 DEF LessAt, PartAt, Agree
  <2>3. LessAt(e, u, i)
    BY <1>0, <1>1, <2>1, <2>2 DEF LessAt
  <2> QED
    BY <2>3, BeforeIs
<1> QED
  BY <1>4, <1>5

(* A pattern that begins a string is the one with which it matches wholly.   *)
LEMMA HitIs ==
  ASSUME NEW id \in String, NEW ev, ev.key \in String
  PROVE  /\ Hit(id, ev) <=> ev.key = id \/ (ev.partial /\ Begins(ev.key, id))
         /\ Begins(ev.key, id) <=> Len(ev.key) <= Len(id) /\ SubSeq(id, 1, Len(ev.key)) = ev.key
         /\ ev.key = id => Begins(ev.key, id)
<1> DEFINE key == ev.key
           m == MatchLen(id, key)
<1>0. Len(id) \in Nat /\ Len(key) \in Nat /\ key \in Seq(Nat)
  BY LenProperties DEF String
<1>1. m \in Nat /\ PartAt(id, key, m)
  BY MatchLenIs
<1> HIDE DEF m
<1>2. m = Len(key) => Begins(key, id)
  BY <1>0, <1>1 DEF PartAt, Begins, Agree
<1>3. ASSUME Begins(key, id) PROVE m = Len(key)
  BY <1>0, <1>1, <1>3 DEF PartAt, Begins, Agree
<1>4. Len(key) <= Len(id) => (SubSeq(id, 1, Len(key)) = key <=> Agree(id, key, Len(key)))
  <2>1. SubSeq(key, 1, Len(key)) = key
    BY <1>0, SubSeqFull
  <2> QED
    BY <1>0, <2>1, SameBeginning
<1>5. Agree(id, key, Len(key)) <=> Agree(key, id, Len(key))
  BY DEF Agree
<1>6. key = id => Begins(key, id)
  BY <1>0 DEF Begins, Agree
<1> QED
  BY <1>2, <1>3, <1>4, <1>5, <1>6 DEF Hit, Begins, m

(* The early exit.  prev is the entry before cur, the match with cur is the  *)
(* shorter one, and u is cur or comes later: u does not begin id.           *)
LEMMA ShorterMatchEnds ==
  ASSUME NEW id \in String, NEW prev \in String, NEW cur \in String, NEW u \in String,
         ~Before(cur, prev), ~Before(u, cur), MatchLen(id, cur) < MatchLen(id, prev)
  PROVE  ~Begins(u, id)
<1> SUFFICES ASSUME Begins(u, id) PROVE FALSE
  OBVIOUS
<1>0. /\ Len(id) \in Nat /\ Len(prev) \in Nat /\ Len(cur) \in Nat /\ Len(u) \in Nat
      /\ \A i \in 1..Len(id) : id[i] \in Nat
      /\ \A i \in 1..Len(prev) : prev[i] \in Nat
      /\ \A i \in 1..Len(cur) : cur[i] \in Nat
  BY LenProperties, ElementOfSeq DEF String
<1>1. PICK m \in Nat : m = MatchLen(id, cur) /\ PartAt(id, cur, m)
  BY MatchLenIs
<1>2. PICK l \in Nat : l = MatchLen(id, prev) /\ PartAt(id, prev, l)
  BY MatchLenIs
<1>3. m < l
  BY <1>1, <1>2
<1>4. /\ m + 1 \in 1..Len(prev) /\ m + 1 \in 1..Len(id) /\ prev[m + 1] = id[m + 1]
      /\ Agree(cur, prev, m) /\ m <= Len(cur)
  BY <1>0, <1>1, <1>2, <1>3 DEF PartAt, Agree
<1>5. m < Len(cur) /\ id[m + 1] < cur[m + 1]
  <2> SUFFICES ASSUME m < Len(cur) => ~(id[m + 1] < cur[m + 1]) PROVE FALSE
    BY <1>0, <1>4
  <2>1. m < Len(cur) => cur[m + 1] < prev[m + 1]
    BY <1>0, <1>1, <1>4 DEF PartAt
  <2>2. LessAt(cur, prev, m + 1)
    BY <1>0, <1>4, <2>1 DEF LessAt, Agree
  <2> QED
    BY <2>2, BeforeIs
<1>6. CASE Len(u) <= m
  <2>1. LessAt(u, cur, Len(u) + 1)
    BY <1>0, <1>1, <1>5, <1>6 DEF LessAt, PartAt, Begins, Agree
  <2> QED
    BY <1>0, <2>1, BeforeIs
<1>7. CASE Len(u) > m
  <2>1. LessAt(u, cur, m + 1)
    BY <1>0, <1>1, <1>5, <1>7 DEF LessAt, PartAt, Begins, Agree
  <2> QED
    BY <2>1, BeforeIs
<1> QED
  BY <1>0, <1>6, <1>7

----------------------------------------------------------------------------
Sorted(tree) == \A i, j \in 1..Len(tree) : i < j => ~Before(tree[j].key, tree[i].key)

(* A source has a string and an object.                                     *)
LEMMA SourceKey ==
  ASSUME NEW ev \in Source
  PROVE  ev.key \in String /\ ev.obj \in Object
  BY StringsAssumption DEF Source, String

(* So do all sources of the tree.                                           *)
LEMMA TreeKey ==
  ASSUME NEW tree \in Seq(Source), NEW i \in 1..Len(tree)
  PROVE  tree[i] \in Source /\ tree[i].key \in String /\ tree[i].obj \in Object
<1>1. tree[i] \in Source
  BY ElementOfSeq
<1> QED
  BY <1>1, SourceKey

(* There is a place for every new entry of a sorted tree.                   *)
LEMMA InsertPlace ==
  ASSUME NEW tree \in Seq(Source), Sorted(tree), NEW ev \in Source
  PROVE  \E k \in 0..Len(tree) : \A i \in 1..Len(tree) : Before(ev.key, tree[i].key) <=> i > k
<1>0. Len(tree) \in Nat
  BY LenProperties
<1> DEFINE S == {i \in 1..Len(tree) : Before(ev.key, tree[i].key)}
<1>1. CASE S = {}
  <2>1. \A i \in 1..Len(tree) : ~Before(ev.key, tree[i].key) /\ ~(i > Len(tree))
    BY <1>0, <1>1
  <2>2. Len(tree) \in 0..Len(tree)
    BY <1>0
  <2> QED
    BY <2>1, <2>2
<1>2. CASE S # {}
  <2>1. PICK x \in S : \A y \in S : x <= y
    <3>1. S \in SUBSET Nat
      BY <1>0
    <3> HIDE DEF S
    <3> QED
      BY <1>2, <3>1, LeastNumber
  <2>2. x \in 1..Len(tree) /\ Before(ev.key, tree[x].key)
    OBVIOUS
  <2>3. ASSUME NEW i \in 1..Len(tree), i > x - 1 PROVE Before(ev.key, tree[i].key)
    <3>1. CASE i = x
      BY <2>2, <3>1
    <3>2. CASE i # x
      <4>1. x < i
        BY <1>0, <2>2, <2>3, <3>2
      <4>2. ~Before(tree[i].key, tree[x].key)
        BY <2>2, <4>1 DEF Sorted
      <4> QED
        BY <2>2, <4>2, SourceKey, TreeKey, BeforeWeak
    <3> QED
      BY <3>1, <3>2
  <2>4. ASSUME NEW i \in 1..Len(tree), Before(ev.key, tree[i].key) PROVE i > x - 1
    <3>1. i \in S
      BY <2>4
    <3>2. x <= i
      BY <2>1, <3>1
    <3> QED
      BY <1>0, <2>2, <3>2
  <2>5. x - 1 \in 0..Len(tree)
    BY <1>0, <2>2
  <2> QED
    BY <2>3, <2>4, <2>5
<1> QED
  BY <1>1, <1>2

(* ubusd_alloc_event_pattern keeps the tree in order.                       *)
LEMMA InsertKeepsOrder ==
  ASSUME NEW tree \in Seq(Source), Sorted(tree), NEW ev \in Source
  PROVE  Insert(tree, ev) \in Seq(Source) /\ Sorted(Insert(tree, ev))
<1> DEFINE Place(n) == \A i \in 1..Len(tree) : Before(ev.key, tree[i].key) <=> i > n
           T == Insert(tree, ev)
<1>0. Len(tree) \in Nat
  BY LenProperties
<1>1. PICK k \in 0..Len(tree) : Place(k) /\ T = SubSeq(tree, 1, k) \o <<ev>> \o SubSeq(tree, k + 1, Len(tree))
  <2>1. \E n \in 0..Len(tree) : Place(n)
    BY InsertPlace
  <2>2. T = LET n == CHOOSE m \in 0..Len(tree) : Place(m)
            IN  SubSeq(tree, 1, n) \o <<ev>> \o SubSeq(tree, n + 1, Len(tree))
    BY DEF Insert
  <2> HIDE DEF Place, T
  <2> QED
    BY <2>1, <2>2
<1> HIDE DEF T
<1> DEFINE L == SubSeq(tree, 1, k)
           R == SubSeq(tree, k + 1, Len(tree))
<1>2. L \in Seq(Source) /\ Len(L) = k /\ \A i \in 1..k : L[i] = tree[i]
  <2>1. \A i \in 1..k : tree[i] \in Source
    BY <1>0, ElementOfSeq
  <2>2. \A i \in 1..((k - 1) + 1) : SubSeq(tree, 1, k)[i] = tree[(1 + i) - 1]
    BY <1>0, <2>1, SubSeqProperties
  <2> QED
    BY <1>0, <2>1, <2>2, SubSeqProperties
<1>3. R \in Seq(Source) /\ Len(R) = Len(tree) - k /\ \A i \in 1..(Len(tree) - k) : R[i] = tree[k + i]
  <2>1. \A i \in (k + 1)..Len(tree) : tree[i] \in Source
    BY <1>0, ElementOfSeq
  <2>2. \A i \in 1..((Len(tree) - (k + 1)) + 1) : SubSeq(tree, k + 1, Len(tree))[i] = tree[((k + 1) + i) - 1]
    BY <1>0, <2>1, SubSeqProperties
  <2>3. \A i \in 1..(Len(tree) - k) : R[i] = tree[k + i]
    <3> TAKE i \in 1..(Len(tree) - k)
    <3>1. i \in 1..((Len(tree) - (k + 1)) + 1) /\ ((k + 1) + i) - 1 = k + i
      BY <1>0
    <3> QED
      BY <2>2, <3>1
  <2>4. R \in Seq(Source) /\ Len(R) = IF k + 1 <= Len(tree) THEN (Len(tree) - (k + 1)) + 1 ELSE 0
    BY <1>0, <2>1, SubSeqProperties
  <2> QED
    BY <1>0, <2>3, <2>4
<1> HIDE DEF L, R
<1>4. /\ T \in Seq(Source) /\ Len(T) = Len(tree) + 1
      /\ \A i \in 1..(Len(tree) + 1) :
           T[i] = IF i <= k THEN tree[i] ELSE IF i = k + 1 THEN ev ELSE tree[i - 1]
  <2>0. T = L \o <<ev>> \o R /\ <<ev>> \in Seq(Source) /\ Len(<<ev>>) = 1 /\ <<ev>>[1] = ev
    BY <1>1 DEF L, R
  <2>1. /\ L \o <<ev>> \in Seq(Source) /\ Len(L \o <<ev>>) = k + 1
        /\ \A i \in 1..(k + 1) : (L \o <<ev>>)[i] = IF i <= k THEN tree[i] ELSE ev
    <3>1. /\ L \o <<ev>> \in Seq(Source) /\ Len(L \o <<ev>>) = k + 1
          /\ \A i \in 1..(k + 1) : (L \o <<ev>>)[i] = IF i <= k THEN L[i] ELSE <<ev>>[i - k]
      BY <1>2, <2>0, ConcatProperties
    <3> QED
      BY <1>0, <1>2, <2>0, <3>1
  <2>2. /\ T \in Seq(Source) /\ Len(T) = (k + 1) + Len(R)
        /\ \A i \in 1..((k + 1) + Len(R)) :
             T[i] = IF i <= k + 1 THEN (L \o <<ev>>)[i] ELSE R[i - (k + 1)]
    <3>1. PICK M \in Seq(Source) : M = L \o <<ev>> /\ Len(M) = k + 1
      BY <2>1
    <3>2. T = M \o R /\ M \o R \in Seq(Source) /\ Len(M \o R) = Len(M) + Len(R)
      BY <1>3, <2>0, <3>1, ConcatProperties
    <3>3. \A i \in 1..(Len(M) + Len(R)) : (M \o R)[i] = IF i <= Len(M) THEN M[i] ELSE R[i - Len(M)]
      BY <1>3, ConcatProperties
    <3> QED
      BY <3>1, <3>2, <3>3
  <2>3. ASSUME NEW i \in 1..(Len(tree) + 1), i > k + 1 PROVE T[i] = tree[i - 1]
    <3>1. i - (k + 1) \in 1..(Len(tree) - k) /\ k + (i - (k + 1)) = i - 1
      BY <1>0, <2>3
    <3>2. i \in 1..((k + 1) + Len(R)) /\ ~(i <= k + 1)
      BY <1>0, <1>3, <2>3
    <3>3. T[i] = R[i - (k + 1)]
      BY <2>2, <3>2
    <3>4. R[i - (k + 1)] = tree[k + (i - (k + 1))]
      BY <1>3, <3>1
    <3> QED
      BY <3>1, <3>3, <3>4
  <2>4. ASSUME NEW i \in 1..(Len(tree) + 1), i <= k + 1
        PROVE  T[i] = IF i <= k THEN tree[i] ELSE ev
    <3>1. i \in 1..((k + 1) + Len(R)) /\ i \in 1..(k + 1)
      BY <1>0, <1>3, <2>4
    <3>2. T[i] = (L \o <<ev>>)[i]
      BY <2>2, <2>4, <3>1
    <3> QED
      BY <2>1, <3>1, <3>2
  <2>5. Len(T) = Len(tree) + 1
    BY <1>0, <1>3, <2>2
  <2>6. ASSUME NEW i \in 1..(Len(tree) + 1)
        PROVE  T[i] = IF i <= k THEN tree[i] ELSE IF i = k + 1 THEN ev ELSE tree[i - 1]
    <3>1. CASE i > k + 1
      BY <1>0, <2>3, <3>1
    <3>2. CASE i <= k + 1
      BY <1>0, <2>4, <3>2
    <3> QED
      BY <1>0, <3>1, <3>2
  <2> QED
    BY <2>2, <2>5, <2>6
<1>5. Sorted(T)
  <2> SUFFICES ASSUME NEW i \in 1..(Len(tree) + 1), NEW j \in 1..(Len(tree) + 1), i < j
               PROVE  ~Before(T[j].key, T[i].key)
    BY <1>4 DEF Sorted
  <2>1. CASE i # k + 1 /\ j # k + 1
    <3>1. PICK x, y \in 1..Len(tree) : x < y /\ T[i] = tree[x] /\ T[j] = tree[y]
      <4> DEFINE x == IF i <= k THEN i ELSE i - 1
                 y == IF j <= k THEN j ELSE j - 1
      <4>1. x \in 1..Len(tree) /\ y \in 1..Len(tree) /\ x < y
        BY <1>0, <2>1
      <4>2. T[i] = tree[x] /\ T[j] = tree[y]
        BY <1>0, <1>4, <2>1
      <4> QED
        BY <4>1, <4>2
    <3> QED
      BY <3>1 DEF Sorted
  <2>2. CASE j = k + 1
    <3>1. i \in 1..Len(tree) /\ i <= k /\ T[i] = tree[i] /\ T[j] = ev
      BY <1>0, <1>4, <2>2
    <3>2. ~(i > k)
      BY <1>0, <3>1
    <3> QED
      BY <1>1, <3>1, <3>2
  <2>3. CASE i = k + 1
    <3>1. j - 1 \in 1..Len(tree) /\ j - 1 > k /\ T[j] = tree[j - 1] /\ T[i] = ev
      BY <1>0, <1>4, <2>3
    <3>2. Before(ev.key, tree[j - 1].key)
      BY <1>1, <3>1
    <3> QED
      BY <3>1, <3>2, SourceKey, TreeKey, BeforeAsymmetric
  <2> QED
    BY <2>1, <2>2, <2>3
<1> QED
  BY <1>4, <1>5 DEF T
----------------------------------------------------------------------------
\* An entry that the traversal has passed is a pattern of o that the event hits.
Served(o) == \E i \in 1..Len(patterns) : i < loop.at /\ patterns[i].obj = o /\ Hit(loop.id, patterns[i])

EventTypes ==
    /\ patterns \in Seq(Source)
    /\ event_seen \in [Object -> Nat] /\ obj_event_seq \in Nat
    /\ \A o \in Object : event_seen[o] <= obj_event_seq
    /\ got \in [Object -> Nat]

\* Where the running traversal is, and the length of the match before it.
LoopInv ==
    /\ loop \in [id : EventId, from : Sender, at : Nat, match_len : Nat, seq : Nat]
    /\ loop.at >= 1 /\ loop.at <= Len(patterns) + 1
    /\ loop.seq <= obj_event_seq
    /\ loop.match_len = IF loop.at = 1 THEN 0 ELSE MatchLen(loop.id, patterns[loop.at - 1].key)

\* What it has delivered, interrupted or not ...
GotInv == \A o \in Object : got[o] > 0 => Served(o) /\ Owner[o] # loop.from

\* ... and, if it was not interrupted, all that it has delivered.
WholeInv ==
    loop.seq = obj_event_seq => \A o \in Object :
      /\ got[o] = IF Served(o) /\ Owner[o] # loop.from THEN 1 ELSE 0
      /\ event_seen[o] = obj_event_seq <=> got[o] = 1

\* Whose message has been sent, or is about to be: to be another text the
\* event has to be interrupted for one that is sent to somebody.
TextInv ==
    /\ dest \cup strange \subseteq {o \in Object : got[o] > 0}
    /\ ub = "other" \/ strange # {} => loop.seq < obj_event_seq /\ AclListeners # {}

EventInv == /\ EventTypes /\ Sorted(patterns)
            /\ loop = Idle \/ (LoopInv /\ GotInv /\ WholeInv /\ TextInv)

----------------------------------------------------------------------------
(* Before any source is registered the invariant holds.                     *)
LEMMA EventInitially == Init => EventInv
<1> SUFFICES ASSUME Init PROVE EventInv
  OBVIOUS
<1>1. patterns = <<>> /\ patterns \in Seq(Source) /\ Len(patterns) = 0
  BY EmptySeq DEF Init
<1>2. Sorted(patterns)
  BY <1>1 DEF Sorted
<1>3. EventTypes
  BY <1>1 DEF Init, EventTypes
<1> QED
  BY <1>2, <1>3 DEF Init, EventInv

(* A new source: the tree stays in order (InsertKeepsOrder).                *)
LEMMA AllocStep ==
  ASSUME EventInv, NEW ev \in Source, ubusd_alloc_event_pattern(ev)
  PROVE  EventInv'
<1>1. patterns \in Seq(Source) /\ Sorted(patterns)
  BY DEF EventInv, EventTypes
<1>2. patterns' \in Seq(Source) /\ Sorted(patterns')
  <2>1. Insert(patterns, ev) \in Seq(Source) /\ Sorted(Insert(patterns, ev))
    BY <1>1, InsertKeepsOrder
  <2>2. patterns' = Insert(patterns, ev)
    BY DEF ubusd_alloc_event_pattern
  <2> QED
    BY <2>1, <2>2
<1>3. got' = [o \in Object |-> 0] /\ event_seen' = event_seen /\ obj_event_seq' = obj_event_seq /\ loop' = Idle
      /\ ub' = ub /\ dest' = dest /\ strange' = strange
  BY DEF ubusd_alloc_event_pattern, message
<1>4. EventTypes'
  BY <1>2, <1>3 DEF EventInv, EventTypes
<1>5. Idle' = Idle
  BY DEF Idle
<1>6. Sorted(patterns)'
  BY <1>2 DEF Sorted, Before
<1> QED
  BY <1>3, <1>4, <1>5, <1>6 DEF EventInv

(* An event begins: no object has seen its number.                          *)
LEMMA SendStep ==
  ASSUME EventInv, NEW from \in Sender, NEW id \in EventId, ubusd_send_event(from, id)
  PROVE  EventInv'
<1>1. /\ patterns \in Seq(Source) /\ Sorted(patterns) /\ Len(patterns) \in Nat
      /\ event_seen \in [Object -> Nat] /\ obj_event_seq \in Nat
      /\ \A o \in Object : event_seen[o] <= obj_event_seq
  BY LenProperties DEF EventInv, EventTypes
<1>2. /\ obj_event_seq' = obj_event_seq + 1 /\ patterns' = patterns /\ event_seen' = event_seen
      /\ got' = [o \in Object |-> 0]
      /\ loop' = [id |-> id, from |-> from, at |-> 1, match_len |-> 0, seq |-> obj_event_seq + 1]
      /\ ub' = "none" /\ dest' = {} /\ strange' = {}
  BY DEF ubusd_send_event
<1>3. EventTypes'
  BY <1>1, <1>2 DEF EventTypes
<1>4. Sorted(patterns)'
  BY <1>1, <1>2 DEF Sorted
<1>5. LoopInv'
  BY <1>1, <1>2 DEF LoopInv
<1>6. \A o \in Object : ~Served(o)'
  BY <1>1, <1>2 DEF Served
<1>7. GotInv'
  BY <1>2 DEF GotInv
<1>8. WholeInv'
  <2> SUFFICES ASSUME NEW o \in Object
               PROVE  got'[o] = 0 /\ ~Served(o)' /\ event_seen'[o] # obj_event_seq'
    BY DEF WholeInv
  <2> QED
    BY <1>1, <1>2, <1>6
<1>9. TextInv'
  BY <1>2 DEF TextInv
<1> QED
  BY <1>3, <1>4, <1>5, <1>7, <1>8, <1>9 DEF EventInv

(* One entry: after it the objects served are those before and, if the       *)
(* event hits the entry, the entry's.                                       *)
LEMMA VisitStep ==
  ASSUME EventInv, Visit
  PROVE  EventInv'
<1> DEFINE ev == patterns[loop.at]
<1>1. /\ patterns \in Seq(Source) /\ Sorted(patterns) /\ Len(patterns) \in Nat
      /\ event_seen \in [Object -> Nat] /\ obj_event_seq \in Nat /\ got \in [Object -> Nat]
      /\ \A o \in Object : event_seen[o] <= obj_event_seq
  BY LenProperties DEF EventInv, EventTypes
<1>2. loop.at \in 1..Len(patterns)
  BY DEF Visit
<1>3. LoopInv /\ GotInv /\ WholeInv /\ TextInv
  <2>1. loop # Idle
    BY <1>1, <1>2 DEF Idle
  <2> QED
    BY <2>1 DEF EventInv
<1>4. /\ loop \in [id : EventId, from : Sender, at : Nat, match_len : Nat, seq : Nat]
      /\ loop.seq <= obj_event_seq /\ loop.id \in String
      /\ ev.obj \in Object /\ MatchLen(loop.id, ev.key) \in Nat
  <2>1. loop \in [id : EventId, from : Sender, at : Nat, match_len : Nat, seq : Nat] /\ loop.seq <= obj_event_seq
    BY <1>3 DEF LoopInv
  <2>2. loop.id \in String
    BY <2>1, StringsAssumption DEF String
  <2> QED
    BY <1>1, <1>2, <2>1, <2>2, TreeKey, MatchLenIs
<1>5. /\ loop' = [loop EXCEPT !.at = loop.at + 1, !.match_len = MatchLen(loop.id, ev.key)]
      /\ patterns' = patterns /\ obj_event_seq' = obj_event_seq /\ strange' = strange /\ dest = {}
      /\ IF Hit(loop.id, ev) THEN ubusd_send_event_msg(loop.from, ev.obj)
                             ELSE UNCHANGED <<event_seen, got, ub, dest>>
  BY DEF Visit
<1>6. /\ loop' \in [id : EventId, from : Sender, at : Nat, match_len : Nat, seq : Nat]
      /\ loop'.at = loop.at + 1 /\ loop'.match_len = MatchLen(loop.id, ev.key)
      /\ loop'.id = loop.id /\ loop'.from = loop.from /\ loop'.seq = loop.seq
  <2>1. PICK n \in Nat : n = MatchLen(loop.id, ev.key)
    BY <1>4
  <2>2. loop' = [loop EXCEPT !.at = loop.at + 1, !.match_len = n]
    BY <1>5, <2>1
  <2>3. loop' = [id |-> loop.id, from |-> loop.from, at |-> loop.at + 1, match_len |-> n, seq |-> loop.seq]
    BY <1>4, <2>2
  <2> QED
    BY <1>4, <2>1, <2>3
<1>7. LoopInv'
  <2>1. loop'.at # 1 /\ loop'.at - 1 = loop.at /\ loop'.at <= Len(patterns) + 1
    BY <1>1, <1>2, <1>6
  <2> QED
    BY <1>2, <1>4, <1>5, <1>6, <2>1 DEF LoopInv
<1>8. Sorted(patterns)'
  BY <1>1, <1>5 DEF Sorted
<1>9. ASSUME NEW o \in Object
      PROVE  Served(o)' <=> Served(o) \/ (o = ev.obj /\ Hit(loop.id, ev))
  <2>1. \A i \in 1..Len(patterns) : i < loop'.at <=> i < loop.at \/ i = loop.at
    BY <1>1, <1>2, <1>6
  <2> QED
    BY <1>2, <1>5, <1>6, <2>1 DEF Served
<1>10. CASE Hit(loop.id, ev) /\ Owner[ev.obj] # loop.from /\ event_seen[ev.obj] # obj_event_seq
  <2>1. /\ event_seen' = [event_seen EXCEPT ![ev.obj] = obj_event_seq]
        /\ got' = [got EXCEPT ![ev.obj] = got[ev.obj] + 1]
        /\ ub' = (IF ub = "none" THEN "own" ELSE ub) /\ dest' = {ev.obj}
    BY <1>5, <1>10 DEF ubusd_send_event_msg
  <2>2. EventTypes'
    BY <1>1, <1>4, <1>5, <2>1 DEF EventInv, EventTypes
  <2>3. GotInv'
    <3> SUFFICES ASSUME NEW o \in Object, got'[o] > 0
                 PROVE  Served(o)' /\ Owner[o] # loop.from
      BY <1>6 DEF GotInv
    <3>1. CASE o = ev.obj
      BY <1>9, <1>10, <3>1
    <3>2. CASE o # ev.obj
      BY <1>1, <1>3, <1>9, <2>1, <3>2 DEF GotInv
    <3> QED
      BY <3>1, <3>2
  <2>4. WholeInv'
    <3> SUFFICES ASSUME loop.seq = obj_event_seq, NEW o \in Object
                 PROVE  /\ got'[o] = IF Served(o)' /\ Owner[o] # loop.from THEN 1 ELSE 0
                        /\ event_seen'[o] = obj_event_seq <=> got'[o] = 1
      BY <1>5, <1>6 DEF WholeInv
    <3>0. /\ got[o] = IF Served(o) /\ Owner[o] # loop.from THEN 1 ELSE 0
          /\ event_seen[o] = obj_event_seq <=> got[o] = 1
      BY <1>3 DEF WholeInv
    <3>1. CASE o = ev.obj
      <4>1. Served(o)' /\ got[o] = 0
        BY <1>9, <1>10, <3>0, <3>1
      <4> QED
        BY <1>1, <1>10, <2>1, <3>1, <4>1
    <3>2. CASE o # ev.obj
      <4>1. (Served(o)' <=> Served(o)) /\ got'[o] = got[o] /\ event_seen'[o] = event_seen[o]
        BY <1>1, <1>9, <2>1, <3>2
      <4> QED
        BY <3>0, <4>1
    <3> QED
      BY <3>1, <3>2
  <2>5. TextInv'
    <3>1. ASSUME NEW o \in dest' \cup strange' PROVE o \in Object /\ got'[o] > 0
      BY <1>1, <1>3, <1>4, <1>5, <2>1 DEF TextInv
    <3>2. AclListeners' = AclListeners
      BY <1>5 DEF AclListeners
    <3>3. ub' = "other" <=> ub = "other"
      BY <2>1
    <3> QED
      BY <1>3, <1>5, <1>6, <3>1, <3>2, <3>3 DEF TextInv
  <2> QED
    BY <1>7, <1>8, <2>2, <2>3, <2>4, <2>5 DEF EventInv
<1>11. CASE ~(Hit(loop.id, ev) /\ Owner[ev.obj] # loop.from /\ event_seen[ev.obj] # obj_event_seq)
  <2>1. event_seen' = event_seen /\ got' = got /\ ub' = ub /\ dest' = dest
    BY <1>5, <1>11 DEF ubusd_send_event_msg
  <2>2. EventTypes'
    BY <1>1, <1>5, <2>1 DEF EventInv, EventTypes
  <2>3. GotInv'
    BY <1>3, <1>6, <1>9, <2>1 DEF GotInv
  <2>4. WholeInv'
    <3> SUFFICES ASSUME loop.seq = obj_event_seq, NEW o \in Object
                 PROVE  /\ got[o] = IF Served(o)' /\ Owner[o] # loop.from THEN 1 ELSE 0
                        /\ event_seen[o] = obj_event_seq <=> got[o] = 1
      BY <1>5, <1>6, <2>1 DEF WholeInv
    <3>0. /\ got[o] = IF Served(o) /\ Owner[o] # loop.from THEN 1 ELSE 0
          /\ event_seen[o] = obj_event_seq <=> got[o] = 1
      BY <1>3 DEF WholeInv
    <3>1. CASE o = ev.obj /\ Hit(loop.id, ev)
      <4>1. Owner[o] = loop.from \/ Served(o)
        BY <1>11, <3>0, <3>1
      <4> QED
        BY <1>9, <3>0, <3>1, <4>1
    <3>2. CASE ~(o = ev.obj /\ Hit(loop.id, ev))
      BY <1>9, <3>0, <3>2
    <3> QED
      BY <3>1, <3>2
  <2>5. TextInv'
    <3>1. AclListeners' = AclListeners
      BY <1>5 DEF AclListeners
    <3> QED
      BY <1>3, <1>5, <1>6, <2>1, <3>1 DEF TextInv
  <2> QED
    BY <1>7, <1>8, <2>2, <2>3, <2>4, <2>5 DEF EventInv
<1> QED
  BY <1>10, <1>11

(* The message is sent to the object it is made out to.                     *)
LEMMA DeliverStep ==
  ASSUME EventInv, Deliver
  PROVE  EventInv'
<1>1. /\ UNCHANGED <<patterns, event_seen, obj_event_seq, loop, ub, got>>
      /\ dest' = {} /\ strange' \in {strange, strange \cup dest}
      /\ strange' # {} => ub = "other" \/ strange # {}
  BY DEF Deliver
<1>2. EventTypes'
  BY <1>1 DEF EventInv, EventTypes
<1>3. Sorted(patterns)' /\ Idle' = Idle
  BY <1>1 DEF EventInv, Sorted, Idle
<1>4. ASSUME loop # Idle PROVE LoopInv' /\ GotInv' /\ WholeInv'
  BY <1>1, <1>4 DEF EventInv, LoopInv, GotInv, WholeInv, Served
<1>5. ASSUME loop # Idle PROVE TextInv'
  <2>1. AclListeners' = AclListeners
    BY <1>1 DEF AclListeners
  <2> QED
    BY <1>1, <1>5, <2>1 DEF EventInv, TextInv
<1> QED
  BY <1>1, <1>2, <1>3, <1>4, <1>5 DEF EventInv

(* SIGHUP in a traversal: its number is no longer the current one.          *)
LEMMA SighupStep ==
  ASSUME EventInv, sighup_handler
  PROVE  EventInv'
<1>1. /\ event_seen \in [Object -> Nat] /\ obj_event_seq \in Nat
      /\ \A o \in Object : event_seen[o] <= obj_event_seq
  BY DEF EventInv, EventTypes
<1>2. /\ obj_event_seq' = obj_event_seq + 1 /\ patterns' = patterns /\ loop' = loop /\ got' = got
      /\ event_seen' \in [Object -> Nat]
      /\ \A o \in Object : event_seen'[o] = obj_event_seq + 1 \/ event_seen'[o] = event_seen[o]
      /\ dest' = dest /\ strange' = strange
      /\ ub' = (IF ub = "own" /\ AclListeners # {} THEN "other" ELSE ub)
  BY <1>1 DEF sighup_handler
<1>3. loop # Idle /\ LoopInv /\ GotInv /\ TextInv
  BY DEF sighup_handler, EventInv
<1>4. EventTypes'
  <2>1. \A o \in Object : event_seen'[o] <= obj_event_seq'
    BY <1>1, <1>2
  <2> QED
    BY <1>1, <1>2, <2>1 DEF EventInv, EventTypes
<1>5. Sorted(patterns)'
  BY <1>2 DEF EventInv, Sorted
<1>6. loop.seq \in Nat /\ loop.seq <= obj_event_seq
  BY <1>3 DEF LoopInv
<1>7. LoopInv'
  BY <1>1, <1>2, <1>3, <1>6 DEF LoopInv
<1>8. GotInv'
  BY <1>2, <1>3 DEF GotInv, Served
<1>9. WholeInv'
  BY <1>1, <1>2, <1>6 DEF WholeInv
<1>10. TextInv'
  <2>1. AclListeners' = AclListeners
    BY <1>2 DEF AclListeners
  <2>2. loop.seq < obj_event_seq + 1
    BY <1>1, <1>6
  <2> QED
    BY <1>2, <1>3, <2>1, <2>2 DEF TextInv
<1> QED
  BY <1>4, <1>5, <1>7, <1>8, <1>9, <1>10 DEF EventInv

(* Every step keeps the invariant.                                          *)
LEMMA EventStep == EventInv /\ [Next]_vars => EventInv'
<1> SUFFICES ASSUME EventInv, [Next]_vars PROVE EventInv'
  OBVIOUS
<1>1. CASE \E ev \in Source : ubusd_alloc_event_pattern(ev)
  BY <1>1, AllocStep
<1>2. CASE \E from \in Sender, id \in EventId : ubusd_send_event(from, id)
  BY <1>2, SendStep
<1>3. CASE Visit
  BY <1>3, VisitStep
<1>4. CASE Return
  <2>1. loop' = Idle /\ UNCHANGED <<patterns, event_seen, obj_event_seq, got, ub, dest, strange>>
    BY <1>4 DEF Return, message
  <2>2. Idle' = Idle
    BY DEF Idle
  <2> QED
    BY <2>1, <2>2 DEF EventInv, EventTypes, Sorted
<1>5. CASE sighup_handler
  BY <1>5, SighupStep
<1>6. CASE UNCHANGED vars
  BY <1>6 DEF vars, message, EventInv, EventTypes, Sorted, LoopInv, GotInv, WholeInv, Served, Idle,
              TextInv, AclListeners
<1>7. CASE Deliver
  BY <1>7, DeliverStep
<1> QED
  BY <1>1, <1>2, <1>3, <1>4, <1>5, <1>6, <1>7 DEF Next

(* Who has an entry that the event hits listens to it.                      *)
LEMMA HitListens ==
  ASSUME EventTypes, LoopInv, NEW i \in 1..Len(patterns)
  PROVE  /\ loop.id \in String /\ patterns[i].key \in String
         /\ Hit(loop.id, patterns[i]) <=>
              \/ patterns[i].key = loop.id
              \/ /\ patterns[i].partial /\ Len(patterns[i].key) <= Len(loop.id)
                 /\ SubSeq(loop.id, 1, Len(patterns[i].key)) = patterns[i].key
         /\ Hit(loop.id, patterns[i]) => Begins(patterns[i].key, loop.id)
<1>1. loop.id \in String
  BY StringsAssumption DEF LoopInv, String
<1>2. patterns[i].key \in String
  BY TreeKey DEF EventTypes
<1> QED
  BY <1>1, <1>2, HitIs

(* When a traversal returns it has passed an entry of every listener: the    *)
(* entries behind the first shorter match do not match (ShorterMatchEnds).   *)
LEMMA ReturnServedAll ==
  ASSUME EventTypes, Sorted(patterns), LoopInv, Return, NEW o \in Object
  PROVE  Listens(o, loop.id) <=> Served(o)
<1>0. patterns \in Seq(Source) /\ Len(patterns) \in Nat /\ loop.at \in Nat
  BY LenProperties DEF EventTypes, LoopInv
<1>1. ASSUME Served(o) PROVE Listens(o, loop.id)
  BY <1>1, HitListens DEF Served, Listens
<1>2. ASSUME Listens(o, loop.id) PROVE Served(o)
  <2>1. PICK i \in 1..Len(patterns) : patterns[i].obj = o /\ Hit(loop.id, patterns[i])
    BY <1>2, HitListens DEF Listens
  <2>2. ASSUME ~(i < loop.at) PROVE FALSE
    <3>1. loop.at \in 1..Len(patterns)
      BY <1>0, <2>2 DEF LoopInv
    <3>2. MatchLen(loop.id, patterns[loop.at].key) < loop.match_len
      BY <1>0, <3>1 DEF Return
    <3>3. MatchLen(loop.id, patterns[loop.at].key) \in Nat
      BY <3>1, HitListens, MatchLenIs
    <3>4. loop.at # 1 /\ loop.match_len = MatchLen(loop.id, patterns[loop.at - 1].key)
      BY <3>2, <3>3 DEF LoopInv
    <3>5. loop.at - 1 \in 1..Len(patterns) /\ loop.at - 1 < loop.at
      BY <1>0, <3>1, <3>4
    <3>6. ~Before(patterns[loop.at].key, patterns[loop.at - 1].key)
      BY <3>1, <3>5 DEF Sorted
    <3>7. ~Before(patterns[i].key, patterns[loop.at].key)
      <4>1. CASE i = loop.at
        BY <4>1, HitListens, BeforeAsymmetric
      <4>2. CASE loop.at < i
        BY <3>1, <4>2 DEF Sorted
      <4> QED
        BY <1>0, <2>2, <4>1, <4>2
    <3>8. loop.id \in String /\ patterns[i].key \in String
      BY HitListens
    <3>9. patterns[loop.at].key \in String /\ patterns[loop.at - 1].key \in String
      BY <3>1, <3>5, HitListens
    <3>10. ~Begins(patterns[i].key, loop.id)
      BY <3>2, <3>4, <3>6, <3>7, <3>8, <3>9, ShorterMatchEnds
    <3> QED
      BY <2>1, <3>10, HitListens
  <2> QED
    BY <2>1, <2>2 DEF Served
<1> QED
  BY <1>1, <1>2

----------------------------------------------------------------------------
(* The invariant holds throughout.                                          *)
LEMMA EventAlways == Spec => []EventInv
  BY EventInitially, EventStep, PTL DEF Spec

(* Whatever interrupts a delivery (sighup_handler), an object that the event *)
(* of ubusd_send_event is made out to listens to it and is not the sender's; *)
(* and it is sent that event, not the one that overwrites the message in the *)
(* shared buffer, unless this very delivery was interrupted and the ACL      *)
(* event has a listener.                                                    *)
THEOREM OnlyListeners == Spec => []OnlyListenersServed
<1>1. EventInv => OnlyListenersServed
  <2> SUFFICES ASSUME EventInv, loop # Idle, NEW o \in Object
               PROVE  /\ got[o] > 0 => Listens(o, loop.id) /\ Owner[o] # loop.from
                      /\ o \in strange => got[o] > 0 /\ loop.seq < obj_event_seq /\ AclListeners # {}
    BY DEF OnlyListenersServed
  <2>1. EventTypes /\ LoopInv /\ TextInv
    BY DEF EventInv
  <2>2. ASSUME got[o] > 0 PROVE Listens(o, loop.id) /\ Owner[o] # loop.from
    <3>1. Served(o) /\ Owner[o] # loop.from
      BY <2>2 DEF EventInv, GotInv
    <3> QED
      BY <2>1, <3>1, HitListens DEF Served, Listens
  <2> QED
    BY <2>1, <2>2 DEF TextInv
<1> QED
  BY <1>1, EventAlways, PTL

(* A ubusd_send_event that was not interrupted has, when it returns, sent    *)
(* the event exactly once to every object that listens and is not the        *)
(* sender's, and to no other, and with its own text, whatever the patterns:  *)
(* the early exit from the sorted tree (ubusd_event.c, match_len) misses     *)
(* nothing.                                                                 *)
THEOREM Delivered == Spec => DeliveredExactlyOnce
<1>1. EventInv /\ [Next]_vars =>
        [Return /\ loop.seq = obj_event_seq =>
           /\ strange = {}
           /\ \A o \in Object :
                got[o] = IF Listens(o, loop.id) /\ Owner[o] # loop.from THEN 1 ELSE 0]_vars
  <2> SUFFICES ASSUME EventInv, Return, loop.seq = obj_event_seq
               PROVE  /\ strange = {}
                      /\ \A o \in Object :
                           got[o] = IF Listens(o, loop.id) /\ Owner[o] # loop.from THEN 1 ELSE 0
    OBVIOUS
  <2>1. EventTypes /\ Sorted(patterns) /\ LoopInv /\ WholeInv /\ TextInv
    BY DEF EventInv, Return
  <2>2. \A o \in Object : got[o] = IF Served(o) /\ Owner[o] # loop.from THEN 1 ELSE 0
    BY <2>1 DEF WholeInv
  <2>3. strange = {}
    BY <2>1 DEF TextInv, LoopInv, EventTypes
  <2> QED
    BY <2>1, <2>2, <2>3, ReturnServedAll
<1> QED
  BY <1>1, EventAlways, PTL DEF Spec, DeliveredExactlyOnce
=============================================================================
