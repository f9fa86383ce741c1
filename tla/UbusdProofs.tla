---------------------------- MODULE UbusdProofs -----------------------------
(***************************************************************************)
(* The ubus daemon, for any clients, objects, paths, types and patterns, any *)
(* events that match them, and any limit of the transmit queues: what the    *)
(* messages tell the clients is what the tables say, nothing is sent to a    *)
(* client that is gone, and the daemon implements the registry.              *)
(*                                                                          *)
(* The argument.  OK(B, c, X) says that client c knows what the tables of B  *)
(* say, but for the objects X: while an object is created or freed its       *)
(* owner's knowledge is ahead of the tables or behind them by that object.   *)
(* Every function of the daemon has a lemma that says what it does to the    *)
(* tables and that it keeps OK, for the X at that point; a loop has one      *)
(* proved by induction on its rounds (Rounds).  A handler composes them, and *)
(* ends with X empty.                                                       *)
(***************************************************************************)
EXTENDS Ubusd, Integers, SequenceTheorems, FiniteSetTheorems, FunctionTheorems,
        NaturalsInduction, WellFoundedInduction, TLAPS

----------------------------------------------------------------------------
(* Loops.                                                                   *)

(* A set of natural numbers that is not empty has a least element.          *)
LEMMA LeastOfSet ==
  ASSUME NEW S \in SUBSET Nat, S # {}
  PROVE  \E x \in S : \A y \in S : x <= y
<1>1. \E x \in S : \A y \in S : ~(<<y, x>> \in OpToRel(<, Nat))
  BY NatLessThanWellFounded, WFMin
<1>2. PICK x \in S : \A y \in S : ~(y < x)
  BY <1>1 DEF OpToRel
<1> QED
  BY <1>2

(* What holds before a loop and is kept by each round holds after all.      *)
LEMMA Rounds ==
  ASSUME NEW n \in Nat, NEW S, 0 \in S, \A i \in 1..n : i - 1 \in S => i \in S
  PROVE  \A i \in 0..n : i \in S
<1> DEFINE T == {i \in 0..n : i \notin S}
<1> SUFFICES ASSUME T # {} PROVE FALSE
  OBVIOUS
<1>1. T \in SUBSET Nat /\ \A i \in T : i \in 0..n /\ i \notin S
  OBVIOUS
<1>2. \E i \in T : \A j \in T : i <= j
  <2> HIDE DEF T
  <2> QED
    BY <1>1, LeastOfSet
<1>3. PICK i \in T : \A j \in T : i <= j
  BY <1>2
<1>4. i \in 0..n /\ i \notin S /\ i # 0
  BY <1>1
<1>5. i \in 1..n /\ i - 1 \in 0..n /\ ~(i <= i - 1)
  BY <1>4
<1>6. i - 1 \notin T
  BY <1>3, <1>5
<1>7. i - 1 \in S
  BY <1>5, <1>6
<1> QED
  BY <1>4, <1>5, <1>7

\* g[i] is the value after i rounds of a loop over s whose body is f.
IsRun(g, f, b, s, S) ==
    /\ g \in [0..Len(s) -> S]
    /\ g[0] = b
    /\ \A i \in 1..Len(s) : g[i] = f[<<g[i - 1], s[i]>>]

(* A loop whose body is the function f has a run.                           *)
LEMMA Unroll ==
  ASSUME NEW S, NEW E, NEW f \in [S \X E -> S], NEW b \in S, NEW s \in Seq(E)
  PROVE  \E g : IsRun(g, f, b, s, S)
<1> DEFINE Run(n, g) == g[0] = b /\ \A i \in 1..n : g[i] = f[<<g[i - 1], s[i]>>]
           Good == {n \in 0..Len(s) : \E g \in [0..n -> S] : Run(n, g)}
<1>0. Len(s) \in Nat /\ \A i \in 1..Len(s) : s[i] \in E
  BY LenProperties, ElementOfSeq
<1>1. 0 \in Good
  <2> DEFINE g == [i \in 0..0 |-> b]
  <2>1. g \in [0..0 -> S] /\ g[0] = b
    OBVIOUS
  <2>2. Run(0, g)
    <3>1. 1..0 = {}
      OBVIOUS
    <3> QED
      BY <2>1, <3>1
  <2>3. 0 \in 0..Len(s)
    BY <1>0
  <2> HIDE DEF g, Run
  <2> QED
    BY <2>1, <2>2, <2>3
<1>2. ASSUME NEW n \in 1..Len(s), n - 1 \in Good PROVE n \in Good
  <2>0. n \in Nat /\ n - 1 \in Nat /\ n - 1 \in 0..(n - 1) /\ n \in 0..Len(s)
    BY <1>0
  <2>1. PICK g \in [0..(n - 1) -> S] : Run(n - 1, g)
    BY <1>2
  <2> DEFINE h == [i \in 0..n |-> IF i = n THEN f[<<g[n - 1], s[n]>>] ELSE g[i]]
  <2>2. h \in [0..n -> S]
    <3>1. g[n - 1] \in S /\ s[n] \in E
      BY <1>0, <2>0
    <3>2. f[<<g[n - 1], s[n]>>] \in S
      BY <3>1
    <3>3. \A i \in 0..n : i # n => i \in 0..(n - 1)
      BY <2>0
    <3> QED
      BY <3>2, <3>3
  <2>3. h[0] = b
    BY <2>0, <2>1
  <2>4. ASSUME NEW i \in 1..n PROVE h[i] = f[<<h[i - 1], s[i]>>]
    <3>1. i \in 0..n /\ i - 1 \in 0..n /\ i - 1 # n
      BY <2>0
    <3>2. h[i - 1] = g[i - 1]
      BY <3>1
    <3>3. CASE i = n
      BY <3>1, <3>2, <3>3
    <3>4. CASE i # n
      <4>1. i \in 1..(n - 1)
        BY <2>0, <3>4
      <4>2. h[i] = g[i]
        BY <3>1, <3>4
      <4> QED
        BY <2>1, <3>2, <4>1, <4>2
    <3> QED
      BY <3>3, <3>4
  <2>5. Run(n, h)
    <3> HIDE DEF h
    <3> QED
      BY <2>3, <2>4
  <2> HIDE DEF h, Run
  <2> QED
    BY <2>0, <2>2, <2>5
<1>3. Len(s) \in Good
  <2> HIDE DEF Good
  <2>1. \A i \in 0..Len(s) : i \in Good
    BY <1>0, <1>1, <1>2, Rounds
  <2> QED
    BY <1>0, <2>1
<1> QED
  BY <1>3 DEF IsRun

----------------------------------------------------------------------------
(* Lists.                                                                   *)

\* How often e is among the first n elements of s.
CountTo(s, n, e) == Cardinality({i \in 1..n : s[i] = e})

(* CountTo counts.                                                          *)
LEMMA CountToIs ==
  ASSUME NEW s, NEW e
  PROVE  /\ CountTo(s, 0, e) = 0
         /\ \A n \in Nat : CountTo(s, n, e) \in Nat
         /\ \A n \in Nat \ {0} : CountTo(s, n, e) = CountTo(s, n - 1, e) + IF s[n] = e THEN 1 ELSE 0
<1> DEFINE I(n) == {i \in 1..n : s[i] = e}
<1>1. \A n \in Nat : IsFiniteSet(I(n)) /\ Cardinality(I(n)) \in Nat
  <2> TAKE n \in Nat
  <2>1. IsFiniteSet(1..n)
    BY FS_Interval
  <2>2. I(n) \subseteq 1..n
    OBVIOUS
  <2> QED
    BY <2>1, <2>2, FS_Subset, FS_CardinalityType
<1>2. I(0) = {}
  OBVIOUS
<1>3. ASSUME NEW n \in Nat \ {0}
      PROVE  Cardinality(I(n)) = Cardinality(I(n - 1)) + IF s[n] = e THEN 1 ELSE 0
  <2>1. CASE s[n] = e
    <3>1. I(n) = I(n - 1) \cup {n} /\ n \notin I(n - 1) /\ n - 1 \in Nat
      BY <2>1
    <3> HIDE DEF I
    <3>2. IsFiniteSet(I(n - 1))
      BY <1>1, <3>1
    <3> QED
      BY <2>1, <3>1, <3>2, FS_AddElement
  <2>2. CASE s[n] # e
    <3>1. I(n) = I(n - 1) /\ n - 1 \in Nat
      BY <2>2
    <3> HIDE DEF I
    <3> QED
      BY <1>1, <2>2, <3>1
  <2> QED
    BY <2>1, <2>2
<1> QED
  BY <1>1, <1>2, <1>3, FS_EmptySet DEF CountTo

(* A set of positions is finite.                                            *)
LEMMA FiniteIndices ==
  ASSUME NEW n \in Nat, NEW I \in SUBSET (1..n)
  PROVE  IsFiniteSet(I)
<1>1. IsFiniteSet(1..n)
  BY FS_Interval
<1> QED
  BY <1>1, FS_Subset

(* Opening or closing a gap at k keeps the size of a set of indices.        *)
LEMMA ShiftSize ==
  ASSUME NEW I \in SUBSET Nat, IsFiniteSet(I), NEW k \in Nat
  PROVE  LET J == {IF i < k THEN i ELSE i + 1 : i \in I}
         IN  IsFiniteSet(J) /\ Cardinality(J) = Cardinality(I)
<1> DEFINE sh(i) == IF i < k THEN i ELSE i + 1
           J == {sh(i) : i \in I}
           f == [i \in I |-> sh(i)]
<1>1. \A i, j \in Nat : sh(i) = sh(j) => i = j
  OBVIOUS
<1>2. f \in Bijection(I, J)
  <2>1. f \in [I -> J]
    OBVIOUS
  <2>2. \A i, j \in I : f[i] = f[j] => i = j
    BY <1>1
  <2>3. \A j \in J : \E i \in I : f[i] = j
    OBVIOUS
  <2> QED
    BY <2>1, <2>2, <2>3, Fun_IsBij
<1>3. ExistsBijection(I, J)
  BY <1>2 DEF ExistsBijection
<1> QED
  BY <1>3, FS_Bijection

(* The elements of a list are those that it counts.                         *)
LEMMA CountIs ==
  ASSUME NEW T, NEW s \in Seq(T), NEW e
  PROVE  /\ Count(s, e) \in Nat
         /\ Count(s, e) > 0 <=> \E i \in 1..Len(s) : s[i] = e
         /\ Count(s, e) > 0 <=> e \in ToSet(s)
         /\ Count(s, e) = CountTo(s, Len(s), e)
         /\ Count(s, e) <= Len(s)
         /\ \A i \in 1..Len(s) : s[i] = e => CountTo(s, i - 1, e) < Count(s, e)
<1> DEFINE I == {i \in 1..Len(s) : s[i] = e}
<1>1. Len(s) \in Nat /\ DOMAIN s = 1..Len(s)
  BY LenProperties
<1>2. IsFiniteSet(1..Len(s)) /\ Cardinality(1..Len(s)) = Len(s)
  BY <1>1, FS_Interval
<1>3. IsFiniteSet(I) /\ Cardinality(I) \in Nat /\ Cardinality(I) <= Len(s)
  <2>1. I \in SUBSET (1..Len(s))
    OBVIOUS
  <2> HIDE DEF I
  <2> QED
    BY <1>2, <2>1, FS_Subset, FS_CardinalityType
<1>4. Cardinality(I) = 0 <=> I = {}
  BY <1>3, FS_EmptySet
<1>5. ASSUME NEW i \in 1..Len(s), s[i] = e
      PROVE  CountTo(s, i - 1, e) < Cardinality(I)
  <2>1. CountTo(s, i, e) = CountTo(s, i - 1, e) + 1 /\ CountTo(s, i - 1, e) \in Nat
    <3>1. i \in Nat \ {0} /\ i - 1 \in Nat
      BY <1>1
    <3> QED
      BY <1>5, <3>1, CountToIs
  <2>2. {j \in 1..i : s[j] = e} \subseteq I
    BY <1>1
  <2>3. CountTo(s, i, e) <= Cardinality(I)
    BY <1>3, <2>2, FS_Subset DEF CountTo
  <2> QED
    BY <1>3, <2>1, <2>3
<1>6. Count(s, e) = Cardinality(I) /\ Count(s, e) = CountTo(s, Len(s), e)
  BY DEF Count, CountTo
<1>7. (I # {} <=> \E i \in 1..Len(s) : s[i] = e) /\ (I # {} <=> e \in ToSet(s))
  BY <1>1 DEF ToSet
<1> HIDE DEF I
<1>8. Count(s, e) > 0 <=> I # {}
  BY <1>3, <1>4, <1>6
<1> QED
  BY <1>3, <1>5, <1>6, <1>7, <1>8

(* list_add: the element counts once more.                                  *)
LEMMA CountCons ==
  ASSUME NEW T, NEW s \in Seq(T), NEW x \in T, NEW e
  PROVE  /\ <<x>> \o s \in Seq(T)
         /\ Count(<<x>> \o s, e) = Count(s, e) + IF x = e THEN 1 ELSE 0
<1> DEFINE r == <<x>> \o s
           I == {i \in 1..Len(s) : s[i] = e}
           J == {IF i < 0 THEN i ELSE i + 1 : i \in I}
<1>1. /\ Len(s) \in Nat /\ Len(r) = Len(s) + 1 /\ r \in Seq(T)
      /\ r[1] = x /\ \A i \in 1..Len(s) : r[i + 1] = s[i]
  BY LenProperties
<1>2. I \in SUBSET Nat /\ I \in SUBSET (1..Len(s))
  OBVIOUS
<1>3. IsFiniteSet(I)
  <2> HIDE DEF I
  <2> QED
    BY <1>1, <1>2, FiniteIndices
<1>4. IsFiniteSet(J) /\ Cardinality(J) = Cardinality(I)
  <2> HIDE DEF I
  <2> QED
    BY <1>2, <1>3, ShiftSize
<1>5. 1 \notin J
  OBVIOUS
<1>6. {i \in 1..Len(r) : r[i] = e} = J \cup (IF x = e THEN {1} ELSE {})
  <2> HIDE DEF r
  <2>1. ASSUME NEW i \in 1..Len(r), r[i] = e PROVE i \in J \cup (IF x = e THEN {1} ELSE {})
    <3>1. CASE i = 1
      BY <1>1, <2>1, <3>1
    <3>2. CASE i # 1
      <4>1. i - 1 \in 1..Len(s) /\ s[i - 1] = e /\ i = (i - 1) + 1
        BY <1>1, <2>1, <3>2
      <4>2. i - 1 \in I /\ ~(i - 1 < 0)
        BY <4>1
      <4> QED
        BY <4>1, <4>2
    <3> QED
      BY <3>1, <3>2
  <2>2. ASSUME NEW i \in I PROVE i + 1 \in 1..Len(r) /\ r[i + 1] = e /\ ~(i < 0)
    BY <1>1
  <2>3. 1 \in 1..Len(r)
    BY <1>1
  <2> HIDE DEF I
  <2> QED
    BY <1>1, <2>1, <2>2, <2>3
<1> HIDE DEF I, J, r
<1>7. Cardinality(J \cup {1}) = Cardinality(J) + 1
  BY <1>4, <1>5, FS_AddElement
<1>8. Count(s, e) = Cardinality(I) /\ Count(s, e) \in Nat
  BY CountIs DEF Count, I
<1>9. Count(r, e) = Cardinality(J \cup (IF x = e THEN {1} ELSE {}))
  BY <1>6 DEF Count
<1>10. Count(r, e) = Count(s, e) + IF x = e THEN 1 ELSE 0
  <2>1. CASE x = e
    BY <1>4, <1>7, <1>8, <1>9, <2>1
  <2>2. CASE x # e
    <3>1. J \cup {} = J
      OBVIOUS
    <3> QED
      BY <1>4, <1>8, <1>9, <2>2, <3>1
  <2> QED
    BY <2>1, <2>2
<1> QED
  BY <1>1, <1>10 DEF r

(* list_del: one occurrence goes.                                           *)
LEMMA RemoveIs ==
  ASSUME NEW T, NEW s \in Seq(T), NEW x, \E i \in 1..Len(s) : s[i] = x
  PROVE  \E k \in 1..Len(s) :
           /\ s[k] = x
           /\ RemoveFirst(s, x) \in Seq(T)
           /\ Len(RemoveFirst(s, x)) = Len(s) - 1
           /\ \A i \in 1..(Len(s) - 1) : RemoveFirst(s, x)[i] = s[IF i < k THEN i ELSE i + 1]
<1> DEFINE I == {i \in 1..Len(s) : s[i] = x}
           k == SelectInSeq(s, LAMBDA v : v = x)
<1>1. Len(s) \in Nat /\ \A i \in 1..Len(s) : s[i] \in T
  BY LenProperties, ElementOfSeq
<1>2. I \in SUBSET Nat /\ I # {}
  OBVIOUS
<1>3. \E i \in I : \A j \in I : i <= j
  <2> HIDE DEF I
  <2> QED
    BY <1>2, LeastOfSet
<1>4. k = Min(I)
  BY <1>2 DEF SelectInSeq
<1>5. Min(I) \in I
  BY <1>3 DEF Min
<1>6. k \in 1..Len(s) /\ s[k] = x
  BY <1>4, <1>5
<1>7. RemoveFirst(s, x) = RemoveAt(s, k)
  BY DEF RemoveFirst
<1> HIDE DEF k
<1> DEFINE a == SubSeq(s, 1, k - 1)
           b == SubSeq(s, k + 1, Len(s))
<1>8. /\ a \in Seq(T) /\ Len(a) = k - 1
      /\ \A i \in 1..(k - 1) : a[i] = s[i]
  BY <1>1, <1>6, SubSeqProperties
<1>9. /\ b \in Seq(T) /\ Len(b) = Len(s) - k
      /\ \A i \in 1..(Len(s) - k) : b[i] = s[k + i]
  BY <1>1, <1>6, SubSeqProperties
<1>10. RemoveAt(s, k) = a \o b
  BY DEF RemoveAt
<1> HIDE DEF a, b
<1>11. /\ a \o b \in Seq(T) /\ Len(a \o b) = Len(s) - 1
       /\ \A i \in 1..(Len(s) - 1) : (a \o b)[i] = IF i < k THEN a[i] ELSE b[i - (k - 1)]
  <2>1. a \o b \in Seq(T) /\ Len(a \o b) = Len(s) - 1
    <3>1. a \o b \in Seq(T) /\ Len(a \o b) = Len(a) + Len(b)
      BY <1>8, <1>9, ConcatProperties
    <3> QED
      BY <1>1, <1>6, <1>8, <1>9, <3>1
  <2>2. ASSUME NEW i \in 1..(Len(s) - 1)
        PROVE  (a \o b)[i] = IF i < k THEN a[i] ELSE b[i - (k - 1)]
    <3>1. i \in 1..(Len(a) + Len(b)) /\ (i <= Len(a) <=> i < k)
      BY <1>1, <1>6, <1>8, <1>9
    <3>2. (a \o b)[i] = IF i <= Len(a) THEN a[i] ELSE b[i - Len(a)]
      BY <1>8, <1>9, <3>1, ConcatProperties
    <3> QED
      BY <1>8, <3>1, <3>2
  <2> QED
    BY <2>1, <2>2
<1>12. ASSUME NEW i \in 1..(Len(s) - 1)
       PROVE  (a \o b)[i] = s[IF i < k THEN i ELSE i + 1]
  <2>1. CASE i < k
    BY <1>1, <1>6, <1>8, <1>11, <2>1
  <2>2. CASE ~(i < k)
    <3>1. i - (k - 1) \in 1..(Len(s) - k) /\ k + (i - (k - 1)) = i + 1
      BY <1>1, <1>6, <2>2
    <3> QED
      BY <1>9, <1>11, <2>2, <3>1
  <2> QED
    BY <2>1, <2>2
<1> QED
  BY <1>6, <1>7, <1>10, <1>11, <1>12

(* list_del: the element counts once less.                                  *)
LEMMA CountRemove ==
  ASSUME NEW T, NEW s \in Seq(T), NEW x, Count(s, x) > 0
  PROVE  /\ RemoveFirst(s, x) \in Seq(T)
         /\ Len(RemoveFirst(s, x)) = Len(s) - 1
         /\ \A e : Count(RemoveFirst(s, x), e) = Count(s, e) - IF x = e THEN 1 ELSE 0
<1> DEFINE r == RemoveFirst(s, x)
<1>1. Len(s) \in Nat /\ \E i \in 1..Len(s) : s[i] = x
  BY CountIs, LenProperties
<1>2. PICK k \in 1..Len(s) :
           /\ s[k] = x
           /\ r \in Seq(T)
           /\ Len(r) = Len(s) - 1
           /\ \A i \in 1..(Len(s) - 1) : r[i] = s[IF i < k THEN i ELSE i + 1]
  BY <1>1, RemoveIs
<1> HIDE DEF r
<1>3. ASSUME NEW e PROVE Count(r, e) = Count(s, e) - IF x = e THEN 1 ELSE 0
  <2> DEFINE I == {i \in 1..Len(r) : r[i] = e}
             J == {IF i < k THEN i ELSE i + 1 : i \in I}
             K == {i \in 1..Len(s) : s[i] = e}
  <2>1. I \in SUBSET Nat /\ I \in SUBSET (1..Len(r)) /\ Len(r) \in Nat /\ k \in Nat
    BY <1>1, <1>2
  <2>2. IsFiniteSet(I)
    <3> HIDE DEF I
    <3> QED
      BY <2>1, FiniteIndices
  <2>3. IsFiniteSet(J) /\ Cardinality(J) = Cardinality(I)
    <3> HIDE DEF I
    <3> QED
      BY <2>1, <2>2, ShiftSize
  <2>4. K = J \cup (IF x = e THEN {k} ELSE {}) /\ k \notin J
    <3>1. ASSUME NEW j \in K, j # k PROVE j \in J
      <4> DEFINE i == IF j < k THEN j ELSE j - 1
      <4>1. i \in 1..Len(r) /\ j = IF i < k THEN i ELSE i + 1
        BY <1>1, <1>2, <3>1
      <4>2. r[i] = s[j]
        BY <1>2, <4>1
      <4>3. i \in I
        BY <4>1, <4>2
      <4> HIDE DEF i, I
      <4> QED
        BY <4>1, <4>3
    <3>2. ASSUME NEW i \in I
          PROVE  /\ (IF i < k THEN i ELSE i + 1) \in 1..Len(s)
                 /\ s[IF i < k THEN i ELSE i + 1] = e
                 /\ (IF i < k THEN i ELSE i + 1) # k
      BY <1>1, <1>2
    <3>3. J \subseteq K /\ k \notin J
      <4> HIDE DEF I
      <4> QED
        BY <3>2
    <3>4. k \in K <=> x = e
      BY <1>2
    <3> HIDE DEF I, J, K
    <3> QED
      BY <3>1, <3>3, <3>4
  <2>5. Count(s, e) = Cardinality(K) /\ Count(s, e) \in Nat /\ Count(r, e) = Cardinality(I)
    BY CountIs DEF Count
  <2> HIDE DEF I, J, K
  <2>6. Cardinality(J) \in Nat /\ Cardinality(J \cup {k}) = Cardinality(J) + 1
    BY <2>3, <2>4, FS_AddElement, FS_CardinalityType
  <2>7. CASE x = e
    BY <2>3, <2>4, <2>5, <2>6, <2>7
  <2>8. CASE x # e
    <3>1. J \cup {} = J
      OBVIOUS
    <3> QED
      BY <2>3, <2>4, <2>5, <2>6, <2>8, <3>1
  <2> QED
    BY <2>7, <2>8
<1> QED
  BY <1>2, <1>3 DEF r

(* The set of elements after an insertion.                                  *)
LEMMA InsertIs ==
  ASSUME NEW T, NEW s \in Seq(T), NEW x \in T, NEW n \in 0..Len(s)
  PROVE  InsertAt(s, n + 1, x) \in Seq(T) /\ ToSet(InsertAt(s, n + 1, x)) = ToSet(s) \cup {x}
<1> DEFINE a == SubSeq(s, 1, n)
           b == SubSeq(s, n + 1, Len(s))
           r == InsertAt(s, n + 1, x)
<1>0. Len(s) \in Nat
  BY LenProperties
<1>1. Len(s) \in Nat /\ (\A i \in 1..Len(s) : s[i] \in T) /\ DOMAIN s = 1..Len(s)
  BY LenProperties, ElementOfSeq
<1>2. /\ a \in Seq(T) /\ Len(a) = n
      /\ \A i \in 1..n : a[i] = s[i]
  BY <1>1, SubSeqProperties
<1>3. /\ b \in Seq(T) /\ Len(b) = Len(s) - n
      /\ \A i \in 1..(Len(s) - n) : b[i] = s[n + i]
  <2>1. /\ n + 1 \in Int /\ Len(s) \in Int /\ \A i \in (n + 1)..Len(s) : s[i] \in T
        /\ Len(s) - (n + 1) + 1 = Len(s) - n
        /\ \A i \in 1..(Len(s) - n) : (n + 1) + i - 1 = n + i
    BY <1>1
  <2>2. /\ b \in Seq(T) /\ Len(b) = IF n + 1 <= Len(s) THEN Len(s) - (n + 1) + 1 ELSE 0
        /\ \A i \in 1..(Len(s) - (n + 1) + 1) : b[i] = s[(n + 1) + i - 1]
    BY <2>1, SubSeqProperties
  <2> HIDE DEF b
  <2>3. Len(b) = Len(s) - n
    <3>1. Len(b) = IF n + 1 <= Len(s) THEN Len(s) - (n + 1) + 1 ELSE 0
      BY <2>2
    <3>2. CASE n = Len(s)
      BY <1>1, <3>1, <3>2
    <3>3. CASE n # Len(s)
      <4>1. n + 1 <= Len(s) /\ Len(s) - (n + 1) + 1 = Len(s) - n
        BY <1>0, <3>3
      <4> QED
        BY <3>1, <4>1
    <3> QED
      BY <3>2, <3>3
  <2>4. ASSUME NEW i \in 1..(Len(s) - n) PROVE b[i] = s[n + i]
    <3>1. i \in 1..(Len(s) - (n + 1) + 1) /\ (n + 1) + i - 1 = n + i
      BY <2>1
    <3> QED
      BY <2>2, <3>1
  <2> QED
    BY <2>2, <2>3, <2>4
<1>4. r = a \o <<x>> \o b
  <2>1. (n + 1) - 1 = n
    BY <1>1
  <2> QED
    BY <2>1 DEF InsertAt
<1> HIDE DEF a, b, r
<1> DEFINE d == a \o <<x>>
<1>5. d \in Seq(T) /\ Len(d) = n + 1 /\ (\A i \in 1..n : d[i] = s[i]) /\ d[n + 1] = x /\ r = d \o b
  BY <1>1, <1>2, <1>4
<1> HIDE DEF d
<1>6. r \in Seq(T) /\ Len(r) = Len(d) + Len(b)
      /\ \A i \in 1..(Len(d) + Len(b)) : r[i] = IF i <= Len(d) THEN d[i] ELSE b[i - Len(d)]
  BY <1>3, <1>5, ConcatProperties
<1>7. DOMAIN r = 1..(Len(s) + 1)
  BY <1>1, <1>3, <1>5, <1>6, LenProperties
<1>8. \A i \in 1..(Len(s) + 1) : r[i] = IF i <= n THEN s[i] ELSE IF i = n + 1 THEN x ELSE s[i - 1]
  <2> TAKE i \in 1..(Len(s) + 1)
  <2>1. i \in 1..(Len(d) + Len(b)) /\ Len(d) = n + 1
    BY <1>1, <1>3, <1>5
  <2>2. CASE i <= n + 1
    <3>1. r[i] = d[i] /\ (~(i <= n) => i = n + 1) /\ (i <= n => i \in 1..n)
      BY <1>1, <1>6, <2>1, <2>2
    <3> QED
      BY <1>5, <3>1
  <2>3. CASE ~(i <= n + 1)
    <3>1. i - (n + 1) \in 1..(Len(s) - n) /\ n + (i - (n + 1)) = i - 1
      BY <1>1, <2>3
    <3> QED
      <4>1. r[i] = b[i - (n + 1)]
        BY <1>6, <2>1, <2>3
      <4>2. ~(i <= n) /\ i # n + 1
        BY <1>1, <2>3
      <4> QED
        BY <1>3, <3>1, <4>1, <4>2
  <2> QED
    BY <2>2, <2>3
<1>9. ASSUME NEW e PROVE e \in ToSet(r) <=> e \in ToSet(s) \cup {x}
  <2>1. ASSUME NEW i \in 1..Len(s) PROVE s[i] \in ToSet(r)
    <3> DEFINE j == IF i <= n THEN i ELSE i + 1
    <3>1. j \in 1..(Len(s) + 1) /\ (j <= n => j = i) /\ (~(j <= n) => j # n + 1 /\ j - 1 = i)
      BY <1>1
    <3>2. r[j] = s[i]
      BY <1>8, <3>1
    <3> HIDE DEF j
    <3> QED
      BY <1>7, <3>1, <3>2 DEF ToSet
  <2>2. x \in ToSet(r)
    <3>1. n + 1 \in 1..(Len(s) + 1) /\ ~(n + 1 <= n)
      BY <1>1
    <3> QED
      BY <1>7, <1>8, <3>1 DEF ToSet
  <2>3. ASSUME NEW i \in 1..(Len(s) + 1) PROVE r[i] \in ToSet(s) \cup {x}
    <3>1. ~(i <= n) /\ i # n + 1 => i - 1 \in 1..Len(s)
      BY <1>1
    <3>2. i <= n => i \in 1..Len(s)
      BY <1>1
    <3> QED
      BY <1>1, <1>8, <3>1, <3>2 DEF ToSet
  <2> QED
    BY <1>1, <1>7, <2>1, <2>2, <2>3 DEF ToSet
<1> QED
  BY <1>6, <1>9 DEF r

----------------------------------------------------------------------------
(* Messages, and what a client knows.                                       *)

Pairs == ObjId \X ObjId
Anyone == Client \cup {Null}
View == [own : SUBSET ObjId, types : SUBSET TypeId, has : SUBSET ObjId,
         seen : SUBSET (ObjId \X (Path \X ObjId)), watch : [Pairs -> Int]]

Bus == [clients : SUBSET Client, objects : [ObjId -> Registry!Object],
        path : [Path -> ObjId \cup {Null}], obj_types : [TypeId -> Int],
        subs : Seq(Pairs), patterns : Seq(ObjId \X Pattern),
        owned : [Client -> Seq(ObjId)], tx : [Client -> Nat],
        view : [Client -> View], lost : SUBSET Anyone, stray : SUBSET Anyone,
        taken : SUBSET (Client \X TypeId)]

\* Sending a message leaves the tables alone, and a NULL client gets none.
SameTables(B, R) ==
    /\ (Null \in R.stray <=> Null \in B.stray) /\ (Null \in R.lost <=> Null \in B.lost)
    /\ R.clients = B.clients /\ R.objects = B.objects /\ R.path = B.path
    /\ R.obj_types = B.obj_types /\ R.subs = B.subs
    /\ R.patterns = B.patterns /\ R.owned = B.owned /\ R.taken = B.taken

Mailed(B, tx, view, lost, stray) ==
    [B EXCEPT !.tx = tx, !.view = view, !.lost = lost, !.stray = stray]

(* The fields of a bus after a message.                                     *)
LEMMA MailedIs ==
  ASSUME NEW B \in Bus, NEW tx \in [Client -> Nat], NEW view \in [Client -> View],
         NEW lost \in SUBSET Anyone, NEW stray \in SUBSET Anyone
  PROVE  LET R == Mailed(B, tx, view, lost, stray)
         IN  /\ R \in Bus 
             /\ (Null \in stray <=> Null \in B.stray) /\ (Null \in lost <=> Null \in B.lost)
                  => SameTables(B, R)
             /\ R.tx = tx /\ R.view = view /\ R.lost = lost /\ R.stray = stray
BY DEF Mailed, Bus, SameTables

Strays(B, c, m) == m.type \in {"INVOKE", "UNSUBSCRIBE"} /\ m.obj \notin B.view[c].own

(* ubus_msg_send, as a new value of the four fields.                        *)
LEMMA SendIs ==
  ASSUME NEW B \in Bus, NEW c, NEW m
  PROVE  ubus_msg_send(B, c, m) =
           IF B.tx[c] = MaxTx
           THEN Mailed(B, B.tx, [B.view EXCEPT ![c] = NoView], B.lost \cup {c}, B.stray)
           ELSE IF c \in B.lost
           THEN Mailed(B, [B.tx EXCEPT ![c] = @ + 1], B.view, B.lost, B.stray)
           ELSE Mailed(B, [B.tx EXCEPT ![c] = @ + 1],
                       [B.view EXCEPT ![c] = Learn(@, m)], B.lost,
                       IF Strays(B, c, m) THEN B.stray \cup {c} ELSE B.stray)
BY DEF Mailed, ubus_msg_send, Bus, Strays

(* Overwriting one entry.                                                   *)
LEMMA ExceptIn ==
  ASSUME NEW S, NEW T, NEW f \in [S -> T], NEW x, NEW y, x \in S => y \in T
  PROVE  /\ [f EXCEPT ![x] = y] \in [S -> T]
         /\ x \in S => [f EXCEPT ![x] = y][x] = y
         /\ \A z \in S : z # x => [f EXCEPT ![x] = y][z] = f[z]
OBVIOUS

(* What a client knows at first.                                            *)
LEMMA NoViewIs ==
  /\ NoView \in View /\ NoView.own = {} /\ NoView.types = {} /\ NoView.has = {}
  /\ NoView.seen = {} /\ NoView.watch = [st \in Pairs |-> 0]
BY DEF NoView, View, Pairs

\* A message that a client makes sense of.
Readable(m) == \A v \in View : Learn(v, m) \in View

\* What becomes of the clients when m is sent to c.
Sent(B, R, c, m) ==
    /\ R \in Bus /\ (c \in Client => SameTables(B, R))
    /\ \A e \in Anyone \ {c} : /\ e \in R.lost <=> e \in B.lost
                               /\ e \in R.stray <=> e \in B.stray
    /\ \A e \in Client \ {c} : R.view[e] = B.view[e] /\ R.tx[e] = B.tx[e]
    /\ c \in Client /\ B.tx[c] <= MaxTx => R.tx[c] <= MaxTx
    /\ c \in Client =>
         \/ /\ c \in R.lost /\ (c \in R.stray <=> c \in B.stray)
            /\ R.view[c] = NoView \/ (c \in B.lost /\ R.view[c] = B.view[c])
         \/ /\ c \notin R.lost /\ c \notin B.lost /\ R.view[c] = Learn(B.view[c], m)
            /\ c \in R.stray <=> c \in B.stray \/ Strays(B, c, m)

(* ubus_msg_send does that.                                                 *)
LEMMA SendSent ==
  ASSUME NEW B \in Bus, NEW c \in Anyone, NEW m, Readable(m)
  PROVE  Sent(B, ubus_msg_send(B, c, m), c, m)
<1> DEFINE R == ubus_msg_send(B, c, m)
           more == [B.tx EXCEPT ![c] = @ + 1]
           blank == [B.view EXCEPT ![c] = NoView]
           told == [B.view EXCEPT ![c] = Learn(@, m)]
           str == IF Strays(B, c, m) THEN B.stray \cup {c} ELSE B.stray
<1> SUFFICES Sent(B, R, c, m)
  OBVIOUS
<1>0. /\ B.tx \in [Client -> Nat] /\ B.view \in [Client -> View]
      /\ B.lost \in SUBSET Anyone /\ B.stray \in SUBSET Anyone
  BY DEF Bus
<1>1. more \in [Client -> Nat] /\ \A e \in Client \ {c} : more[e] = B.tx[e]
  <2>1. c \in Client => B.tx[c] + 1 \in Nat
    BY <1>0
  <2> QED
    BY <1>0, <2>1, ExceptIn
<1>2. /\ blank \in [Client -> View] /\ \A e \in Client \ {c} : blank[e] = B.view[e]
      /\ c \in Client => blank[c] = NoView
  BY <1>0, NoViewIs
<1>3. /\ told \in [Client -> View] /\ \A e \in Client \ {c} : told[e] = B.view[e]
      /\ c \in Client => told[c] = Learn(B.view[c], m)
  BY <1>0 DEF Readable
<1>4. /\ str \in SUBSET Anyone /\ B.lost \cup {c} \in SUBSET Anyone
      /\ \A e \in Anyone \ {c} : e \in str <=> e \in B.stray
      /\ c \in str <=> c \in B.stray \/ Strays(B, c, m)
      /\ c \in Client => /\ Null \in str <=> Null \in B.stray
                         /\ Null \in B.lost \cup {c} <=> Null \in B.lost
  BY <1>0, IdsAssumption
<1> HIDE DEF more, blank, told, str
<1>t. c \in Client /\ B.tx[c] # MaxTx /\ B.tx[c] <= MaxTx => more[c] <= MaxTx
  BY <1>0, SizesAssumption DEF more
<1>5. CASE B.tx[c] = MaxTx
  <2>1. R = Mailed(B, B.tx, blank, B.lost \cup {c}, B.stray)
    BY <1>5, SendIs DEF blank
  <2>2. /\ R \in Bus /\ (c \in Client => SameTables(B, R))
        /\ R.tx = B.tx /\ R.view = blank /\ R.lost = B.lost \cup {c} /\ R.stray = B.stray
    <3> DEFINE lost == B.lost \cup {c}
    <3>1. lost \in SUBSET Anyone /\ (c \in Client => (Null \in lost <=> Null \in B.lost))
      BY <1>4
    <3>2. R = Mailed(B, B.tx, blank, lost, B.stray)
      BY <2>1
    <3> HIDE DEF lost, R
    <3>3. /\ R \in Bus /\ (c \in Client => SameTables(B, R))
          /\ R.tx = B.tx /\ R.view = blank /\ R.lost = lost /\ R.stray = B.stray
      BY <1>0, <1>2, <3>1, <3>2, MailedIs
    <3> QED
      BY <3>3 DEF lost
  <2> HIDE DEF R
  <2>3. \A e \in Anyone \ {c} : (e \in R.lost <=> e \in B.lost) /\ (e \in R.stray <=> e \in B.stray)
    BY <1>2, <2>2
  <2>4. \A e \in Client \ {c} : R.view[e] = B.view[e] /\ R.tx[e] = B.tx[e]
    BY <1>2, <2>2
  <2> QED
    BY <1>2, <2>2, <2>3, <2>4 DEF Sent
<1>6. CASE B.tx[c] # MaxTx /\ c \in B.lost
  <2>1. R = Mailed(B, more, B.view, B.lost, B.stray)
    BY <1>6, SendIs DEF more
  <2>2. /\ R \in Bus /\ SameTables(B, R)
        /\ R.tx = more /\ R.view = B.view /\ R.lost = B.lost /\ R.stray = B.stray
    BY <1>0, <1>1, <2>1, MailedIs
  <2> HIDE DEF R
  <2>3. \A e \in Anyone \ {c} : (e \in R.lost <=> e \in B.lost) /\ (e \in R.stray <=> e \in B.stray)
    BY <1>1, <1>6, <2>2
  <2>4. \A e \in Client \ {c} : R.view[e] = B.view[e] /\ R.tx[e] = B.tx[e]
    BY <1>1, <1>6, <2>2
  <2> QED
    BY <1>1, <1>t, <1>6, <2>2, <2>3, <2>4 DEF Sent
<1>7. CASE B.tx[c] # MaxTx /\ c \notin B.lost
  <2>1. R = Mailed(B, more, told, B.lost, str)
    BY <1>7, SendIs DEF more, told, str
  <2>2. /\ R \in Bus /\ (c \in Client => SameTables(B, R))
        /\ R.tx = more /\ R.view = told /\ R.lost = B.lost /\ R.stray = str
    BY <1>0, <1>1, <1>3, <1>4, <2>1, MailedIs
  <2> HIDE DEF R
  <2>3. \A e \in Anyone \ {c} : (e \in R.lost <=> e \in B.lost) /\ (e \in R.stray <=> e \in B.stray)
    BY <1>1, <1>3, <1>4, <1>7, <2>2
  <2>4. \A e \in Client \ {c} : R.view[e] = B.view[e] /\ R.tx[e] = B.tx[e]
    BY <1>1, <1>3, <1>4, <1>7, <2>2
  <2> QED
    BY <1>1, <1>3, <1>4, <1>t, <1>7, <2>2, <2>3, <2>4 DEF Sent
<1> QED
  BY <1>5, <1>6, <1>7

\* A message that tells its reader nothing about the tables.
Neutral(m) == (\A v \in View : Learn(v, m) = v) /\ m.type \notin {"INVOKE", "UNSUBSCRIBE"}

(* A status, unless it grants a change of a subscription.                   *)
LEMMA StatusNeutral ==
  ASSUME NEW req, NEW ret, ret # "OK" \/ req[1] \notin {"SUBSCRIBE", "UNSUBSCRIBE"}
  PROVE  Neutral(Status(req, ret))
BY DEF Neutral, Status, Learn

(* The reply to a ping, the answer of an object, the greeting.              *)
LEMMA OthersNeutral ==
  /\ Neutral(Data(<<"PING">>, Null, Null))
  /\ \A o : Neutral(Response(o))
  /\ Neutral([type |-> "HELLO"])
BY DEF Neutral, Data, Response, Learn

(* A notification about an object of the reader's.                          *)
LEMMA NotifyLearns ==
  ASSUME NEW o \in ObjId, NEW v \in View, NEW m, m.type = "NOTIFY", m.obj = o
  PROVE  /\ Learn(v, m) \in View
         /\ Learn(v, m).own = v.own /\ Learn(v, m).types = v.types
         /\ Learn(v, m).seen = v.seen /\ Learn(v, m).watch = v.watch
         /\ Learn(v, m).has = IF o \notin v.own THEN v.has
                              ELSE IF m.active THEN v.has \cup {o} ELSE v.has \ {o}
BY DEF Learn, View

\* v with n more subscriptions st.
Tallied(v, w, st, n) ==
    /\ w \in View
    /\ w.own = v.own /\ w.types = v.types /\ w.seen = v.seen /\ w.has = v.has
    /\ w.watch = [x \in Pairs |-> IF x = st THEN v.watch[x] + n ELSE v.watch[x]]

(* The messages that change the number of subscriptions a client knows.     *)
LEMMA WatchLearns ==
  ASSUME NEW s \in ObjId, NEW t \in ObjId, NEW v \in View
  PROVE  /\ Tallied(v, Learn(v, Unsubscribe(s, t)), <<s, t>>, -1)
         /\ Tallied(v, Learn(v, Status(<<"SUBSCRIBE", s, t>>, "OK")), <<s, t>>, 1)
         /\ Tallied(v, Learn(v, Status(<<"UNSUBSCRIBE", s, t>>, "OK")), <<s, t>>, -1)
<1> DEFINE W(n) == [v EXCEPT !.watch[<<s, t>>] = @ + n]
<1>0. v.watch \in [Pairs -> Int] /\ <<s, t>> \in Pairs
  BY DEF View, Pairs
<1>1. ASSUME NEW n \in Int PROVE Tallied(v, W(n), <<s, t>>, n)
  <2> DEFINE u == [v.watch EXCEPT ![<<s, t>>] = @ + n]
  <2>1. /\ u \in [Pairs -> Int]
        /\ u = [x \in Pairs |-> IF x = <<s, t>> THEN v.watch[x] + n ELSE v.watch[x]]
    BY <1>0
  <2>2. W(n) = [v EXCEPT !.watch = u]
    OBVIOUS
  <2> HIDE DEF u
  <2>3. W(n).watch = u /\ Tallied(v, W(n), <<s, t>>, n)
    BY <2>1, <2>2 DEF Tallied, View
  <2> QED
    BY <2>3
<1>2. [v EXCEPT !.watch[<<s, t>>] = @ - 1] = W(-1)
  <2>1. v.watch[<<s, t>>] - 1 = v.watch[<<s, t>>] + (-1)
    BY <1>0
  <2> QED
    BY <2>1
<1>3. Learn(v, Unsubscribe(s, t)) = [v EXCEPT !.watch[<<s, t>>] = @ - 1]
  BY DEF Unsubscribe, Learn
<1>4. Learn(v, Status(<<"SUBSCRIBE", s, t>>, "OK")) = W(1)
  BY DEF Status, Learn
<1>5. Learn(v, Status(<<"UNSUBSCRIBE", s, t>>, "OK")) = [v EXCEPT !.watch[<<s, t>>] = @ - 1]
  BY DEF Status, Learn
<1> QED
  BY <1>1, <1>2, <1>3, <1>4, <1>5

\* What a listener has seen after an event.
Heard(seen, l, id, about) ==
    IF id = ObjAdd THEN seen \cup {<<l, about>>}
    ELSE IF id = ObjRemove THEN seen \ {<<l, about>>} ELSE seen

(* The events that an object appears or goes, and those of clients.         *)
LEMMA EventLearns ==
  ASSUME NEW l \in ObjId, NEW id, NEW about, NEW v \in View,
         id \in EventId \/ (id \in {ObjAdd, ObjRemove} /\ about \in Path \X ObjId)
  PROVE  LET w == Learn(v, Event(l, id, about))
         IN  /\ w \in View
             /\ w.own = v.own /\ w.types = v.types /\ w.has = v.has /\ w.watch = v.watch
             /\ w.seen = Heard(v.seen, l, id, about)
<1> DEFINE m == Event(l, id, about)
           w == Learn(v, m)
<1>0. ObjAdd # ObjRemove
  BY DEF ObjAdd, ObjRemove
<1>1. CASE id = ObjAdd
  <2>0. v.seen \cup {<<l, about>>} \subseteq ObjId \X (Path \X ObjId)
    BY <1>1, EventAssumption DEF View
  <2>1. w = [v EXCEPT !.seen = @ \cup {<<l, about>>}]
    BY <1>1, <1>0 DEF Event, Learn
  <2> HIDE DEF w
  <2>2. /\ w \in View /\ w.own = v.own /\ w.types = v.types /\ w.has = v.has /\ w.watch = v.watch
        /\ w.seen = v.seen \cup {<<l, about>>}
    BY <2>0, <2>1 DEF View
  <2> QED
    BY <1>1, <2>2 DEF w, Heard
<1>2. CASE id = ObjRemove
  <2>0. v.seen \ {<<l, about>>} \subseteq ObjId \X (Path \X ObjId)
    BY DEF View
  <2>1. w = [v EXCEPT !.seen = @ \ {<<l, about>>}]
    BY <1>2, <1>0 DEF Event, Learn
  <2> HIDE DEF w
  <2>2. /\ w \in View /\ w.own = v.own /\ w.types = v.types /\ w.has = v.has /\ w.watch = v.watch
        /\ w.seen = v.seen \ {<<l, about>>}
    BY <2>0, <2>1 DEF View
  <2> QED
    BY <1>0, <1>2, <2>2 DEF w, Heard
<1>3. CASE id \notin {ObjAdd, ObjRemove}
  <2>1. w = v
    BY <1>3 DEF Event, Learn
  <2> QED
    BY <1>3, <2>1 DEF Heard
<1> QED
  BY <1>1, <1>2, <1>3

(* The answer to the removal of an object.                                  *)
LEMMA RemovalLearns ==
  ASSUME NEW o \in ObjId, NEW t \in TypeId \cup {Null}, NEW v \in View
  PROVE  LET w == Learn(v, Data(<<"REMOVE_OBJECT">>, o, t))
         IN  /\ w \in View /\ w.own = v.own \ {o} /\ w.types = v.types \ {t}
             /\ w.has = v.has \ {o} /\ w.seen = {x \in v.seen : x[1] # o}
             /\ w.watch = [st \in Pairs |-> IF st[1] = o THEN 0 ELSE v.watch[st]]
<1>1. Learn(v, Data(<<"REMOVE_OBJECT">>, o, t)) = Removed(v, o, t)
  BY DEF Data, Learn
<1> DEFINE sn == {x \in v.seen : x[1] # o}
           u == [st \in Pairs |-> IF st[1] = o THEN 0 ELSE v.watch[st]]
<1>2. sn \subseteq ObjId \X (Path \X ObjId) /\ u \in [Pairs -> Int]
  BY DEF View
<1>3. Removed(v, o, t) = [v EXCEPT !.own = @ \ {o}, !.types = @ \ {t}, !.has = @ \ {o},
                                   !.seen = sn, !.watch = u]
  BY DEF Removed, Pairs
<1> HIDE DEF sn, u
<1>4. /\ v.own \in SUBSET ObjId /\ v.types \in SUBSET TypeId /\ v.has \in SUBSET ObjId
      /\ v = [own |-> v.own, types |-> v.types, has |-> v.has, seen |-> v.seen, watch |-> v.watch]
  BY DEF View
<1>5. Removed(v, o, t) = [own |-> v.own \ {o}, types |-> v.types \ {t}, has |-> v.has \ {o},
                          seen |-> sn, watch |-> u]
  BY <1>3, <1>4
<1>6. Removed(v, o, t) \in View
  BY <1>2, <1>4, <1>5 DEF View
<1> QED
  BY <1>1, <1>5, <1>6 DEF sn, u

Own(B, c) == {o \in ObjId : B.objects[o].client = c}
UsersOf(B, t) == {o \in ObjId : B.objects[o].type = t}

\* Object l has an event source for id, and every one it has for the creation
\* of objects is one for their removal.
Hears(B, l, id) == \E op \in ToSet(B.patterns) : op[1] = l /\ <<id, op[2]>> \in Matches
Tracks(B, l) ==
    \A op \in ToSet(B.patterns) :
      op[1] = l /\ <<ObjAdd, op[2]>> \in Matches => <<ObjRemove, op[2]>> \in Matches

----------------------------------------------------------------------------
(* The tables of a bus are consistent.                                      *)

ObjectsOK(B) ==
    \A o \in ObjId : B.objects[o] = Registry!NoObject \/ B.objects[o].client \in B.clients
PathOK(B) == \A p \in Path, o \in ObjId : B.path[p] = o <=> B.objects[o].path = p
TypesOK(B) == \A t \in TypeId : B.obj_types[t] = Cardinality(UsersOf(B, t))
SubsOK(B) ==
    \A st \in Pairs : Count(B.subs, st) > 0 =>
      /\ B.objects[st[1]].client # Null /\ B.objects[st[2]].client # Null
      /\ B.objects[st[1]].client # B.objects[st[2]].client
PatternsOK(B) == \A op \in ToSet(B.patterns) : B.objects[op[1]].client # Null
OwnedOK(B) ==
    \A c \in Client, o \in ObjId :
      Count(B.owned[c], o) = IF B.objects[o].client = c THEN 1 ELSE 0

TablesOK(B) == ObjectsOK(B) /\ PathOK(B) /\ TypesOK(B) /\ SubsOK(B) /\ PatternsOK(B) /\ OwnedOK(B)

----------------------------------------------------------------------------
(* What client c knows is right, but for the objects X: their removal has    *)
(* been told and they are still there, or the other way round.  The numbers  *)
(* of subscriptions are apart.                                              *)

\* The types that it was told of and no other client has named.
Sole(B, v, c) == {t \in v.types : <<c, t>> \notin B.taken}

RightTypes(B, v, c, X) ==
    \A t \in Sole(B, v, c) : /\ \E u \in ObjId \ X : B.objects[u].type = t
                             /\ \A u \in ObjId : B.objects[u].type = t => B.objects[u].client = c
RightSeen(B, v, c, X) ==
    \A x \in v.seen : /\ x[1] \in Own(B, c) \ X /\ Hears(B, x[1], ObjAdd)
                      /\ Tracks(B, x[1]) => B.path[x[2][1]] = x[2][2]
Right(B, v, c, X) ==
    /\ v.own = Own(B, c) \ X
    /\ v.has = {o \in Own(B, c) \ X : Watched(B, o)}
    /\ RightTypes(B, v, c, X)
    /\ RightSeen(B, v, c, X)

\* Its queue is within its limit, and nothing is sent to a client that is gone.
Queued(B, e) ==
    /\ B.tx[e] <= MaxTx
    /\ e \notin B.clients => B.tx[e] = 0 /\ e \notin B.lost

\* It was sent nothing for an object it does not know, and knows nothing once it
\* has lost a message.
Sound(B, e) == Queued(B, e) /\ e \notin B.stray /\ (e \in B.lost => B.view[e] = NoView)

Aware(B, e, X) ==
    /\ Sound(B, e)
    /\ e \notin B.lost => Right(B, B.view[e], e, X)

Tally(B, e, W) == e \notin B.lost => B.view[e].watch = W
Watches(B, e, X) ==
    [st \in Pairs |-> IF st[1] \in Own(B, e) \ X THEN Count(B.subs, st) ELSE 0]

OK(B, e, X) == Aware(B, e, X) /\ Tally(B, e, Watches(B, e, X))

(* These depend on the tables only.                                         *)
LEMMA TablesDecide ==
  ASSUME NEW B, NEW R, SameTables(B, R)
  PROVE  /\ TablesOK(R) <=> TablesOK(B)
         /\ \A v, c, X : Right(R, v, c, X) <=> Right(B, v, c, X)
         /\ \A c, X : Watches(R, c, X) = Watches(B, c, X)
         /\ \A c : Own(R, c) = Own(B, c)
         /\ \A t : UsersOf(R, t) = UsersOf(B, t)
         /\ \A o : Watched(R, o) <=> Watched(B, o)
         /\ \A l, id : Hears(R, l, id) <=> Hears(B, l, id)
<1>1. /\ R.clients = B.clients /\ R.objects = B.objects /\ R.path = B.path
      /\ R.obj_types = B.obj_types /\ R.subs = B.subs
      /\ R.patterns = B.patterns /\ R.owned = B.owned /\ R.taken = B.taken
  BY DEF SameTables
<1>2. \A c : Own(R, c) = Own(B, c)
  BY <1>1 DEF Own
<1>3. \A t : UsersOf(R, t) = UsersOf(B, t)
  BY <1>1 DEF UsersOf
<1>4. \A o : Watched(R, o) <=> Watched(B, o)
  BY <1>1 DEF Watched
<1>5. \A l : (\A id : Hears(R, l, id) <=> Hears(B, l, id)) /\ (Tracks(R, l) <=> Tracks(B, l))
  BY <1>1 DEF Hears, Tracks
<1>6. \A c, X : Watches(R, c, X) = Watches(B, c, X)
  BY <1>1, <1>2 DEF Watches
<1>7. TablesOK(R) <=> TablesOK(B)
  BY <1>1, <1>3 DEF TablesOK, ObjectsOK, PathOK, TypesOK, SubsOK, PatternsOK, OwnedOK
<1>8. ASSUME NEW v, NEW c, NEW X PROVE Right(R, v, c, X) <=> Right(B, v, c, X)
  <2>1. RightTypes(R, v, c, X) <=> RightTypes(B, v, c, X)
    BY <1>1 DEF RightTypes, Sole
  <2>2. RightSeen(R, v, c, X) <=> RightSeen(B, v, c, X)
    BY <1>1, <1>2, <1>5 DEF RightSeen
  <2>3. {o \in Own(R, c) \ X : Watched(R, o)} = {o \in Own(B, c) \ X : Watched(B, o)}
    BY <1>2, <1>4
  <2> QED
    BY <1>2, <2>1, <2>2, <2>3 DEF Right
<1> QED
  BY <1>2, <1>3, <1>4, <1>5, <1>6, <1>7, <1>8

(* A message changes what its reader knows, and nobody else.                *)
LEMMA SentAware ==
  ASSUME NEW B \in Bus, NEW R, NEW c \in Client, NEW m, Sent(B, R, c, m),
         NEW e \in Client, NEW Y, Sound(B, e), c \in B.clients,
         e # c /\ e \notin B.lost => Right(B, B.view[e], e, Y),
         e = c /\ e \notin B.lost => Right(B, Learn(B.view[e], m), e, Y) /\ ~Strays(B, e, m)
  PROVE  Aware(R, e, Y)
<1>1. \A v : Right(R, v, e, Y) <=> Right(B, v, e, Y)
  BY TablesDecide DEF Sent
<1>n. Null \in Anyone /\ Null # c
  BY IdsAssumption DEF Anyone
<1>q. Queued(R, e)
  BY <1>n DEF Sent, Sound, Queued, SameTables, Anyone
<1>2. CASE e # c
  BY <1>1, <1>q, <1>2, <1>n DEF Sent, Sound, Aware, Anyone
<1>3. CASE e = c
  BY <1>1, <1>q, <1>3, <1>n DEF Sent, Sound, Aware
<1> QED
  BY <1>2, <1>3

(* The same for the numbers of subscriptions.                               *)
LEMMA SentTally ==
  ASSUME NEW B \in Bus, NEW R, NEW c \in Anyone, NEW m, Sent(B, R, c, m),
         NEW e \in Client, NEW W, NEW V, Tally(B, e, V),
         e # c => W = V,
         e = c /\ e \notin B.lost => Learn(B.view[e], m).watch = W
  PROVE  Tally(R, e, W)
<1>1. CASE e # c
  BY <1>1 DEF Sent, Tally, Anyone
<1>2. CASE e = c
  BY <1>2 DEF Sent, Tally
<1> QED
  BY <1>1, <1>2

(* A message that says nothing of the tables.                               *)
LEMMA SendNeutral ==
  ASSUME NEW B \in Bus, NEW c \in Client, c \in B.clients, NEW m, Neutral(m)
  PROVE  LET R == ubus_msg_send(B, c, m)
         IN  /\ Sent(B, R, c, m) /\ R \in Bus /\ SameTables(B, R)
             /\ \A e \in Client : \A X : Aware(B, e, X) => Aware(R, e, X)
             /\ \A e \in Client : \A W : Tally(B, e, W) => Tally(R, e, W)
             /\ \A e \in Client : \A X : OK(B, e, X) => OK(R, e, X)
<1> DEFINE R == ubus_msg_send(B, c, m)
<1>1. Readable(m) /\ \A v \in View : Learn(v, m) = v
  BY DEF Neutral, Readable
<1>2. Sent(B, R, c, m) /\ c \in Anyone
  BY <1>1, SendSent DEF Anyone
<1> HIDE DEF R
<1>3. R \in Bus /\ SameTables(B, R)
  BY <1>2 DEF Sent
<1>4. \A e \in Client : B.view[e] \in View
  BY DEF Bus
<1>5. ASSUME NEW e \in Client, NEW X, Aware(B, e, X) PROVE Aware(R, e, X)
  <2>1. e \notin B.lost => Right(B, B.view[e], e, X) /\ Learn(B.view[e], m) = B.view[e] /\ ~Strays(B, e, m)
    BY <1>1, <1>4, <1>5 DEF Aware, Strays, Neutral
  <2>2. Sound(B, e)
    BY <1>5 DEF Aware
  <2>3. /\ e # c /\ e \notin B.lost => Right(B, B.view[e], e, X)
        /\ e = c /\ e \notin B.lost => Right(B, Learn(B.view[e], m), e, X) /\ ~Strays(B, e, m)
    BY <2>1
  <2> QED
    BY <1>2, <2>2, <2>3, SentAware
<1>6. ASSUME NEW e \in Client, NEW W, Tally(B, e, W) PROVE Tally(R, e, W)
  <2>1. e \notin B.lost => Learn(B.view[e], m).watch = W
    BY <1>1, <1>4, <1>6 DEF Tally
  <2> QED
    BY <1>2, <1>6, <2>1, SentTally
<1>7. \A e, X : Watches(R, e, X) = Watches(B, e, X)
  BY <1>3, TablesDecide
<1>8. \A e \in Client : \A X : OK(B, e, X) => OK(R, e, X)
  BY <1>5, <1>6, <1>7 DEF OK
<1> QED
  BY <1>2, <1>3, <1>5, <1>6, <1>8 DEF R

----------------------------------------------------------------------------
(* Subscriptions.                                                           *)

\* Only the subscriptions differ.
OtherTables(B, R) ==
    /\ (Null \in R.stray <=> Null \in B.stray) /\ (Null \in R.lost <=> Null \in B.lost)
    /\ R.clients = B.clients /\ R.objects = B.objects /\ R.path = B.path
    /\ R.obj_types = B.obj_types /\ R.patterns = B.patterns /\ R.owned = B.owned
    /\ R.taken = B.taken

SetSubs(B, s) == [B EXCEPT !.subs = s]

(* The fields after a change of the subscriptions.                          *)
LEMMA SetSubsIs ==
  ASSUME NEW B \in Bus, NEW s \in Seq(Pairs)
  PROVE  LET R == SetSubs(B, s)
         IN  /\ R \in Bus /\ OtherTables(B, R) /\ R.subs = s
             /\ R.tx = B.tx /\ R.view = B.view /\ R.lost = B.lost /\ R.stray = B.stray /\ R.taken = B.taken
BY DEF SetSubs, Bus, OtherTables

(* An object is watched when some subscription to it is counted.            *)
LEMMA WatchedIs ==
  ASSUME NEW B \in Bus, NEW t \in ObjId
  PROVE  Watched(B, t) <=> \E s \in ObjId : Count(B.subs, <<s, t>>) > 0
<1>1. B.subs \in Seq(Pairs)
  BY DEF Bus
<1>2. \A i \in 1..Len(B.subs) : B.subs[i] \in Pairs
  BY <1>1, ElementOfSeq
<1>3. \A e : Count(B.subs, e) > 0 <=> \E i \in 1..Len(B.subs) : B.subs[i] = e
  BY <1>1, CountIs
<1>4. ASSUME Watched(B, t) PROVE \E s \in ObjId : Count(B.subs, <<s, t>>) > 0
  <2>1. PICK i \in 1..Len(B.subs) : B.subs[i][2] = t
    BY <1>4 DEF Watched
  <2>2. B.subs[i][1] \in ObjId /\ B.subs[i] = <<B.subs[i][1], t>>
    BY <1>2, <2>1 DEF Pairs
  <2> QED
    BY <1>3, <2>2
<1>5. ASSUME NEW s \in ObjId, Count(B.subs, <<s, t>>) > 0 PROVE Watched(B, t)
  <2>1. PICK i \in 1..Len(B.subs) : B.subs[i] = <<s, t>>
    BY <1>3, <1>5
  <2> QED
    BY <2>1 DEF Watched
<1> QED
  BY <1>4, <1>5

(* A change of the subscriptions to t is covered by a notification about t, *)
(* or makes no difference to its owner.                                     *)
LEMMA SubsChange ==
  ASSUME NEW B \in Bus, NEW s \in Seq(Pairs), NEW t \in ObjId,
         B.objects[t].client \in Client, B.objects[t].client \in B.clients,
         \A o \in ObjId \ {t} : Watched(SetSubs(B, s), o) <=> Watched(B, o)
  PROVE  LET B1 == SetSubs(B, s)
             R == ubus_notify_subscription(B1, t)
         IN  /\ (Watched(B1, t) <=> Watched(B, t)) =>
                  \A e \in Client : \A X : Aware(B, e, X) => Aware(B1, e, X)
             /\ R \in Bus /\ SameTables(B1, R)
             /\ \A e \in Client : \A X : Aware(B, e, X) => Aware(R, e, X)
             /\ \A e \in Client : \A W : Tally(B, e, W) => Tally(R, e, W) /\ Tally(B1, e, W)
<1> DEFINE B1 == SetSubs(B, s)
           c == B.objects[t].client
           m == Notify(t, Watched(B1, t))
           R == ubus_notify_subscription(B1, t)
<1>1. /\ B1 \in Bus /\ OtherTables(B, B1) /\ B1.clients = B.clients /\ B1.tx = B.tx
      /\ B1.tx = B.tx /\ B1.view = B.view /\ B1.lost = B.lost /\ B1.stray = B.stray /\ B1.taken = B.taken
  BY SetSubsIs DEF OtherTables
<1> HIDE DEF B1
<1>2. B1.objects = B.objects /\ B1.path = B.path /\ B1.patterns = B.patterns /\ B1.taken = B.taken
  BY <1>1 DEF OtherTables
<1>3. \A e : Own(B1, e) = Own(B, e)
  BY <1>2 DEF Own
<1>4. \A v, e, X : RightTypes(B1, v, e, X) <=> RightTypes(B, v, e, X)
  BY <1>2 DEF RightTypes, Sole
<1>5. \A v, e, X : RightSeen(B1, v, e, X) <=> RightSeen(B, v, e, X)
  BY <1>2, <1>3 DEF RightSeen, Hears, Tracks
<1>6. \A e, X : (t \in Own(B, e) \ X => (Watched(B1, t) <=> Watched(B, t))) =>
                {o \in Own(B1, e) \ X : Watched(B1, o)} = {o \in Own(B, e) \ X : Watched(B, o)}
  BY <1>3 DEF B1, Own
<1>7. ASSUME NEW e \in Client, NEW X, NEW v,
             t \in Own(B, e) \ X => (Watched(B1, t) <=> Watched(B, t)), Right(B, v, e, X)
      PROVE  Right(B1, v, e, X)
  BY <1>3, <1>4, <1>5, <1>6, <1>7 DEF Right
<1>8. ASSUME Watched(B1, t) <=> Watched(B, t), NEW e \in Client, NEW X, Aware(B, e, X)
      PROVE  Aware(B1, e, X)
  BY <1>1, <1>7, <1>8 DEF Aware, Sound, Queued
<1>9. m.type = "NOTIFY" /\ m.obj = t /\ (m.active <=> Watched(B1, t))
  BY DEF Notify
<1>10. Readable(m)
  BY <1>9, NotifyLearns DEF Readable
<1>11. Sent(B1, R, c, m)
  BY <1>1, <1>2, <1>10, SendSent DEF Anyone, ubus_notify_subscription
<1> HIDE DEF R, m
<1>12. R \in Bus /\ SameTables(B1, R)
  BY <1>11 DEF Sent
<1>13. ASSUME NEW e \in Client, NEW X, Aware(B, e, X) PROVE Aware(R, e, X)
  <2>1. Sound(B1, e)
    BY <1>1, <1>13 DEF Aware, Sound, Queued
  <2>2. ASSUME e # c, e \notin B1.lost PROVE Right(B1, B1.view[e], e, X)
    <3>1. t \notin Own(B, e)
      BY <2>2 DEF Own
    <3> QED
      BY <1>1, <1>7, <1>13, <2>2, <3>1 DEF Aware
  <2>3. ASSUME e = c, e \notin B1.lost
        PROVE  Right(B1, Learn(B1.view[e], m), e, X) /\ ~Strays(B1, e, m)
    <3> DEFINE v == B.view[e]
               w == Learn(v, m)
    <3>1. v \in View /\ Right(B, v, e, X)
      BY <1>1, <1>13, <2>3 DEF Aware, Bus
    <3>2. /\ w.own = v.own /\ w.types = v.types /\ w.seen = v.seen
          /\ w.has = IF t \notin v.own THEN v.has
                     ELSE IF m.active THEN v.has \cup {t} ELSE v.has \ {t}
      BY <1>9, <3>1, NotifyLearns
    <3> HIDE DEF w, v
    <3>3. w.own = Own(B1, e) \ X
      BY <1>3, <3>1, <3>2 DEF Right
    <3>4. RightTypes(B1, w, e, X)
      <4>1. RightTypes(B1, v, e, X)
        BY <1>4, <3>1 DEF Right
      <4> QED
        BY <3>2, <4>1 DEF RightTypes, Sole
    <3>5. RightSeen(B1, w, e, X)
      <4>1. RightSeen(B1, v, e, X)
        BY <1>5, <3>1 DEF Right
      <4> QED
        BY <3>2, <4>1 DEF RightSeen
    <3>6. w.has = {o \in Own(B1, e) \ X : Watched(B1, o)}
      <4>1. v.own = Own(B, e) \ X /\ v.has = {o \in Own(B, e) \ X : Watched(B, o)}
        BY <3>1 DEF Right
      <4>2. \A o \in Own(B, e) : o # t => (Watched(B1, o) <=> Watched(B, o))
        BY DEF Own, B1
      <4>3. CASE t \notin v.own
        BY <1>6, <3>2, <4>1, <4>3
      <4>4. CASE t \in v.own
        BY <1>3, <1>9, <3>2, <4>1, <4>2, <4>4
      <4> QED
        BY <4>3, <4>4
    <3>7. ~Strays(B1, e, m)
      BY <1>9 DEF Strays
    <3>8. Right(B1, w, e, X)
      BY <3>3, <3>4, <3>5, <3>6 DEF Right
    <3> QED
      BY <1>1, <3>7, <3>8 DEF w, v
  <2> QED
    BY <1>1, <1>2, <1>11, <2>1, <2>2, <2>3, SentAware DEF Anyone
<1>14. ASSUME NEW e \in Client, NEW W, Tally(B, e, W) PROVE Tally(R, e, W) /\ Tally(B1, e, W)
  <2>1. Tally(B1, e, W)
    BY <1>1, <1>14 DEF Tally
  <2>2. e \notin B1.lost => Learn(B1.view[e], m).watch = W
    <3>1. B1.view[e] \in View
      BY <1>1 DEF Bus
    <3>2. Learn(B1.view[e], m).watch = B1.view[e].watch
      BY <1>9, <3>1, NotifyLearns
    <3> QED
      BY <2>1, <3>2 DEF Tally
  <2> QED
    BY <1>1, <1>11, <2>1, <2>2, SentTally DEF Anyone
<1> QED
  BY <1>8, <1>12, <1>13, <1>14 DEF R, B1

\* The subscriptions st have become n more, and the clients know what they knew.
Resubscribed(B, R, st, n) ==
    /\ R \in Bus /\ OtherTables(B, R)
    /\ \A e : Count(R.subs, e) = Count(B.subs, e) + IF e = st THEN n ELSE 0
    /\ \A e \in Client : \A X : Aware(B, e, X) => Aware(R, e, X)
    /\ \A e \in Client : \A W : Tally(B, e, W) => Tally(R, e, W)

(* A live object belongs to a client.                                       *)
LEMMA LiveIs ==
  ASSUME NEW B \in Bus, NEW o \in ObjId
  PROVE  /\ B.objects[o] \in Registry!Object
         /\ B.objects[o].client \in Anyone /\ B.objects[o].path \in Path \cup {Null}
         /\ B.objects[o].type \in TypeId \cup {Null}
         /\ B.objects[o].client # Null => B.objects[o].client \in Client
         /\ ObjectsOK(B) /\ B.objects[o].client # Null => B.objects[o].client \in B.clients
BY DEF Bus, Registry!Object, Anyone, ObjectsOK, Registry!NoObject

(* The tables but the subscriptions decide these.                           *)
LEMMA OtherDecide ==
  ASSUME NEW B, NEW R, OtherTables(B, R)
  PROVE  /\ ObjectsOK(R) <=> ObjectsOK(B)
         /\ PathOK(R) <=> PathOK(B)
         /\ TypesOK(R) <=> TypesOK(B)
         /\ PatternsOK(R) <=> PatternsOK(B)
         /\ OwnedOK(R) <=> OwnedOK(B)
         /\ \A c : Own(R, c) = Own(B, c)
<1>1. /\ R.clients = B.clients /\ R.objects = B.objects /\ R.path = B.path
      /\ R.obj_types = B.obj_types /\ R.patterns = B.patterns /\ R.owned = B.owned
  BY DEF OtherTables
<1> QED
  BY <1>1 DEF ObjectsOK, PathOK, TypesOK, UsersOf, PatternsOK, OwnedOK, Own

(* ubus_subscribe: the first subscriber of t is announced to its owner.     *)
LEMMA SubscribeIs ==
  ASSUME NEW B \in Bus, NEW s \in ObjId, NEW t \in ObjId, TablesOK(B),
         B.objects[s].client # Null, B.objects[t].client # Null,
         B.objects[s].client # B.objects[t].client
  PROVE  /\ Resubscribed(B, ubus_subscribe(B, s, t), <<s, t>>, 1)
         /\ TablesOK(ubus_subscribe(B, s, t))
<1> DEFINE q == <<<<s, t>>>> \o B.subs
           B1 == SetSubs(B, q)
           R == ubus_subscribe(B, s, t)
           N == ubus_notify_subscription(B1, t)
<1>1. B.subs \in Seq(Pairs) /\ <<s, t>> \in Pairs
  BY DEF Bus, Pairs
<1>2. q \in Seq(Pairs) /\ \A e : Count(q, e) = Count(B.subs, e) + IF <<s, t>> = e THEN 1 ELSE 0
  BY <1>1, CountCons
<1>3. R = IF ~Watched(B, t) THEN N ELSE B1
  BY DEF ubus_subscribe, SetSubs
<1> HIDE DEF q, R
<1>4. B1 \in Bus /\ OtherTables(B, B1) /\ B1.subs = q
  BY <1>2, SetSubsIs
<1>5. \A e : Count(B.subs, e) \in Nat
  BY <1>1, CountIs
<1>6. ASSUME NEW o \in ObjId, o # t \/ Watched(B, t) PROVE Watched(B1, o) <=> Watched(B, o)
  <2>1. CASE o # t
    <3>1. \A x \in ObjId : Count(q, <<x, o>>) = Count(B.subs, <<x, o>>)
      BY <1>2, <1>5, <2>1
    <3> HIDE DEF B1
    <3> QED
      BY <1>4, <3>1, WatchedIs
  <2>2. CASE o = t
    <3>1. PICK x \in ObjId : Count(B.subs, <<x, t>>) > 0
      BY <1>6, <2>2, WatchedIs
    <3>2. Count(q, <<x, t>>) > 0
      BY <1>2, <1>5, <3>1
    <3> HIDE DEF B1
    <3> QED
      BY <1>4, <1>6, <2>2, <3>2, WatchedIs
  <2> QED
    BY <2>1, <2>2
<1>7. /\ (Watched(B1, t) <=> Watched(B, t)) =>
           \A e \in Client : \A X : Aware(B, e, X) => Aware(B1, e, X)
      /\ N \in Bus /\ SameTables(B1, N)
      /\ \A e \in Client : \A X : Aware(B, e, X) => Aware(N, e, X)
      /\ \A e \in Client : \A W : Tally(B, e, W) => Tally(N, e, W) /\ Tally(B1, e, W)
  BY <1>2, <1>6, LiveIs, SubsChange DEF TablesOK
<1> HIDE DEF B1, N
<1>8. OtherTables(B, N) /\ N.subs = q
  BY <1>4, <1>7 DEF SameTables, OtherTables
<1>9. R \in Bus /\ OtherTables(B, R) /\ R.subs = q
  BY <1>3, <1>4, <1>7, <1>8
<1>10. Resubscribed(B, R, <<s, t>>, 1)
  <2>1. \A e : Count(R.subs, e) = Count(B.subs, e) + IF e = <<s, t>> THEN 1 ELSE 0
    BY <1>2, <1>9
  <2>2. \A e \in Client : \A X : Aware(B, e, X) => Aware(R, e, X)
    BY <1>3, <1>6, <1>7
  <2>3. \A e \in Client : \A W : Tally(B, e, W) => Tally(R, e, W)
    BY <1>3, <1>7
  <2> QED
    BY <1>9, <2>1, <2>2, <2>3 DEF Resubscribed
<1>11. SubsOK(R)
  <2> SUFFICES ASSUME NEW st \in Pairs, Count(R.subs, st) > 0
               PROVE  /\ R.objects[st[1]].client # Null /\ R.objects[st[2]].client # Null
                      /\ R.objects[st[1]].client # R.objects[st[2]].client
    BY DEF SubsOK
  <2>1. R.objects = B.objects
    BY <1>9 DEF OtherTables
  <2>2. CASE st = <<s, t>>
    BY <2>1, <2>2
  <2>3. CASE st # <<s, t>>
    <3>1. Count(B.subs, st) > 0
      BY <1>2, <1>5, <1>9, <2>3
    <3> QED
      BY <2>1, <3>1 DEF TablesOK, SubsOK
  <2> QED
    BY <2>2, <2>3
<1>12. TablesOK(R)
  BY <1>9, <1>11, OtherDecide DEF TablesOK
<1> QED
  BY <1>10, <1>12 DEF R

(* ubus_unsubscribe: that the last subscriber went is announced.            *)
LEMMA UnsubscribeIs ==
  ASSUME NEW B \in Bus, NEW st \in Pairs, TablesOK(B), Count(B.subs, st) > 0
  PROVE  /\ Resubscribed(B, ubus_unsubscribe(B, st), st, -1)
         /\ TablesOK(ubus_unsubscribe(B, st))
<1> DEFINE t == st[2]
           q == RemoveFirst(B.subs, st)
           B1 == SetSubs(B, q)
           R == ubus_unsubscribe(B, st)
           N == ubus_notify_subscription(B1, t)
<1>1. B.subs \in Seq(Pairs) /\ t \in ObjId /\ st[1] \in ObjId /\ st = <<st[1], t>>
  BY DEF Bus, Pairs
<1>2. /\ q \in Seq(Pairs)
      /\ \A e : Count(q, e) = Count(B.subs, e) - IF st = e THEN 1 ELSE 0
  BY <1>1, CountRemove
<1>3. R = IF ~Watched(B1, t) THEN N ELSE B1
  BY DEF ubus_unsubscribe, SetSubs
<1>t. B.objects[t].client \in Client /\ B.objects[t].client \in B.clients
  BY <1>1, LiveIs DEF TablesOK, SubsOK
<1> HIDE DEF q, R, t
<1>4. B1 \in Bus /\ OtherTables(B, B1) /\ B1.subs = q
  BY <1>2, SetSubsIs
<1>5. \A e : Count(B.subs, e) \in Nat /\ Count(q, e) \in Nat
  BY <1>1, <1>2, CountIs
<1>6. ASSUME NEW o \in ObjId, o # t \/ Watched(B1, t) PROVE Watched(B1, o) <=> Watched(B, o)
  <2>1. CASE o # t
    <3>1. \A x \in ObjId : Count(q, <<x, o>>) = Count(B.subs, <<x, o>>)
      BY <1>1, <1>2, <1>5, <2>1
    <3> HIDE DEF B1
    <3> QED
      BY <1>4, <3>1, WatchedIs
  <2>2. CASE o = t
    BY <1>1, <1>6, <2>2, WatchedIs
  <2> QED
    BY <2>1, <2>2
<1>7. /\ (Watched(B1, t) <=> Watched(B, t)) =>
           \A e \in Client : \A X : Aware(B, e, X) => Aware(B1, e, X)
      /\ N \in Bus /\ SameTables(B1, N)
      /\ \A e \in Client : \A X : Aware(B, e, X) => Aware(N, e, X)
      /\ \A e \in Client : \A W : Tally(B, e, W) => Tally(N, e, W) /\ Tally(B1, e, W)
  BY <1>1, <1>2, <1>t, <1>6, SubsChange
<1> HIDE DEF B1, N
<1>8. OtherTables(B, N) /\ N.subs = q
  BY <1>4, <1>7 DEF SameTables, OtherTables
<1>9. R \in Bus /\ OtherTables(B, R) /\ R.subs = q
  BY <1>3, <1>4, <1>7, <1>8
<1>10. Resubscribed(B, R, st, -1)
  <2>1. \A e : Count(R.subs, e) = Count(B.subs, e) + IF e = st THEN -1 ELSE 0
    BY <1>2, <1>5, <1>9
  <2>2. \A e \in Client : \A X : Aware(B, e, X) => Aware(R, e, X)
    BY <1>1, <1>3, <1>6, <1>7
  <2>3. \A e \in Client : \A W : Tally(B, e, W) => Tally(R, e, W)
    BY <1>3, <1>7
  <2> QED
    BY <1>9, <2>1, <2>2, <2>3 DEF Resubscribed
<1>11. SubsOK(R)
  <2> SUFFICES ASSUME NEW x \in Pairs, Count(R.subs, x) > 0
               PROVE  /\ R.objects[x[1]].client # Null /\ R.objects[x[2]].client # Null
                      /\ R.objects[x[1]].client # R.objects[x[2]].client
    BY DEF SubsOK
  <2>1. R.objects = B.objects
    BY <1>9 DEF OtherTables
  <2>2. Count(B.subs, x) > 0
    BY <1>2, <1>5, <1>9
  <2> QED
    BY <2>1, <2>2 DEF TablesOK, SubsOK
<1>12. TablesOK(R)
  BY <1>9, <1>11, OtherDecide DEF TablesOK
<1> QED
  BY <1>10, <1>12 DEF R

(* Ending a subscription makes a bus of a bus, whether it exists or not.    *)
LEMMA UnsubscribeBus ==
  ASSUME NEW B \in Bus, NEW st \in Pairs
  PROVE  /\ ubus_unsubscribe(B, st) \in Bus
         /\ ubus_notify_unsubscribe(B, st) \in Bus
<1>1. ASSUME NEW C \in Bus PROVE ubus_unsubscribe(C, st) \in Bus
  <2> DEFINE q == RemoveFirst(C.subs, st)
             B1 == SetSubs(C, q)
             m == Notify(st[2], Watched(B1, st[2]))
  <2>1. C.subs \in Seq(Pairs) /\ st[2] \in ObjId
    BY DEF Bus, Pairs
  <2>2. q \in Seq(Pairs)
    <3>1. CASE \E i \in 1..Len(C.subs) : C.subs[i] = st
      BY <2>1, <3>1, RemoveIs
    <3>2. CASE ~\E i \in 1..Len(C.subs) : C.subs[i] = st
      BY <2>1, <3>2 DEF RemoveFirst
    <3> QED
      BY <3>1, <3>2
  <2> HIDE DEF q
  <2>3. B1 \in Bus
    BY <2>2, SetSubsIs
  <2>4. ubus_unsubscribe(C, st) = IF ~Watched(B1, st[2]) THEN ubus_notify_subscription(B1, st[2]) ELSE B1
    BY DEF ubus_unsubscribe, SetSubs, q
  <2> HIDE DEF B1
  <2>5. m.type = "NOTIFY" /\ m.obj = st[2]
    BY DEF Notify
  <2>6. ubus_notify_subscription(B1, st[2]) = ubus_msg_send(B1, B1.objects[st[2]].client, m)
    BY DEF ubus_notify_subscription
  <2> HIDE DEF m
  <2>7. Readable(m)
    BY <2>1, <2>5, NotifyLearns DEF Readable
  <2>8. ubus_notify_subscription(B1, st[2]) \in Bus
    BY <2>1, <2>3, <2>6, <2>7, LiveIs, SendSent DEF Sent
  <2> QED
    BY <2>3, <2>4, <2>8
<1>2. ubus_msg_send(B, B.objects[st[1]].client, Unsubscribe(st[1], st[2])) \in Bus
  <2>1. st[1] \in ObjId /\ st[2] \in ObjId
    BY DEF Pairs
  <2>2. Readable(Unsubscribe(st[1], st[2]))
    BY <2>1, WatchLearns DEF Readable, Tallied
  <2> QED
    BY <2>1, <2>2, LiveIs, SendSent DEF Sent
<1> QED
  BY <1>1, <1>2 DEF ubus_notify_unsubscribe

(* The subscriptions of an object whose removal its owner knows of.         *)
LEMMA QuietlyKnown ==
  ASSUME NEW B \in Bus, NEW R, NEW st \in Pairs, NEW n \in Int, Resubscribed(B, R, st, n),
         NEW X, st[1] \in X, NEW e \in Client, OK(B, e, X)
  PROVE  OK(R, e, X)
<1>1. Watches(R, e, X) = Watches(B, e, X)
  <2>1. \A x : Own(R, x) = Own(B, x)
    BY OtherDecide DEF Resubscribed
  <2>2. \A x \in Pairs : x[1] \in Own(B, e) \ X => Count(R.subs, x) = Count(B.subs, x)
    <3>1. B.subs \in Seq(Pairs)
      BY DEF Bus
    <3>2. \A x : Count(B.subs, x) \in Nat
      BY <3>1, CountIs
    <3> QED
      BY <3>2 DEF Resubscribed
  <2> QED
    BY <2>1, <2>2 DEF Watches
<1> QED
  BY <1>1 DEF Resubscribed, OK

\* The numbers a client knows, n higher at st.
Off(W, st, n) == [x \in Pairs |-> IF x = st THEN W[x] + n ELSE W[x]]

\* By how much the number of a subscription changes.
Delta == {-1, 1}

(* What the owner of the subscriber must know after a subscription changed. *)
LEMMA KnownIfTold ==
  ASSUME NEW B \in Bus, NEW R, NEW st \in Pairs, NEW n \in Delta, Resubscribed(B, R, st, n),
         NEW X, st[1] \notin X, NEW e \in Client
  PROVE  Watches(R, e, X) = IF B.objects[st[1]].client = e THEN Off(Watches(B, e, X), st, n)
                            ELSE Watches(B, e, X)
<1>1. \A x : Own(R, x) = Own(B, x)
  BY OtherDecide DEF Resubscribed
<1>2. \A x : Count(R.subs, x) = Count(B.subs, x) + IF x = st THEN n ELSE 0
  BY DEF Resubscribed
<1>3. \A x : Count(B.subs, x) \in Nat
  <2>1. B.subs \in Seq(Pairs)
    BY DEF Bus
  <2> QED
    BY <2>1, CountIs
<1>4. st[1] \in Own(B, e) \ X <=> B.objects[st[1]].client = e
  BY DEF Own, Pairs
<1>5. \A x \in Pairs : x # st => Count(R.subs, x) = Count(B.subs, x)
  BY <1>2, <1>3
<1>6. Count(R.subs, st) = Count(B.subs, st) + n
  BY <1>2
<1> QED
  BY <1>1, <1>4, <1>5, <1>6 DEF Watches, Off

(* A message about a subscription st, sent to the owner of the subscriber.  *)
LEMMA TellTally ==
  ASSUME NEW B \in Bus, NEW c \in Client, c \in B.clients, NEW m, NEW st \in Pairs, NEW n \in Int,
         \A v \in View : Tallied(v, Learn(v, m), st, n),
         m.type \in {"INVOKE", "UNSUBSCRIBE"} => m.obj = st[1]
  PROVE  LET R == ubus_msg_send(B, c, m)
         IN  /\ Sent(B, R, c, m) /\ R \in Bus /\ SameTables(B, R)
             /\ \A e \in Client : \A X :
                  Aware(B, e, X) /\ (e = c => st[1] \in Own(B, e) \ X) => Aware(R, e, X)
             /\ \A e \in Client : \A W \in [Pairs -> Int] :
                  Tally(B, e, W) => Tally(R, e, IF e = c THEN Off(W, st, n) ELSE W)
<1> DEFINE R == ubus_msg_send(B, c, m)
<1>1. Readable(m)
  BY DEF Readable, Tallied
<1>2. Sent(B, R, c, m) /\ c \in Anyone
  BY <1>1, SendSent DEF Anyone
<1> HIDE DEF R
<1>3. R \in Bus /\ SameTables(B, R)
  BY <1>2 DEF Sent
<1>4. \A e \in Client : B.view[e] \in View
  BY DEF Bus
<1>5. ASSUME NEW e \in Client, NEW X, Aware(B, e, X), e = c => st[1] \in Own(B, e) \ X
      PROVE  Aware(R, e, X)
  <2>1. e # c /\ e \notin B.lost => Right(B, B.view[e], e, X)
    BY <1>5 DEF Aware
  <2>2. ASSUME e = c, e \notin B.lost
        PROVE  Right(B, Learn(B.view[e], m), e, X) /\ ~Strays(B, e, m)
    <3> DEFINE v == B.view[e]
               w == Learn(v, m)
    <3>1. v \in View /\ Right(B, v, e, X)
      BY <1>4, <1>5, <2>2 DEF Aware
    <3>2. w.own = v.own /\ w.types = v.types /\ w.seen = v.seen /\ w.has = v.has
      BY <3>1 DEF Tallied
    <3>3. ~Strays(B, e, m)
      BY <1>5, <2>2, <3>1 DEF Strays, Right
    <3> HIDE DEF v, w
    <3>4. Right(B, w, e, X)
      BY <3>1, <3>2 DEF Right, RightTypes, Sole, RightSeen
    <3> QED
      BY <3>3, <3>4 DEF v, w
  <2> QED
    BY <1>2, <1>5, <2>1, <2>2, SentAware DEF Aware
<1>6. ASSUME NEW e \in Client, NEW W \in [Pairs -> Int], Tally(B, e, W)
      PROVE  Tally(R, e, IF e = c THEN Off(W, st, n) ELSE W)
  <2>1. ASSUME e \notin B.lost PROVE Learn(B.view[e], m).watch = Off(W, st, n)
    <3>1. Learn(B.view[e], m).watch =
            [x \in Pairs |-> IF x = st THEN B.view[e].watch[x] + n ELSE B.view[e].watch[x]]
      BY <1>4 DEF Tallied
    <3> QED
      BY <1>6, <2>1, <3>1 DEF Tally, Off
  <2> QED
    BY <1>2, <1>6, <2>1, SentTally
<1> QED
  BY <1>2, <1>3, <1>5, <1>6 DEF R

(* Those numbers are numbers.                                               *)
LEMMA WatchesIs ==
  ASSUME NEW B \in Bus, NEW e, NEW X
  PROVE  Watches(B, e, X) \in [Pairs -> Int]
<1>1. B.subs \in Seq(Pairs)
  BY DEF Bus
<1>2. \A x : Count(B.subs, x) \in Nat
  BY <1>1, CountIs
<1> QED
  BY <1>2 DEF Watches

----------------------------------------------------------------------------
(* ubusd_free_object: the subscriptions of the object.                      *)

\* The object that is on its way out, and the subscriptions from it and to it.
Dying(o) == {o}
From(o) == {o} \X ObjId
To(o) == ObjId \X {o}

\* The subscriptions of B that satisfy P have gone from R, for the observers e
\* whose knowledge was right but for X.
Unsubscribed(B, R, P, X) ==
    /\ R \in Bus /\ TablesOK(R) /\ OtherTables(B, R)
    /\ \A x \in Pairs : Count(R.subs, x) = IF x \in P THEN 0 ELSE Count(B.subs, x)
    /\ \A e \in Client : OK(B, e, X) => OK(R, e, X)

(* ubus_notify_unsubscribe: the subscriber is told first.                   *)
LEMMA NotifyUnsubscribeIs ==
  ASSUME NEW B \in Bus, NEW st \in Pairs, TablesOK(B), Count(B.subs, st) > 0,
         NEW X, st[1] \notin X
  PROVE  LET R == ubus_notify_unsubscribe(B, st)
         IN  /\ R \in Bus /\ TablesOK(R) /\ OtherTables(B, R)
             /\ \A x : Count(R.subs, x) = Count(B.subs, x) + IF x = st THEN -1 ELSE 0
             /\ \A e \in Client : OK(B, e, X) => OK(R, e, X)
<1> DEFINE s == st[1]
           t == st[2]
           c == B.objects[s].client
           m == Unsubscribe(s, t)
           B1 == ubus_msg_send(B, c, m)
           R == ubus_unsubscribe(B1, st)
<1>0. s \in ObjId /\ t \in ObjId /\ st = <<s, t>>
  BY DEF Pairs
<1>1. c \in Client /\ c \in B.clients
  BY <1>0, LiveIs DEF TablesOK, SubsOK
<1>2. /\ \A v \in View : Tallied(v, Learn(v, m), st, -1)
      /\ m.type \in {"INVOKE", "UNSUBSCRIBE"} => m.obj = st[1]
  BY <1>0, WatchLearns DEF Unsubscribe
<1>3. ubus_notify_unsubscribe(B, st) = R
  BY DEF ubus_notify_unsubscribe
<1> HIDE DEF m, c
<1>4. /\ B1 \in Bus /\ SameTables(B, B1)
      /\ \A e \in Client : Aware(B, e, X) /\ (e = c => st[1] \in Own(B, e) \ X) => Aware(B1, e, X)
      /\ \A e \in Client : \A W \in [Pairs -> Int] :
           Tally(B, e, W) => Tally(B1, e, IF e = c THEN Off(W, st, -1) ELSE W)
  BY <1>1, <1>2, TellTally
<1> HIDE DEF B1
<1>5. TablesOK(B1) /\ \A e : Watches(B1, e, X) = Watches(B, e, X)
  BY <1>4, TablesDecide
<1>6. B1.subs = B.subs /\ B1.objects = B.objects
  BY <1>4 DEF SameTables
<1>7. Resubscribed(B1, R, st, -1) /\ TablesOK(R)
  BY <1>4, <1>5, <1>6, UnsubscribeIs
<1> HIDE DEF R
<1>8. R \in Bus /\ OtherTables(B, R)
  BY <1>4, <1>7 DEF Resubscribed, SameTables, OtherTables
<1>9. \A x : Count(R.subs, x) = Count(B.subs, x) + IF x = st THEN -1 ELSE 0
  BY <1>6, <1>7 DEF Resubscribed
<1>10. ASSUME NEW e \in Client, OK(B, e, X) PROVE OK(R, e, X)
  <2>1. e = c => st[1] \in Own(B, e) \ X
    BY <1>0 DEF Own, c
  <2>2. Aware(R, e, X)
    BY <1>4, <1>7, <1>10, <2>1 DEF OK, Resubscribed
  <2>3. Tally(B1, e, IF e = c THEN Off(Watches(B, e, X), st, -1) ELSE Watches(B, e, X))
    BY <1>4, <1>10, WatchesIs DEF OK
  <2>4. Watches(R, e, X) = IF e = c THEN Off(Watches(B, e, X), st, -1) ELSE Watches(B, e, X)
    <3>1. -1 \in Delta
      BY DEF Delta
    <3> QED
      BY <1>4, <1>5, <1>6, <1>7, <3>1, KnownIfTold DEF c
  <2> QED
    BY <1>7, <2>2, <2>3, <2>4 DEF OK, Resubscribed
<1> QED
  BY <1>3, <1>7, <1>8, <1>9, <1>10

(* The relation between tables is transitive.                               *)
LEMMA OtherTrans ==
  ASSUME NEW B, NEW C, NEW D, OtherTables(B, C), OtherTables(C, D)
  PROVE  OtherTables(B, D)
BY DEF OtherTables

(* LeaveTargets: the object's own subscriptions are gone.                   *)
LEMMA LeaveTargetsIs ==
  ASSUME NEW B \in Bus, NEW o \in ObjId, TablesOK(B)
  PROVE  Unsubscribed(B, LeaveTargets(B, o), From(o), Dying(o))
<1> DEFINE s == B.subs
           Leave(X, st) == IF st[1] = o THEN ubus_unsubscribe(X, st) ELSE X
           run == CHOOSE h : h = [i \in 0..Len(s) |-> IF i = 0 THEN B ELSE Leave(h[i - 1], s[i])]
           f == [z \in Bus \X Pairs |-> Leave(z[1], z[2])]
<1>1. LeaveTargets(B, o) = run[Len(s)]
  BY DEF LeaveTargets, ForEach
<1>2. s \in Seq(Pairs) /\ Len(s) \in Nat /\ \A i \in 1..Len(s) : s[i] \in Pairs
  BY LenProperties, ElementOfSeq DEF Bus
<1>3. f \in [Bus \X Pairs -> Bus] /\ \A X \in Bus, st \in Pairs : f[<<X, st>>] = Leave(X, st)
  BY UnsubscribeBus
<1>4. \E h : h = [i \in 0..Len(s) |-> IF i = 0 THEN B ELSE Leave(h[i - 1], s[i])]
  <2> HIDE DEF f, Leave, s
  <2>1. PICK g : IsRun(g, f, B, s, Bus)
    <3>1. f \in [Bus \X Pairs -> Bus] /\ s \in Seq(Pairs)
      BY <1>2, <1>3
    <3> QED
      BY <3>1, Unroll
  <2>2. \A i \in 0..Len(s) : i # 0 => i \in 1..Len(s) /\ g[i - 1] \in Bus /\ s[i] \in Pairs
    BY <1>2, <2>1 DEF IsRun
  <2>3. \A i \in 0..Len(s) : g[i] = IF i = 0 THEN B ELSE Leave(g[i - 1], s[i])
    BY <1>3, <2>1, <2>2 DEF IsRun
  <2>4. g = [i \in 0..Len(s) |-> IF i = 0 THEN B ELSE Leave(g[i - 1], s[i])]
    BY <2>1, <2>3 DEF IsRun
  <2> QED
    BY <2>4
<1>5. run = [i \in 0..Len(s) |-> IF i = 0 THEN B ELSE Leave(run[i - 1], s[i])]
  <2> HIDE DEF Leave, s
  <2> QED
    BY <1>4
<1> HIDE DEF run, f
<1>6. run[0] = B /\ \A i \in 1..Len(s) : run[i] = Leave(run[i - 1], s[i])
  <2> HIDE DEF Leave, s
  <2>1. 0 \in 0..Len(s) /\ \A i \in 1..Len(s) : i \in 0..Len(s) /\ i # 0
    BY <1>2
  <2> QED
    BY <1>5, <2>1
<1> DEFINE Now(R, i) ==
             /\ R \in Bus /\ TablesOK(R) /\ OtherTables(B, R)
             /\ \A x \in Pairs : Count(R.subs, x) = Count(s, x) - IF x[1] = o THEN CountTo(s, i, x) ELSE 0
             /\ \A e \in Client : OK(B, e, Dying(o)) => OK(R, e, Dying(o))
<1>7. \A x : Count(s, x) \in Nat /\ CountTo(s, 0, x) = 0 /\ CountTo(s, Len(s), x) = Count(s, x)
  BY <1>2, CountIs, CountToIs
<1>8. Now(run[0], 0)
  BY <1>6, <1>7 DEF OtherTables
<1>9. ASSUME NEW i \in 1..Len(s), Now(run[i - 1], i - 1) PROVE Now(run[i], i)
  <2> DEFINE st == s[i]
             P == run[i - 1]
             R == run[i]
  <2>0. i \in Nat \ {0} /\ i - 1 \in Nat /\ st \in Pairs
    BY <1>2
  <2>1. \A x : /\ CountTo(s, i, x) = CountTo(s, i - 1, x) + IF st = x THEN 1 ELSE 0
               /\ CountTo(s, i - 1, x) \in Nat
    BY <2>0, CountToIs
  <2>2. CountTo(s, i - 1, st) < Count(s, st)
    BY <1>2, CountIs
  <2>3. R = Leave(P, st)
    BY <1>6
  <2> HIDE DEF st, P, R, s
  <2>4. Now(P, i - 1)
    BY <1>9 DEF P
  <2>5. CASE st[1] # o
    <3>1. R = P
      BY <2>3, <2>5
    <3>2. \A x \in Pairs : x[1] = o => CountTo(s, i, x) = CountTo(s, i - 1, x)
      BY <2>1, <2>5
    <3>3. Now(P, i)
      BY <2>4, <3>2
    <3> QED
      BY <3>1, <3>3 DEF R
  <2>6. CASE st[1] = o
    <3>1. R = ubus_unsubscribe(P, st)
      BY <2>3, <2>6
    <3>2. Count(P.subs, st) = Count(s, st) - CountTo(s, i - 1, st)
      BY <2>0, <2>4, <2>6
    <3>3. Count(P.subs, st) > 0
      BY <1>7, <2>1, <2>2, <3>2
    <3>4. Resubscribed(P, R, st, -1) /\ TablesOK(R)
      BY <2>0, <2>4, <3>1, <3>3, UnsubscribeIs
    <3>5. R \in Bus /\ OtherTables(B, R)
      BY <2>4, <3>4, OtherTrans DEF Resubscribed
    <3>6. ASSUME NEW x \in Pairs
          PROVE  Count(R.subs, x) = Count(s, x) - IF x[1] = o THEN CountTo(s, i, x) ELSE 0
      <4>1. Count(R.subs, x) = Count(P.subs, x) + IF x = st THEN -1 ELSE 0
        BY <3>4 DEF Resubscribed
      <4>2. Count(P.subs, x) = Count(s, x) - IF x[1] = o THEN CountTo(s, i - 1, x) ELSE 0
        BY <2>4
      <4>3. /\ CountTo(s, i, x) = CountTo(s, i - 1, x) + IF st = x THEN 1 ELSE 0
            /\ CountTo(s, i - 1, x) \in Nat /\ Count(s, x) \in Nat
        BY <1>7, <2>1
      <4>4. CASE x = st
        BY <2>6, <4>1, <4>2, <4>3, <4>4
      <4>5. CASE x # st
        BY <4>1, <4>2, <4>3, <4>5
      <4> QED
        BY <4>4, <4>5
    <3>7. \A e \in Client : OK(B, e, Dying(o)) => OK(R, e, Dying(o))
      <4> TAKE e \in Client
      <4>1. P \in Bus /\ (OK(B, e, Dying(o)) => OK(P, e, Dying(o)))
        BY <2>4
      <4>2. st[1] \in Dying(o)
        BY <2>6 DEF Dying
      <4> HIDE DEF Now
      <4> QED
        BY <2>0, <3>4, <4>1, <4>2, QuietlyKnown
    <3>8. Now(R, i)
      BY <3>4, <3>5, <3>6, <3>7
    <3> QED
      BY <3>8 DEF R
  <2> QED
    BY <2>5, <2>6
<1> DEFINE Good == {i \in 0..Len(s) : Now(run[i], i)}
<1>10. Len(s) \in Good
  <2> HIDE DEF Now, s
  <2>1. 0 \in Good /\ \A i \in 1..Len(s) : i - 1 \in Good => i \in Good
    BY <1>2, <1>8, <1>9
  <2> HIDE DEF Good
  <2>2. \A i \in 0..Len(s) : i \in Good
    BY <1>2, <2>1, Rounds
  <2> QED
    BY <1>2, <2>2
<1>11. Now(run[Len(s)], Len(s))
  <2> HIDE DEF Now, s
  <2> QED
    BY <1>10
<1> DEFINE R == run[Len(s)]
<1> HIDE DEF R
<1>12. Now(R, Len(s))
  BY <1>11 DEF R
<1>13. \A x \in Pairs : Count(R.subs, x) = IF x \in From(o) THEN 0 ELSE Count(B.subs, x)
  <2>1. \A x \in Pairs : x \in From(o) <=> x[1] = o
    BY DEF Pairs, From
  <2> QED
    BY <1>7, <1>12, <2>1
<1> QED
  BY <1>1, <1>12, <1>13 DEF R, Unsubscribed

(* DropSubscribers: the subscriptions of others to the object are gone.     *)
LEMMA DropSubscribersIs ==
  ASSUME NEW B \in Bus, NEW o \in ObjId, TablesOK(B)
  PROVE  Unsubscribed(B, DropSubscribers(B, o), To(o), Dying(o))
<1> DEFINE s == B.subs
           Drop(X, st) == IF st[2] = o THEN ubus_notify_unsubscribe(X, st) ELSE X
           run == CHOOSE h : h = [i \in 0..Len(s) |-> IF i = 0 THEN B ELSE Drop(h[i - 1], s[i])]
           f == [z \in Bus \X Pairs |-> Drop(z[1], z[2])]
<1>1. DropSubscribers(B, o) = run[Len(s)]
  BY DEF DropSubscribers, ForEach
<1>2. s \in Seq(Pairs) /\ Len(s) \in Nat /\ \A i \in 1..Len(s) : s[i] \in Pairs
  BY LenProperties, ElementOfSeq DEF Bus
<1>3. f \in [Bus \X Pairs -> Bus] /\ \A X \in Bus, st \in Pairs : f[<<X, st>>] = Drop(X, st)
  BY UnsubscribeBus
<1>4. \E h : h = [i \in 0..Len(s) |-> IF i = 0 THEN B ELSE Drop(h[i - 1], s[i])]
  <2> HIDE DEF f, Drop, s
  <2>1. PICK g : IsRun(g, f, B, s, Bus)
    <3>1. f \in [Bus \X Pairs -> Bus] /\ s \in Seq(Pairs)
      BY <1>2, <1>3
    <3> QED
      BY <3>1, Unroll
  <2>2. \A i \in 0..Len(s) : i # 0 => i \in 1..Len(s) /\ g[i - 1] \in Bus /\ s[i] \in Pairs
    BY <1>2, <2>1 DEF IsRun
  <2>3. \A i \in 0..Len(s) : g[i] = IF i = 0 THEN B ELSE Drop(g[i - 1], s[i])
    BY <1>3, <2>1, <2>2 DEF IsRun
  <2>4. g = [i \in 0..Len(s) |-> IF i = 0 THEN B ELSE Drop(g[i - 1], s[i])]
    BY <2>1, <2>3 DEF IsRun
  <2> QED
    BY <2>4
<1>5. run = [i \in 0..Len(s) |-> IF i = 0 THEN B ELSE Drop(run[i - 1], s[i])]
  <2> HIDE DEF Drop, s
  <2> QED
    BY <1>4
<1> HIDE DEF run, f
<1>6. run[0] = B /\ \A i \in 1..Len(s) : run[i] = Drop(run[i - 1], s[i])
  <2> HIDE DEF Drop, s
  <2>1. 0 \in 0..Len(s) /\ \A i \in 1..Len(s) : i \in 0..Len(s) /\ i # 0
    BY <1>2
  <2> QED
    BY <1>5, <2>1
<1> DEFINE Now(R, i) ==
             /\ R \in Bus /\ TablesOK(R) /\ OtherTables(B, R)
             /\ \A x \in Pairs : Count(R.subs, x) = Count(s, x) - IF x[2] = o THEN CountTo(s, i, x) ELSE 0
             /\ \A e \in Client : OK(B, e, Dying(o)) => OK(R, e, Dying(o))
<1>7. \A x : Count(s, x) \in Nat /\ CountTo(s, 0, x) = 0 /\ CountTo(s, Len(s), x) = Count(s, x)
  BY <1>2, CountIs, CountToIs
<1>8. Now(run[0], 0)
  BY <1>6, <1>7 DEF OtherTables
<1>9. ASSUME NEW i \in 1..Len(s), Now(run[i - 1], i - 1) PROVE Now(run[i], i)
  <2> DEFINE st == s[i]
             P == run[i - 1]
             R == run[i]
  <2>0. i \in Nat \ {0} /\ i - 1 \in Nat /\ st \in Pairs
    BY <1>2
  <2>1. \A x : /\ CountTo(s, i, x) = CountTo(s, i - 1, x) + IF st = x THEN 1 ELSE 0
               /\ CountTo(s, i - 1, x) \in Nat
    BY <2>0, CountToIs
  <2>2. CountTo(s, i - 1, st) < Count(s, st)
    BY <1>2, CountIs
  <2>3. R = Drop(P, st)
    BY <1>6
  <2> HIDE DEF st, P, R, s
  <2>4. Now(P, i - 1)
    BY <1>9 DEF P
  <2>5. CASE st[2] # o
    <3>1. R = P
      BY <2>3, <2>5
    <3>2. \A x \in Pairs : x[2] = o => CountTo(s, i, x) = CountTo(s, i - 1, x)
      BY <2>1, <2>5
    <3>3. Now(P, i)
      BY <2>4, <3>2
    <3> QED
      BY <3>1, <3>3 DEF R
  <2>6. CASE st[2] = o
    <3>1. R = ubus_notify_unsubscribe(P, st)
      BY <2>3, <2>6
    <3>2. Count(P.subs, st) = Count(s, st) - CountTo(s, i - 1, st)
      BY <2>0, <2>4, <2>6
    <3>3. Count(P.subs, st) > 0
      BY <1>7, <2>1, <2>2, <3>2
    <3>4. st[1] \notin Dying(o)
      <4>1. P.objects[st[1]].client # P.objects[st[2]].client
        BY <2>0, <2>4, <3>3 DEF TablesOK, SubsOK
      <4> QED
        BY <2>6, <4>1 DEF Dying
    <3>5. /\ R \in Bus /\ TablesOK(R) /\ OtherTables(P, R)
          /\ \A x : Count(R.subs, x) = Count(P.subs, x) + IF x = st THEN -1 ELSE 0
          /\ \A e \in Client : OK(P, e, Dying(o)) => OK(R, e, Dying(o))
      BY <2>0, <2>4, <3>1, <3>3, <3>4, NotifyUnsubscribeIs
    <3>6. ASSUME NEW x \in Pairs
          PROVE  Count(R.subs, x) = Count(s, x) - IF x[2] = o THEN CountTo(s, i, x) ELSE 0
      <4>1. Count(R.subs, x) = Count(P.subs, x) + IF x = st THEN -1 ELSE 0
        BY <3>5
      <4>2. Count(P.subs, x) = Count(s, x) - IF x[2] = o THEN CountTo(s, i - 1, x) ELSE 0
        BY <2>4
      <4>3. /\ CountTo(s, i, x) = CountTo(s, i - 1, x) + IF st = x THEN 1 ELSE 0
            /\ CountTo(s, i - 1, x) \in Nat /\ Count(s, x) \in Nat
        BY <1>7, <2>1
      <4>4. CASE x = st
        BY <2>6, <4>1, <4>2, <4>3, <4>4
      <4>5. CASE x # st
        BY <4>1, <4>2, <4>3, <4>5
      <4> QED
        BY <4>4, <4>5
    <3>7. OtherTables(B, R) /\ \A e \in Client : OK(B, e, Dying(o)) => OK(R, e, Dying(o))
      BY <2>4, <3>5, OtherTrans
    <3>8. Now(R, i)
      BY <3>5, <3>6, <3>7
    <3> QED
      BY <3>8 DEF R
  <2> QED
    BY <2>5, <2>6
<1> DEFINE Good == {i \in 0..Len(s) : Now(run[i], i)}
<1>10. Len(s) \in Good
  <2> HIDE DEF Now, s
  <2>1. 0 \in Good /\ \A i \in 1..Len(s) : i - 1 \in Good => i \in Good
    BY <1>2, <1>8, <1>9
  <2> HIDE DEF Good
  <2>2. \A i \in 0..Len(s) : i \in Good
    BY <1>2, <2>1, Rounds
  <2> QED
    BY <1>2, <2>2
<1>11. Now(run[Len(s)], Len(s))
  <2> HIDE DEF Now, s
  <2> QED
    BY <1>10
<1> DEFINE R == run[Len(s)]
<1> HIDE DEF R
<1>12. Now(R, Len(s))
  BY <1>11 DEF R
<1>13. \A x \in Pairs : Count(R.subs, x) = IF x \in To(o) THEN 0 ELSE Count(B.subs, x)
  <2>1. \A x \in Pairs : x \in To(o) <=> x[2] = o
    BY DEF Pairs, To
  <2> QED
    BY <1>7, <1>12, <2>1
<1> QED
  BY <1>1, <1>12, <1>13 DEF R, Unsubscribed

----------------------------------------------------------------------------
(* Events.                                                                  *)

\* An event that can be sent when the tables are those of B: of a client, or that
\* the object of the path is there, or that it goes.
Suits(B, c, id, about) ==
    \/ id \in EventId /\ c \in Client
    \/ id = ObjAdd /\ c = Null /\ about \in Path \X ObjId /\ B.path[about[1]] = about[2]
    \/ id = ObjRemove /\ c = Null /\ about \in Path \X ObjId

\* Listener l does not think any more that the object is there.
Gone(Q, l, about) ==
    Q.objects[l].client \notin Q.lost => <<l, about>> \notin Q.view[Q.objects[l].client].seen

(* One delivery of an event.                                                *)
LEMMA DeliverIs ==
  ASSUME NEW B \in Bus, NEW l \in ObjId, NEW pat, NEW c, NEW id, NEW about,
         Suits(B, c, id, about), <<id, pat>> \in Matches, <<l, pat>> \in ToSet(B.patterns),
         NEW D, l \notin D, B.objects[l].client \in Client, B.objects[l].client \in B.clients
  PROVE  LET R == ubus_msg_send(B, B.objects[l].client, Event(l, id, about))
         IN  /\ R \in Bus /\ SameTables(B, R)
             /\ \A e \in Client : Aware(B, e, D) => Aware(R, e, D)
             /\ \A e \in Client : \A W : Tally(B, e, W) => Tally(R, e, W)
             /\ id = ObjRemove => /\ Gone(R, l, about)
                                  /\ \A k \in ObjId : B.objects[k].client \in Client /\ Gone(B, k, about)
                                                      => Gone(R, k, about)
<1> DEFINE o == B.objects[l].client
           m == Event(l, id, about)
           R == ubus_msg_send(B, o, m)
<1>0. id \in EventId \/ (id \in {ObjAdd, ObjRemove} /\ about \in Path \X ObjId)
  BY DEF Suits
<1>1. \A v \in View :
        /\ Learn(v, m) \in View /\ Learn(v, m).own = v.own /\ Learn(v, m).types = v.types
        /\ Learn(v, m).has = v.has /\ Learn(v, m).watch = v.watch
        /\ Learn(v, m).seen = Heard(v.seen, l, id, about)
  BY <1>0, EventLearns
<1>o. o \in Client /\ o \in Anyone /\ o \in B.clients
  BY DEF Anyone
<1>2. m.obj = l
  BY DEF Event
<1> HIDE DEF m, o
<1>3. Readable(m)
  BY <1>1 DEF Readable
<1>4. Sent(B, R, o, m)
  BY <1>3, <1>o, SendSent
<1> HIDE DEF R
<1>5. R \in Bus /\ SameTables(B, R)
  BY <1>4, <1>o DEF Sent
<1>6. \A e \in Client : B.view[e] \in View
  BY DEF Bus
<1>r. ObjAdd # ObjRemove
  BY DEF ObjAdd, ObjRemove
<1>7. ASSUME NEW e \in Client, Aware(B, e, D) PROVE Aware(R, e, D)
  <2>1. e # o /\ e \notin B.lost => Right(B, B.view[e], e, D)
    BY <1>7 DEF Aware
  <2>2. ASSUME e = o, e \notin B.lost
        PROVE  Right(B, Learn(B.view[e], m), e, D) /\ ~Strays(B, e, m)
    <3> DEFINE v == B.view[e]
               w == Learn(v, m)
    <3>1. v \in View /\ Right(B, v, e, D)
      BY <1>6, <1>7, <2>2 DEF Aware
    <3>2. /\ w.own = v.own /\ w.types = v.types /\ w.has = v.has
          /\ w.seen = Heard(v.seen, l, id, about)
      BY <1>1, <3>1
    <3>3. l \in Own(B, e) \ D
      BY <2>2 DEF Own, o
    <3>4. ~Strays(B, e, m)
      BY <1>2, <3>1, <3>3 DEF Strays, Right
    <3> HIDE DEF v, w
    <3>5. RightSeen(B, w, e, D)
      <4>1. ASSUME NEW x \in w.seen, x \notin v.seen
            PROVE  /\ x[1] \in Own(B, e) \ D /\ Hears(B, x[1], ObjAdd)
                   /\ Tracks(B, x[1]) => B.path[x[2][1]] = x[2][2]
        <5>1. id = ObjAdd /\ x = <<l, about>>
          BY <3>2, <4>1 DEF Heard
        <5>2. B.path[about[1]] = about[2]
          BY <5>1, <1>r, EventAssumption DEF Suits
        <5>3. Hears(B, l, ObjAdd)
          BY <5>1 DEF Hears
        <5> QED
          BY <3>3, <5>1, <5>2, <5>3
      <4>2. RightSeen(B, v, e, D)
        BY <3>1 DEF Right
      <4> QED
        BY <4>1, <4>2 DEF RightSeen
    <3>6. RightTypes(B, w, e, D)
      BY <3>1, <3>2 DEF Right, RightTypes, Sole
    <3>7. Right(B, w, e, D)
      BY <3>1, <3>2, <3>5, <3>6 DEF Right
    <3> QED
      BY <3>4, <3>7 DEF v, w
  <2> QED
    BY <1>4, <1>7, <1>o, <2>1, <2>2, SentAware DEF Aware
<1>8. ASSUME NEW e \in Client, NEW W, Tally(B, e, W) PROVE Tally(R, e, W)
  <2>1. e \notin B.lost => Learn(B.view[e], m).watch = W
    BY <1>1, <1>6, <1>8 DEF Tally
  <2> QED
    BY <1>4, <1>8, <1>o, <2>1, SentTally
<1>9. ASSUME id = ObjRemove PROVE Gone(R, l, about)
  <2>1. R.objects = B.objects
    BY <1>5 DEF SameTables
  <2>2. o \notin R.lost => R.view[o] = Learn(B.view[o], m)
    BY <1>4, <1>o DEF Sent
  <2>3. Learn(B.view[o], m).seen = B.view[o].seen \ {<<l, about>>}
    BY <1>1, <1>6, <1>9, <1>r, <1>o DEF Heard
  <2> QED
    BY <2>1, <2>2, <2>3 DEF Gone, o
<1>10. ASSUME id = ObjRemove, NEW k \in ObjId, B.objects[k].client \in Client, Gone(B, k, about)
       PROVE  Gone(R, k, about)
  <2> DEFINE e == B.objects[k].client
  <2>1. R.objects = B.objects
    BY <1>5 DEF SameTables
  <2>2. CASE e # o
    <3>1. (e \in R.lost <=> e \in B.lost) /\ R.view[e] = B.view[e]
      BY <1>4, <1>10, <2>2 DEF Sent, Anyone
    <3> QED
      BY <1>10, <2>1, <3>1 DEF Gone
  <2>3. CASE e = o
    <3>1. o \notin R.lost => o \notin B.lost /\ R.view[o] = Learn(B.view[o], m)
      BY <1>4, <1>o DEF Sent
    <3>2. Learn(B.view[o], m).seen = B.view[o].seen \ {<<l, about>>}
      BY <1>1, <1>6, <1>10, <1>r, <1>o DEF Heard
    <3> QED
      BY <1>10, <2>1, <2>3, <3>1, <3>2 DEF Gone
  <2> QED
    BY <2>2, <2>3
<1> QED
  BY <1>5, <1>7, <1>8, <1>9, <1>10 DEF R, m, o

(* ubusd_send_event: what the clients know stays right, and a removal gets  *)
(* to all that listen.                                                      *)
LEMMA SendEventIs ==
  ASSUME NEW B \in Bus, ObjectsOK(B), PatternsOK(B), NEW c, NEW id, NEW about,
         Suits(B, c, id, about),
         NEW D, \A op \in ToSet(B.patterns) : op[1] \notin D
  PROVE  LET R == ubusd_send_event(B, c, id, about)
         IN  /\ R \in Bus /\ SameTables(B, R)
             /\ \A e \in Client : Aware(B, e, D) => Aware(R, e, D)
             /\ \A e \in Client : \A W : Tally(B, e, W) => Tally(R, e, W)
             /\ id = ObjRemove => \A l \in ObjId : Hears(B, l, ObjRemove) => Gone(R, l, about)
<1> DEFINE s == B.patterns
           E == ObjId \X Pattern
           S == [seen : SUBSET ObjId, bus : Bus]
           b == [seen |-> {}, bus |-> B]
           Passed(X, op) ==
             <<id, op[2]>> \notin Matches \/ X.bus.objects[op[1]].client = c \/ op[1] \in X.seen
           Deliver(X, op) ==
             IF Passed(X, op) THEN X
             ELSE [seen |-> X.seen \cup {op[1]},
                   bus |-> ubus_msg_send(X.bus, X.bus.objects[op[1]].client, Event(op[1], id, about))]
           run == CHOOSE h : h = [i \in 0..Len(s) |-> IF i = 0 THEN b ELSE Deliver(h[i - 1], s[i])]
           f == [z \in S \X E |-> Deliver(z[1], z[2])]
<1>1. ubusd_send_event(B, c, id, about) = run[Len(s)].bus
  BY DEF ubusd_send_event, ForEach
<1>2. s \in Seq(E) /\ Len(s) \in Nat /\ DOMAIN s = 1..Len(s)
      /\ \A i \in 1..Len(s) : s[i] \in E
  BY LenProperties, ElementOfSeq DEF Bus
<1>3. b \in S
  OBVIOUS
<1>4. ASSUME NEW X \in S, NEW op \in E PROVE Deliver(X, op) \in S
  <2>1. op[1] \in ObjId /\ X.bus \in Bus /\ X.seen \in SUBSET ObjId
    OBVIOUS
  <2>2. Readable(Event(op[1], id, about))
    BY <2>1, EventLearns DEF Suits, Readable
  <2>3. ubus_msg_send(X.bus, X.bus.objects[op[1]].client, Event(op[1], id, about)) \in Bus
    BY <2>1, <2>2, LiveIs, SendSent DEF Sent
  <2> HIDE DEF Passed
  <2> QED
    BY <2>1, <2>3
<1>5. f \in [S \X E -> S]
      /\ \A X \in S, op \in E : f[<<X, op>>] = Deliver(X, op)
  <2> HIDE DEF S, Deliver, E
  <2> QED
    BY <1>4
<1>6. \E h : h = [i \in 0..Len(s) |-> IF i = 0 THEN b ELSE Deliver(h[i - 1], s[i])]
  <2> HIDE DEF f, Deliver, s, S, b, E
  <2>1. PICK g : IsRun(g, f, b, s, S)
    <3>1. f \in [S \X E -> S] /\ b \in S /\ s \in Seq(E)
      BY <1>2, <1>3, <1>5
    <3> QED
      BY <3>1, Unroll
  <2>2. \A i \in 0..Len(s) : i # 0 => i \in 1..Len(s) /\ g[i - 1] \in S /\ s[i] \in E
    BY <1>2, <2>1 DEF IsRun
  <2>3. \A i \in 0..Len(s) : g[i] = IF i = 0 THEN b ELSE Deliver(g[i - 1], s[i])
    BY <1>5, <2>1, <2>2 DEF IsRun
  <2>4. g = [i \in 0..Len(s) |-> IF i = 0 THEN b ELSE Deliver(g[i - 1], s[i])]
    BY <2>1, <2>3 DEF IsRun
  <2> QED
    BY <2>4
<1>7. run = [i \in 0..Len(s) |-> IF i = 0 THEN b ELSE Deliver(run[i - 1], s[i])]
  <2> HIDE DEF Deliver, s, b
  <2> QED
    BY <1>6
<1> HIDE DEF run, f
<1>8. run[0] = b /\ \A i \in 1..Len(s) : run[i] = Deliver(run[i - 1], s[i])
  <2> HIDE DEF Deliver, s, b
  <2>1. 0 \in 0..Len(s) /\ \A i \in 1..Len(s) : i \in 0..Len(s) /\ i # 0
    BY <1>2
  <2> QED
    BY <1>7, <2>1
<1> DEFINE ToldOnce(X, i) == /\ \A j \in 1..i : <<id, s[j][2]>> \in Matches => s[j][1] \in X.seen
                             /\ \A l \in X.seen : B.objects[l].client \in Client /\ Gone(X.bus, l, about)
           Now(X, i) ==
             /\ X \in S /\ SameTables(B, X.bus)
             /\ \A e \in Client : Aware(B, e, D) => Aware(X.bus, e, D)
             /\ \A e \in Client : \A W : Tally(B, e, W) => Tally(X.bus, e, W)
             /\ id = ObjRemove => ToldOnce(X, i)
<1>9. Now(run[0], 0)
  <2>1. b.bus = B /\ b.seen = {} /\ SameTables(B, B)
    BY DEF SameTables
  <2> HIDE DEF b, S
  <2> QED
    BY <1>3, <1>8, <2>1
<1>10. ASSUME NEW i \in 1..Len(s), Now(run[i - 1], i - 1) PROVE Now(run[i], i)
  <2> DEFINE op == s[i]
             l == op[1]
             P == run[i - 1]
             Q == P.bus
             R == run[i]
  <2>0. /\ i \in Nat /\ op \in E /\ op \in ToSet(s) /\ l \in ObjId /\ op = <<l, op[2]>>
        /\ \A j \in 1..i : j = i \/ j \in 1..(i - 1)
    BY <1>2, SMTT(60) DEF ToSet
  <2>1. R = Deliver(P, op)
    BY <1>8
  <2>2. P \in S /\ Q \in Bus /\ P.seen \in SUBSET ObjId /\ SameTables(B, Q)
    BY <1>10
  <2>3. Q.objects = B.objects /\ Q.patterns = B.patterns /\ Q.path = B.path /\ Q.clients = B.clients
    BY <2>2 DEF SameTables
  <2>4. B.objects[l].client \in Client /\ B.objects[l].client \in B.clients
        /\ Q.objects[l].client # Null
    BY <2>0, <2>3, LiveIs DEF PatternsOK
  <2>5. Now(P, i - 1)
    BY <1>10, SMTT(30)
  <2>6. Deliver(P, op) \in S
    BY <1>4, <2>0, <2>2
  <2> HIDE DEF op, P, R, s, l, S
  <2>7. CASE Passed(P, op)
    <3>1. R = P
      BY <2>1, <2>7
    <3>2. ASSUME id = ObjRemove PROVE <<id, op[2]>> \in Matches => l \in P.seen
      <4>1. c = Null
        BY <3>2, EventAssumption DEF Suits, ObjAdd, ObjRemove
      <4> QED
        BY <2>4, <2>7, <4>1 DEF l
    <3>3. ASSUME id = ObjRemove PROVE ToldOnce(P, i)
      BY <2>0, <2>5, <3>2, <3>3 DEF op, l
    <3>4. Now(P, i)
      BY <2>5, <3>3
    <3> QED
      BY <3>1, <3>4 DEF R
  <2>8. CASE ~Passed(P, op)
    <3> DEFINE C == ubus_msg_send(Q, Q.objects[l].client, Event(l, id, about))
    <3>1. R = [seen |-> P.seen \cup {l}, bus |-> C]
      BY <2>1, <2>8 DEF l
    <3>2. <<id, op[2]>> \in Matches
      BY <2>8
    <3>3. Suits(Q, c, id, about)
      BY <2>3 DEF Suits
    <3>4. <<l, op[2]>> \in ToSet(Q.patterns) /\ l \notin D
      BY <2>0, <2>3 DEF s
    <3>5. Q.objects[l].client \in Client /\ Q.objects[l].client \in Q.clients
      BY <2>3, <2>4
    <3>6. /\ C \in Bus /\ SameTables(Q, C)
          /\ \A e \in Client : Aware(Q, e, D) => Aware(C, e, D)
          /\ \A e \in Client : \A W : Tally(Q, e, W) => Tally(C, e, W)
          /\ id = ObjRemove => /\ Gone(C, l, about)
                               /\ \A k \in ObjId : Q.objects[k].client \in Client /\ Gone(Q, k, about)
                                                   => Gone(C, k, about)
      BY <2>0, <2>2, <3>2, <3>3, <3>4, <3>5, DeliverIs
    <3> HIDE DEF C
    <3>7. R.seen = P.seen \cup {l} /\ R.bus = C /\ R \in S
      BY <2>1, <2>6, <3>1
    <3>8. SameTables(B, R.bus)
      BY <2>2, <3>6, <3>7 DEF SameTables
    <3>9. /\ \A e \in Client : Aware(B, e, D) => Aware(R.bus, e, D)
          /\ \A e \in Client : \A W : Tally(B, e, W) => Tally(R.bus, e, W)
      BY <2>5, <3>6, <3>7
    <3>10. ASSUME id = ObjRemove PROVE ToldOnce(R, i)
      <4>1. ToldOnce(P, i - 1)
        BY <2>5, <3>10
      <4>2. \A j \in 1..i : <<id, s[j][2]>> \in Matches => s[j][1] \in R.seen
        BY <2>0, <3>7, <4>1 DEF op, l
      <4>3. \A k \in R.seen : B.objects[k].client \in Client /\ Gone(R.bus, k, about)
        <5> TAKE k \in R.seen
        <5>1. CASE k = l
          BY <2>4, <3>6, <3>7, <3>10, <5>1
        <5>2. CASE k # l
          <6>1. k \in P.seen /\ k \in ObjId
            BY <2>2, <3>7, <5>2
          <6>2. B.objects[k].client \in Client /\ Gone(Q, k, about)
            BY <4>1, <6>1
          <6> QED
            BY <2>3, <3>6, <3>7, <3>10, <6>1, <6>2
        <5> QED
          BY <5>1, <5>2
      <4> QED
        BY <4>2, <4>3
    <3>11. Now(R, i)
      BY <3>7, <3>8, <3>9, <3>10
    <3> QED
      BY <3>11 DEF R
  <2> QED
    BY <2>7, <2>8
<1> DEFINE Good == {i \in 0..Len(s) : Now(run[i], i)}
<1>11. Len(s) \in Good
  <2> HIDE DEF Now, s
  <2>1. 0 \in Good /\ \A i \in 1..Len(s) : i - 1 \in Good => i \in Good
    BY <1>2, <1>9, <1>10
  <2> HIDE DEF Good
  <2>2. \A i \in 0..Len(s) : i \in Good
    BY <1>2, <2>1, Rounds
  <2> QED
    BY <1>2, <2>2
<1> DEFINE Z == run[Len(s)]
<1>12. Now(Z, Len(s))
  <2> HIDE DEF Now, s
  <2> QED
    BY <1>11
<1> HIDE DEF Z
<1>13. ASSUME id = ObjRemove, NEW l \in ObjId, Hears(B, l, ObjRemove) PROVE Gone(Z.bus, l, about)
  <2>1. PICK op \in ToSet(s) : op[1] = l /\ <<id, op[2]>> \in Matches
    BY <1>13 DEF Hears
  <2>2. PICK j \in 1..Len(s) : op = s[j]
    BY <1>2 DEF ToSet
  <2> QED
    BY <1>12, <1>13, <2>1, <2>2
<1>14. ubusd_send_event(B, c, id, about) = Z.bus
  BY <1>1 DEF Z
<1>15. Z.bus \in Bus
  BY <1>12
<1> QED
  BY <1>12, <1>13, <1>14, <1>15

----------------------------------------------------------------------------
(* ubusd_free_object: the event sources, the path, the id.                  *)

(* An element is added at the end of a list.                                *)
LEMMA AppendSet ==
  ASSUME NEW T, NEW s \in Seq(T), NEW x \in T
  PROVE  Append(s, x) \in Seq(T) /\ ToSet(Append(s, x)) = ToSet(s) \cup {x}
<1>1. /\ Len(s) \in Nat /\ DOMAIN s = 1..Len(s) /\ Append(s, x) \in Seq(T)
      /\ Len(Append(s, x)) = Len(s) + 1 /\ DOMAIN Append(s, x) = 1..(Len(s) + 1)
      /\ \A i \in 1..Len(s) : Append(s, x)[i] = s[i]
      /\ Append(s, x)[Len(s) + 1] = x
  BY LenProperties, AppendProperties
<1> DEFINE r == Append(s, x)
<1> HIDE DEF r
<1>2. \A i \in 1..(Len(s) + 1) : i = Len(s) + 1 \/ i \in 1..Len(s)
  BY <1>1
<1>3. \A i \in 1..Len(s) : i \in 1..(Len(s) + 1)
  BY <1>1
<1>4. Len(s) + 1 \in 1..(Len(s) + 1)
  BY <1>1
<1>5. ToSet(r) = ToSet(s) \cup {x}
  BY <1>1, <1>2, <1>3, <1>4 DEF ToSet, r
<1> QED
  BY <1>1, <1>5 DEF r

\* The event sources of a list but those of object o.
Others(s, o) == {op \in ToSet(s) : op[1] # o}

(* The list that ubusd_event_cleanup_object leaves.                         *)
LEMMA CleanupList ==
  ASSUME NEW B \in Bus, NEW o \in ObjId
  PROVE  \E r \in Seq(ObjId \X Pattern) :
           /\ ubusd_event_cleanup_object(B, o) = [B EXCEPT !.patterns = r]
           /\ ToSet(r) = Others(B.patterns, o)
<1> DEFINE s == B.patterns
           E == ObjId \X Pattern
           S == Seq(E)
           Keep(left, op) == IF op[1] = o THEN left ELSE Append(left, op)
           run == CHOOSE h : h = [i \in 0..Len(s) |-> IF i = 0 THEN <<>> ELSE Keep(h[i - 1], s[i])]
           f == [z \in S \X E |-> Keep(z[1], z[2])]
<1>1. ubusd_event_cleanup_object(B, o) = [B EXCEPT !.patterns = run[Len(s)]]
  BY DEF ubusd_event_cleanup_object, ForEach
<1>2. s \in Seq(E) /\ Len(s) \in Nat /\ DOMAIN s = 1..Len(s) /\ \A i \in 1..Len(s) : s[i] \in E
  BY LenProperties, ElementOfSeq DEF Bus
<1>3. <<>> \in S /\ ToSet(<<>>) = {}
  BY DEF ToSet
<1> HIDE DEF E
<1>4. ASSUME NEW X \in S, NEW op \in E PROVE Keep(X, op) \in S
  BY AppendSet
<1>5. f \in [S \X E -> S] /\ \A X \in S, op \in E : f[<<X, op>>] = Keep(X, op)
  <2> HIDE DEF S, Keep
  <2> QED
    BY <1>4
<1>6. \E h : h = [i \in 0..Len(s) |-> IF i = 0 THEN <<>> ELSE Keep(h[i - 1], s[i])]
  <2> HIDE DEF f, Keep, s, S
  <2>1. PICK g : IsRun(g, f, <<>>, s, S)
    <3>1. f \in [S \X E -> S] /\ <<>> \in S /\ s \in Seq(E)
      BY <1>2, <1>3, <1>5
    <3> QED
      BY <3>1, Unroll
  <2>2. \A i \in 0..Len(s) : i # 0 => i \in 1..Len(s) /\ g[i - 1] \in S /\ s[i] \in E
    BY <1>2, <2>1 DEF IsRun
  <2>3. \A i \in 0..Len(s) : g[i] = IF i = 0 THEN <<>> ELSE Keep(g[i - 1], s[i])
    BY <1>5, <2>1, <2>2 DEF IsRun
  <2>4. g = [i \in 0..Len(s) |-> IF i = 0 THEN <<>> ELSE Keep(g[i - 1], s[i])]
    BY <2>1, <2>3 DEF IsRun
  <2> QED
    BY <2>4
<1>7. run = [i \in 0..Len(s) |-> IF i = 0 THEN <<>> ELSE Keep(run[i - 1], s[i])]
  <2> HIDE DEF Keep, s
  <2> QED
    BY <1>6
<1> HIDE DEF run, f
<1>8. run[0] = <<>> /\ \A i \in 1..Len(s) : run[i] = Keep(run[i - 1], s[i])
  <2> HIDE DEF Keep, s
  <2>1. 0 \in 0..Len(s) /\ \A i \in 1..Len(s) : i \in 0..Len(s) /\ i # 0
    BY <1>2
  <2> QED
    BY <1>7, <2>1
<1> DEFINE Now(r, i) == r \in S /\ \A op : op \in ToSet(r) <=> op[1] # o /\ \E j \in 1..i : s[j] = op
<1>9. Now(run[0], 0)
  <2>1. 1..0 = {}
    OBVIOUS
  <2> HIDE DEF S
  <2> QED
    BY <1>3, <1>8, <2>1
<1>10. ASSUME NEW i \in 1..Len(s), Now(run[i - 1], i - 1) PROVE Now(run[i], i)
  <2> DEFINE P == run[i - 1]
             R == run[i]
  <2>0. s[i] \in E /\ R = Keep(P, s[i]) /\ \A j : j \in 1..i <=> j = i \/ j \in 1..(i - 1)
    BY <1>2, <1>8
  <2>1. P \in Seq(E) /\ \A op : op \in ToSet(P) <=> op[1] # o /\ \E j \in 1..(i - 1) : s[j] = op
    BY <1>10
  <2> HIDE DEF P, R, s
  <2>2. CASE s[i][1] = o
    <3>1. R = P
      BY <2>0, <2>2
    <3>2. Now(P, i)
      BY <2>0, <2>1, <2>2
    <3> QED
      BY <3>1, <3>2 DEF R
  <2>3. CASE s[i][1] # o
    <3>1. R = Append(P, s[i])
      BY <2>0, <2>3
    <3>2. R \in S /\ ToSet(R) = ToSet(P) \cup {s[i]}
      BY <2>0, <2>1, <3>1, AppendSet
    <3>3. Now(R, i)
      BY <2>0, <2>1, <2>3, <3>2
    <3> QED
      BY <3>3 DEF R
  <2> QED
    BY <2>2, <2>3
<1> DEFINE Good == {i \in 0..Len(s) : Now(run[i], i)}
<1>11. Len(s) \in Good
  <2> HIDE DEF Now, s
  <2>1. 0 \in Good /\ \A i \in 1..Len(s) : i - 1 \in Good => i \in Good
    BY <1>2, <1>9, <1>10
  <2> HIDE DEF Good
  <2>2. \A i \in 0..Len(s) : i \in Good
    BY <1>2, <2>1, Rounds
  <2> QED
    BY <1>2, <2>2
<1> DEFINE r == run[Len(s)]
<1>12. Now(r, Len(s))
  <2> HIDE DEF Now, s
  <2> QED
    BY <1>11
<1> HIDE DEF r
<1>13. ToSet(r) = Others(s, o)
  BY <1>2, <1>12 DEF ToSet, Others
<1> QED
  BY <1>1, <1>12, <1>13 DEF r, E

\* Only the event sources differ.
OtherThanPatterns(B, R) ==
    /\ R.clients = B.clients /\ R.objects = B.objects /\ R.path = B.path
    /\ R.obj_types = B.obj_types /\ R.subs = B.subs /\ R.owned = B.owned
    /\ R.tx = B.tx /\ R.view = B.view /\ R.lost = B.lost /\ R.stray = B.stray /\ R.taken = B.taken

(* The event sources of an object that goes away.                           *)
LEMMA CleanupIs ==
  ASSUME NEW B \in Bus, NEW o \in ObjId, TablesOK(B)
  PROVE  LET R == ubusd_event_cleanup_object(B, o)
         IN  /\ R \in Bus /\ TablesOK(R) /\ OtherThanPatterns(B, R)
             /\ ToSet(R.patterns) = Others(B.patterns, o)
             /\ \A e \in Client : OK(B, e, Dying(o)) => OK(R, e, Dying(o))
<1> DEFINE R == ubusd_event_cleanup_object(B, o)
<1>1. PICK r \in Seq(ObjId \X Pattern) : R = [B EXCEPT !.patterns = r] /\ ToSet(r) = Others(B.patterns, o)
  BY CleanupList
<1> HIDE DEF R
<1>2. R \in Bus /\ OtherThanPatterns(B, R) /\ R.patterns = r
  BY <1>1 DEF Bus, OtherThanPatterns
<1>3. /\ R.clients = B.clients /\ R.objects = B.objects /\ R.path = B.path
      /\ R.obj_types = B.obj_types /\ R.subs = B.subs /\ R.owned = B.owned
      /\ R.tx = B.tx /\ R.view = B.view /\ R.lost = B.lost /\ R.stray = B.stray /\ R.taken = B.taken
  BY <1>2 DEF OtherThanPatterns
<1>4. TablesOK(R)
  BY <1>1, <1>2, <1>3 DEF TablesOK, ObjectsOK, PathOK, TypesOK, UsersOf, SubsOK, PatternsOK, OwnedOK, Others
<1>5. ASSUME NEW e \in Client, OK(B, e, Dying(o)) PROVE OK(R, e, Dying(o))
  <2>1. Own(R, e) = Own(B, e) /\ \A t : Watched(R, t) <=> Watched(B, t)
    BY <1>3 DEF Own, Watched
  <2>2. \A v : RightTypes(B, v, e, Dying(o)) => RightTypes(R, v, e, Dying(o))
    BY <1>3 DEF RightTypes, Sole
  <2>3. \A l : l # o => (Hears(R, l, ObjAdd) <=> Hears(B, l, ObjAdd)) /\ (Tracks(R, l) <=> Tracks(B, l))
    BY <1>1, <1>2 DEF Hears, Tracks, Others
  <2>4. \A v : RightSeen(B, v, e, Dying(o)) => RightSeen(R, v, e, Dying(o))
    BY <1>3, <2>1, <2>3 DEF RightSeen, Dying
  <2>5. \A v : Right(B, v, e, Dying(o)) => Right(R, v, e, Dying(o))
    BY <2>1, <2>2, <2>4 DEF Right
  <2>6. Watches(R, e, Dying(o)) = Watches(B, e, Dying(o))
    BY <1>3, <2>1 DEF Watches
  <2> QED
    BY <1>3, <1>5, <2>5, <2>6 DEF OK, Aware, Sound, Queued, Tally
<1> QED
  BY <1>1, <1>2, <1>4, <1>5 DEF R

\* Only the path differs: o is no longer found under one.
Withdrawn(B, R, o) ==
    /\ (Null \in R.stray <=> Null \in B.stray) /\ (Null \in R.lost <=> Null \in B.lost)
    /\ R.clients = B.clients /\ R.objects = B.objects /\ R.obj_types = B.obj_types
    /\ R.subs = B.subs /\ R.patterns = B.patterns /\ R.owned = B.owned
    /\ R.path = [p \in Path |-> IF B.path[p] = o THEN Null ELSE B.path[p]]

SetPath(B, p) == [B EXCEPT !.path = p]

(* The fields after a change of the path tree.                              *)
LEMMA SetPathIs ==
  ASSUME NEW B \in Bus, NEW p \in [Path -> ObjId \cup {Null}]
  PROVE  LET R == SetPath(B, p)
         IN  /\ R \in Bus /\ R.path = p
             /\ R.clients = B.clients /\ R.objects = B.objects /\ R.obj_types = B.obj_types
             /\ R.subs = B.subs /\ R.patterns = B.patterns /\ R.owned = B.owned
             /\ R.tx = B.tx /\ R.view = B.view /\ R.lost = B.lost /\ R.stray = B.stray /\ R.taken = B.taken
BY DEF SetPath, Bus

(* WithdrawPath, once the object's event sources are gone: whoever saw it   *)
(* appear sees it go.                                                       *)
LEMMA WithdrawIs ==
  ASSUME NEW B \in Bus, NEW o \in ObjId, TablesOK(B),
         \A op \in ToSet(B.patterns) : op[1] # o
  PROVE  LET R == WithdrawPath(B, o)
         IN  /\ R \in Bus /\ Withdrawn(B, R, o)
             /\ \A e \in Client : OK(B, e, Dying(o)) => OK(R, e, Dying(o))
<1> DEFINE p == B.objects[o].path
           about == <<p, o>>
           C == ubusd_send_event(B, Null, ObjRemove, about)
           q == [C.path EXCEPT ![p] = Null]
           R == WithdrawPath(B, o)
<1>0. B.path \in [Path -> ObjId \cup {Null}] /\ o # Null
  BY IdsAssumption DEF Bus
<1>1. CASE p = Null
  <2>1. R = B
    BY <1>1 DEF WithdrawPath
  <2>2. \A x \in Path : B.path[x] # o
    BY <1>1, IdsAssumption DEF TablesOK, PathOK
  <2>3. B.path = [x \in Path |-> IF B.path[x] = o THEN Null ELSE B.path[x]]
    BY <1>0, <2>2
  <2> QED
    BY <2>1, <2>3 DEF Withdrawn
<1>2. CASE p # Null
  <2>1. p \in Path /\ B.path[p] = o
    BY <1>2, LiveIs DEF TablesOK, PathOK
  <2>2. \A x \in Path : B.path[x] = o <=> x = p
    BY <2>1 DEF TablesOK, PathOK
  <2>3. R = SetPath(C, q)
    BY <1>2 DEF WithdrawPath, ubusd_send_obj_event, SetPath
  <2>4. Suits(B, Null, ObjRemove, about)
    BY <2>1 DEF Suits
  <2>5. \A op \in ToSet(B.patterns) : op[1] \notin Dying(o)
    BY DEF Dying
  <2>6. ObjectsOK(B) /\ PatternsOK(B)
    BY DEF TablesOK
  <2>7. /\ C \in Bus /\ SameTables(B, C)
        /\ \A e \in Client : Aware(B, e, Dying(o)) => Aware(C, e, Dying(o))
        /\ \A e \in Client : \A W : Tally(B, e, W) => Tally(C, e, W)
        /\ \A l \in ObjId : Hears(B, l, ObjRemove) => Gone(C, l, about)
    <3> HIDE DEF p, about
    <3> QED
      BY <2>4, <2>5, <2>6, SendEventIs DEF C
  <2> HIDE DEF C, R
  <2>8. C.path = B.path /\ C.objects = B.objects /\ C.patterns = B.patterns /\ C.subs = B.subs
    BY <2>7 DEF SameTables
  <2>9. /\ q \in [Path -> ObjId \cup {Null}] /\ q[p] = Null
        /\ \A x \in Path : x # p => q[x] = B.path[x]
    BY <1>0, <2>1, <2>8
  <2>10. q = [x \in Path |-> IF B.path[x] = o THEN Null ELSE B.path[x]]
    BY <2>2, <2>9
  <2> HIDE DEF q
  <2>11. /\ R \in Bus /\ R.path = q
         /\ R.clients = C.clients /\ R.objects = C.objects /\ R.obj_types = C.obj_types
         /\ R.subs = C.subs /\ R.patterns = C.patterns /\ R.owned = C.owned
         /\ R.tx = C.tx /\ R.view = C.view /\ R.lost = C.lost /\ R.stray = C.stray /\ R.taken = C.taken
    BY <2>3, <2>7, <2>9, SetPathIs
  <2>12. Withdrawn(B, R, o)
    BY <2>7, <2>10, <2>11 DEF SameTables, Withdrawn
  <2>13. ASSUME NEW e \in Client, OK(B, e, Dying(o)) PROVE OK(R, e, Dying(o))
    <3>1. Aware(C, e, Dying(o)) /\ Tally(C, e, Watches(B, e, Dying(o)))
      BY <2>7, <2>13 DEF OK
    <3>2. Own(R, e) = Own(C, e) /\ \A t : Watched(R, t) <=> Watched(C, t)
      BY <2>11 DEF Own, Watched
    <3>3. \A l : (Hears(R, l, ObjAdd) <=> Hears(C, l, ObjAdd)) /\ (Tracks(R, l) <=> Tracks(C, l))
      BY <2>11 DEF Hears, Tracks
    <3>4. ASSUME e \notin C.lost PROVE Right(R, C.view[e], e, Dying(o))
      <4> DEFINE v == C.view[e]
      <4>1. Right(C, v, e, Dying(o)) /\ v \in View
        BY <2>7, <3>1, <3>4 DEF Aware, Bus
      <4> HIDE DEF v
      <4>2. RightTypes(R, v, e, Dying(o))
        BY <2>11, <4>1 DEF Right, RightTypes, Sole
      <4>3. RightSeen(R, v, e, Dying(o))
        <5> SUFFICES ASSUME NEW x \in v.seen
                     PROVE  /\ x[1] \in Own(R, e) \ Dying(o) /\ Hears(R, x[1], ObjAdd)
                            /\ Tracks(R, x[1]) => R.path[x[2][1]] = x[2][2]
          BY DEF RightSeen
        <5>1. /\ x[1] \in Own(C, e) \ Dying(o) /\ Hears(C, x[1], ObjAdd)
              /\ Tracks(C, x[1]) => C.path[x[2][1]] = x[2][2]
          BY <4>1 DEF Right, RightSeen
        <5>2. x = <<x[1], <<x[2][1], x[2][2]>>>> /\ x[1] \in ObjId /\ x[2][1] \in Path /\ x[2][2] \in ObjId
          BY <4>1 DEF View
        <5>3. ASSUME Tracks(R, x[1]) PROVE R.path[x[2][1]] = x[2][2]
          <6>1. Tracks(C, x[1]) /\ Hears(C, x[1], ObjRemove)
            BY <3>3, <5>1, <5>3 DEF Hears, Tracks
          <6>2. Gone(C, x[1], about)
            BY <2>7, <2>8, <5>2, <6>1 DEF Hears
          <6>3. C.objects[x[1]].client = e
            BY <5>1 DEF Own
          <6>4. <<x[1], about>> # x
            BY <3>4, <6>2, <6>3 DEF Gone, v
          <6>5. C.path[x[2][1]] = x[2][2]
            BY <5>1, <6>1
          <6>6. x[2][1] # p
            <7>1. SUFFICES ASSUME x[2][1] = p PROVE FALSE
              OBVIOUS
            <7>2. x[2][2] = o
              BY <2>1, <2>8, <6>5, <7>1
            <7> QED
              BY <5>2, <6>4, <7>1, <7>2
          <6> QED
            BY <2>8, <2>9, <2>11, <5>2, <6>5, <6>6
        <5> QED
          BY <3>2, <3>3, <5>1, <5>3
      <4>4. Right(R, v, e, Dying(o))
        BY <3>2, <4>1, <4>2, <4>3 DEF Right
      <4> QED
        BY <4>4 DEF v
    <3>5. Aware(R, e, Dying(o))
      BY <2>11, <3>1, <3>4 DEF Aware, Sound, Queued
    <3>6. Watches(R, e, Dying(o)) = Watches(B, e, Dying(o))
      BY <2>8, <2>11 DEF Watches, Own
    <3> QED
      BY <2>11, <3>1, <3>5, <3>6 DEF OK, Tally
  <2> QED
    BY <2>11, <2>12, <2>13 DEF R
<1> QED
  BY <1>1, <1>2

Entered(B, owned, objects, types) ==
    [B EXCEPT !.owned = owned, !.objects = objects, !.obj_types = types]

Lists == [Client -> Seq(ObjId)]
Objects == [ObjId -> Registry!Object]
Counts == [TypeId -> Int]

(* The fields after a change of the object tables.                          *)
LEMMA EnteredIs ==
  ASSUME NEW B \in Bus, NEW owned \in Lists, NEW objects \in Objects, NEW types \in Counts
  PROVE  LET R == Entered(B, owned, objects, types)
         IN  /\ R \in Bus /\ R.owned = owned /\ R.objects = objects /\ R.obj_types = types
             /\ R.clients = B.clients /\ R.path = B.path /\ R.subs = B.subs /\ R.patterns = B.patterns
             /\ R.tx = B.tx /\ R.view = B.view /\ R.lost = B.lost /\ R.stray = B.stray /\ R.taken = B.taken
BY DEF Entered, Bus, Lists, Objects, Counts

(* A free id.                                                               *)
LEMMA NoObjectIs ==
  /\ Registry!NoObject \in Registry!Object /\ Registry!NoObject.client = Null
  /\ Registry!NoObject.path = Null /\ Registry!NoObject.type = Null
BY DEF Registry!NoObject, Registry!Object

(* The users of a type are counted.                                         *)
LEMMA UsersFinite ==
  ASSUME NEW B, NEW t
  PROVE  IsFiniteSet(UsersOf(B, t)) /\ Cardinality(UsersOf(B, t)) \in Nat
<1>1. UsersOf(B, t) \subseteq ObjId
  BY DEF UsersOf
<1> QED
  BY <1>1, IdsAssumption, FS_Subset, FS_CardinalityType

\* Nothing but its id, its type and the list of its client is left of o.
Bare(B, o) ==
    /\ \A p \in Path, x \in ObjId : B.path[p] = x <=> x # o /\ B.objects[x].path = p
    /\ \A x \in Pairs : x[1] = o \/ x[2] = o => Count(B.subs, x) = 0
    /\ \A op \in ToSet(B.patterns) : op[1] # o

\* The tables of R are those of B without the id of o.
WithoutId(B, R, o) ==
    /\ (Null \in R.stray <=> Null \in B.stray) /\ (Null \in R.lost <=> Null \in B.lost)
    /\ R.clients = B.clients /\ R.path = B.path /\ R.subs = B.subs /\ R.patterns = B.patterns
    /\ R.objects = [x \in ObjId |-> IF x = o THEN Registry!NoObject ELSE B.objects[x]]

(* The end of ubusd_free_object: what was right but for o is right.         *)
LEMMA FreeIdIs ==
  ASSUME NEW B \in Bus, NEW o \in ObjId, B.objects[o].client # Null, Bare(B, o),
         ObjectsOK(B), TypesOK(B), SubsOK(B), PatternsOK(B), OwnedOK(B)
  PROVE  LET R == FreeId(B, o)
         IN  /\ R \in Bus /\ TablesOK(R) /\ WithoutId(B, R, o)
             /\ \A e \in Client : OK(B, e, Dying(o)) => OK(R, e, {})
<1> DEFINE c == B.objects[o].client
           ty == B.objects[o].type
           owned == [B.owned EXCEPT ![c] = RemoveFirst(@, o)]
           objects == [B.objects EXCEPT ![o] = Registry!NoObject]
           types == Unref(B.obj_types, ty)
           R == FreeId(B, o)
<1>0. /\ B.owned \in [Client -> Seq(ObjId)] /\ B.objects \in [ObjId -> Registry!Object]
      /\ B.obj_types \in [TypeId -> Int] /\ c \in Client /\ ty \in TypeId \cup {Null}
  BY LiveIs DEF Bus
<1>n. Null \notin Client /\ Null \notin ObjId /\ Null \notin Path /\ Null \notin TypeId
  BY IdsAssumption
<1>1. R = Entered(B, owned, objects, types)
  BY DEF FreeId, Entered
<1>2. /\ RemoveFirst(B.owned[c], o) \in Seq(ObjId)
      /\ \A e : Count(RemoveFirst(B.owned[c], o), e) = Count(B.owned[c], e) - IF o = e THEN 1 ELSE 0
  <2>1. Count(B.owned[c], o) = 1 /\ B.owned[c] \in Seq(ObjId)
    BY <1>0 DEF OwnedOK
  <2> QED
    BY <2>1, CountRemove
<1>3. /\ owned \in [Client -> Seq(ObjId)] /\ owned[c] = RemoveFirst(B.owned[c], o)
      /\ \A e \in Client : e # c => owned[e] = B.owned[e]
  BY <1>0, <1>2
<1>4. /\ objects \in [ObjId -> Registry!Object]
      /\ objects = [x \in ObjId |-> IF x = o THEN Registry!NoObject ELSE B.objects[x]]
  BY <1>0, NoObjectIs
<1>5. /\ types \in [TypeId -> Int]
      /\ \A t \in TypeId : types[t] = IF t = ty THEN B.obj_types[t] - 1 ELSE B.obj_types[t]
  BY <1>0, <1>n DEF Unref, Registry!ubus_unref_object_type
<1> HIDE DEF owned, objects, types, R
<1>6. /\ R \in Bus /\ R.owned = owned /\ R.objects = objects /\ R.obj_types = types
      /\ R.clients = B.clients /\ R.path = B.path /\ R.subs = B.subs /\ R.patterns = B.patterns
      /\ R.tx = B.tx /\ R.view = B.view /\ R.lost = B.lost /\ R.stray = B.stray /\ R.taken = B.taken
  <2>1. owned \in Lists /\ objects \in Objects /\ types \in Counts
    BY <1>3, <1>4, <1>5 DEF Lists, Objects, Counts
  <2> HIDE DEF c, ty
  <2> DEFINE T == Entered(B, owned, objects, types)
  <2>2. /\ T \in Bus /\ T.owned = owned /\ T.objects = objects /\ T.obj_types = types
        /\ T.clients = B.clients /\ T.path = B.path /\ T.subs = B.subs /\ T.patterns = B.patterns
        /\ T.tx = B.tx /\ T.view = B.view /\ T.lost = B.lost /\ T.stray = B.stray /\ T.taken = B.taken
    BY <2>1, EnteredIs
  <2> QED
    BY <1>1, <2>2
<1>7. WithoutId(B, R, o)
  BY <1>4, <1>6 DEF WithoutId
<1>8. /\ \A x \in ObjId : x # o => R.objects[x] = B.objects[x]
      /\ R.objects[o] = Registry!NoObject /\ R.objects[o].client = Null
      /\ R.objects[o].path = Null /\ R.objects[o].type = Null
  BY <1>4, <1>6, NoObjectIs
<1>9. TablesOK(R)
  <2>1. ObjectsOK(R)
    BY <1>6, <1>8 DEF ObjectsOK
  <2>2. PathOK(R)
    BY <1>6, <1>8, <1>n DEF PathOK, Bare
  <2>3. SubsOK(R)
    <3> SUFFICES ASSUME NEW st \in Pairs, Count(R.subs, st) > 0
                 PROVE  /\ R.objects[st[1]].client # Null /\ R.objects[st[2]].client # Null
                        /\ R.objects[st[1]].client # R.objects[st[2]].client
      BY DEF SubsOK
    <3>1. st[1] \in ObjId /\ st[2] \in ObjId /\ st[1] # o /\ st[2] # o
      BY <1>6 DEF Bare, Pairs
    <3> QED
      BY <1>6, <1>8, <3>1 DEF SubsOK
  <2>4. PatternsOK(R)
    <3>1. \A op \in ToSet(B.patterns) : op[1] \in ObjId
      <4>1. B.patterns \in Seq(ObjId \X Pattern)
        BY DEF Bus
      <4> QED
        BY <4>1, ElementOfSeq, LenProperties DEF ToSet
    <3> QED
      BY <1>6, <1>8, <3>1 DEF PatternsOK, Bare
  <2>5. OwnedOK(R)
    <3> SUFFICES ASSUME NEW e \in Client, NEW x \in ObjId
                 PROVE  Count(R.owned[e], x) = IF R.objects[x].client = e THEN 1 ELSE 0
      BY DEF OwnedOK
    <3>1. Count(B.owned[e], x) = IF B.objects[x].client = e THEN 1 ELSE 0
      BY DEF OwnedOK
    <3>2. CASE e = c /\ x = o
      <4>1. Count(R.owned[e], x) = 1 - 1
        BY <1>2, <1>3, <1>6, <3>1, <3>2
      <4> QED
        BY <1>8, <1>n, <3>2, <4>1
    <3>3. CASE e = c /\ x # o
      <4>1. Count(R.owned[e], x) = Count(B.owned[e], x) - 0
        BY <1>2, <1>3, <1>6, <3>3
      <4>2. Count(B.owned[e], x) \in {0, 1}
        BY <3>1
      <4> QED
        BY <1>8, <3>1, <3>3, <4>1, <4>2
    <3>4. CASE e # c
      <4>1. Count(R.owned[e], x) = Count(B.owned[e], x)
        BY <1>3, <1>6, <3>4
      <4> QED
        BY <1>8, <1>n, <3>1, <3>4, <4>1
    <3> QED
      BY <3>2, <3>3, <3>4
  <2>6. TypesOK(R)
    <3> SUFFICES ASSUME NEW t \in TypeId PROVE R.obj_types[t] = Cardinality(UsersOf(R, t))
      BY DEF TypesOK
    <3>1. B.obj_types[t] = Cardinality(UsersOf(B, t))
      BY DEF TypesOK
    <3>2. CASE t = ty
      <4>1. UsersOf(R, t) = UsersOf(B, t) \ {o} /\ o \in UsersOf(B, t)
        BY <1>8, <1>n, <3>2 DEF UsersOf
      <4>2. IsFiniteSet(UsersOf(B, t))
        BY UsersFinite
      <4>3. Cardinality(UsersOf(B, t) \ {o}) = Cardinality(UsersOf(B, t)) - 1
        BY <4>1, <4>2, FS_RemoveElement
      <4>4. R.obj_types[t] = B.obj_types[t] - 1
        BY <1>5, <1>6, <3>2
      <4> QED
        BY <3>1, <4>1, <4>3, <4>4
    <3>3. CASE t # ty
      <4>1. UsersOf(R, t) = UsersOf(B, t)
        BY <1>8, <1>n, <3>3 DEF UsersOf
      <4> QED
        BY <1>5, <1>6, <3>1, <3>3, <4>1
    <3> QED
      BY <3>2, <3>3
  <2> QED
    BY <2>1, <2>2, <2>3, <2>4, <2>5, <2>6 DEF TablesOK
<1>10. ASSUME NEW e \in Client, OK(B, e, Dying(o)) PROVE OK(R, e, {})
  <2>1. Own(R, e) \ {} = Own(B, e) \ Dying(o) /\ \A t : Watched(R, t) <=> Watched(B, t)
    BY <1>6, <1>8, <1>n DEF Own, Watched, Dying
  <2>2. \A v \in View : RightTypes(B, v, e, Dying(o)) => RightTypes(R, v, e, {})
    <3> SUFFICES ASSUME NEW v \in View, RightTypes(B, v, e, Dying(o)), NEW t \in Sole(R, v, e)
                 PROVE  /\ \E u \in ObjId \ {} : R.objects[u].type = t
                        /\ \A u \in ObjId : R.objects[u].type = t => R.objects[u].client = e
      BY DEF RightTypes, Sole
    <3>1. t \in TypeId /\ t \in Sole(B, v, e)
      BY <1>6 DEF View, Sole
    <3>2. PICK u \in ObjId \ Dying(o) : B.objects[u].type = t
      BY <3>1 DEF RightTypes
    <3>3. \A x \in ObjId : B.objects[x].type = t => B.objects[x].client = e
      BY <3>1 DEF RightTypes
    <3>4. R.objects[u].type = t /\ u \in ObjId
      BY <1>8, <3>2 DEF Dying
    <3>5. ASSUME NEW x \in ObjId, R.objects[x].type = t PROVE R.objects[x].client = e
      <4>1. x # o
        BY <1>8, <1>n, <3>1, <3>5
      <4> QED
        BY <1>8, <3>3, <3>5, <4>1
    <3> QED
      BY <3>4, <3>5
  <2>3. \A v : RightSeen(B, v, e, Dying(o)) => RightSeen(R, v, e, {})
    BY <1>6, <2>1 DEF RightSeen, Hears, Tracks
  <2>4. \A v \in View : Right(B, v, e, Dying(o)) => Right(R, v, e, {})
    BY <2>1, <2>2, <2>3 DEF Right
  <2>5. Watches(R, e, {}) = Watches(B, e, Dying(o))
    BY <1>6, <2>1 DEF Watches
  <2>6. B.view[e] \in View
    BY DEF Bus
  <2> QED
    BY <1>6, <1>10, <2>4, <2>5, <2>6 DEF OK, Aware, Sound, Queued, Tally
<1> QED
  BY <1>6, <1>7, <1>9, <1>10 DEF R

\* The tables of R are those of B without o.
Freed(B, R, o) ==
    /\ (Null \in R.stray <=> Null \in B.stray) /\ (Null \in R.lost <=> Null \in B.lost)
    /\ R.clients = B.clients
    /\ R.objects = [x \in ObjId |-> IF x = o THEN Registry!NoObject ELSE B.objects[x]]
    /\ R.path = [p \in Path |-> IF B.path[p] = o THEN Null ELSE B.path[p]]
    /\ \A x \in Pairs : Count(R.subs, x) = IF x[1] = o \/ x[2] = o THEN 0 ELSE Count(B.subs, x)
    /\ ToSet(R.patterns) = Others(B.patterns, o)

(* ubusd_free_object, whose owner has been told.                            *)
LEMMA FreeIs ==
  ASSUME NEW B \in Bus, NEW o \in ObjId, B.objects[o].client # Null, TablesOK(B)
  PROVE  LET R == ubusd_free_object(B, o)
         IN  /\ R \in Bus /\ TablesOK(R) /\ Freed(B, R, o)
             /\ \A e \in Client : OK(B, e, Dying(o)) => OK(R, e, {})
<1> DEFINE L == LeaveTargets(B, o)
           D == DropSubscribers(L, o)
           C == ubusd_event_cleanup_object(D, o)
           W == WithdrawPath(C, o)
           R == FreeId(W, o)
<1>1. ubusd_free_object(B, o) = R
  BY DEF ubusd_free_object
<1>2. Unsubscribed(B, L, From(o), Dying(o))
  BY LeaveTargetsIs
<1> HIDE DEF L
<1>3. L \in Bus /\ TablesOK(L)
  BY <1>2 DEF Unsubscribed
<1>4. Unsubscribed(L, D, To(o), Dying(o))
  BY <1>3, DropSubscribersIs
<1> HIDE DEF D
<1>5. D \in Bus /\ TablesOK(D)
  BY <1>4 DEF Unsubscribed
<1>6. /\ C \in Bus /\ TablesOK(C) /\ OtherThanPatterns(D, C)
      /\ ToSet(C.patterns) = Others(D.patterns, o)
      /\ \A e \in Client : OK(D, e, Dying(o)) => OK(C, e, Dying(o))
  BY <1>5, CleanupIs
<1> HIDE DEF C
<1>7. \A op \in ToSet(C.patterns) : op[1] # o
  BY <1>6 DEF Others
<1>8. /\ W \in Bus /\ Withdrawn(C, W, o)
      /\ \A e \in Client : OK(C, e, Dying(o)) => OK(W, e, Dying(o))
  BY <1>6, <1>7, WithdrawIs
<1> HIDE DEF W
<1>9. /\ W.clients = C.clients /\ W.objects = C.objects /\ W.obj_types = C.obj_types
      /\ W.subs = C.subs /\ W.patterns = C.patterns /\ W.owned = C.owned
      /\ W.path = [p \in Path |-> IF C.path[p] = o THEN Null ELSE C.path[p]]
  BY <1>8 DEF Withdrawn
<1>10. /\ C.clients = B.clients /\ C.objects = B.objects /\ C.path = B.path
       /\ C.obj_types = B.obj_types /\ C.subs = D.subs /\ D.patterns = B.patterns
  BY <1>2, <1>4, <1>6 DEF Unsubscribed, OtherTables, OtherThanPatterns
<1>11. ObjectsOK(W) /\ TypesOK(W) /\ SubsOK(W) /\ PatternsOK(W) /\ OwnedOK(W)
  BY <1>6, <1>9 DEF TablesOK, ObjectsOK, TypesOK, UsersOf, SubsOK, PatternsOK, OwnedOK
<1>12. \A x \in Pairs : Count(W.subs, x) = IF x[1] = o \/ x[2] = o THEN 0 ELSE Count(B.subs, x)
  <2> TAKE x \in Pairs
  <2>1. /\ Count(D.subs, x) = IF x \in To(o) THEN 0 ELSE Count(L.subs, x)
        /\ Count(L.subs, x) = IF x \in From(o) THEN 0 ELSE Count(B.subs, x)
    BY <1>2, <1>4 DEF Unsubscribed
  <2>2. (x \in To(o) <=> x[2] = o) /\ (x \in From(o) <=> x[1] = o)
    BY DEF To, From, Pairs
  <2> QED
    BY <1>9, <1>10, <2>1, <2>2
<1>n. o # Null
  BY IdsAssumption
<1>13. Bare(W, o)
  <2>1. ASSUME NEW p \in Path, NEW x \in ObjId
        PROVE  W.path[p] = x <=> x # o /\ W.objects[x].path = p
    <3>1. C.path[p] = x <=> C.objects[x].path = p
      BY <1>6 DEF TablesOK, PathOK
    <3>2. x # Null
      BY IdsAssumption
    <3> QED
      BY <1>9, <3>1, <3>2
  <2>2. \A x \in Pairs : x[1] = o \/ x[2] = o => Count(W.subs, x) = 0
    BY <1>12
  <2>3. \A op \in ToSet(W.patterns) : op[1] # o
    BY <1>7, <1>9
  <2> QED
    BY <2>1, <2>2, <2>3 DEF Bare
<1>14. W.objects[o].client # Null
  BY <1>9, <1>10
<1>15. /\ R \in Bus /\ TablesOK(R) /\ WithoutId(W, R, o)
       /\ \A e \in Client : OK(W, e, Dying(o)) => OK(R, e, {})
  BY <1>8, <1>11, <1>13, <1>14, FreeIdIs
<1> HIDE DEF R
<1>s. (Null \in R.stray <=> Null \in B.stray) /\ (Null \in R.lost <=> Null \in B.lost)
  BY <1>2, <1>4, <1>6, <1>8, <1>15
     DEF Unsubscribed, OtherTables, OtherThanPatterns, Withdrawn, WithoutId
<1>16. Freed(B, R, o)
  BY <1>6, <1>9, <1>10, <1>12, <1>15, <1>s DEF WithoutId, Freed
<1>17. \A e \in Client : OK(B, e, Dying(o)) => OK(R, e, {})
  BY <1>2, <1>4, <1>6, <1>8, <1>15 DEF Unsubscribed
<1> QED
  BY <1>1, <1>15, <1>16, <1>17

(* For anyone but its owner an object is there until it is freed.           *)
LEMMA StrangerOK ==
  ASSUME NEW B \in Bus, NEW o \in ObjId, NEW e \in Client, B.objects[o].client # e
  PROVE  OK(B, e, {}) <=> OK(B, e, Dying(o))
<1>1. o \notin Own(B, e)
  BY DEF Own
<1>2. Own(B, e) \ {} = Own(B, e) \ Dying(o)
  BY <1>1 DEF Dying
<1>3. \A v : RightTypes(B, v, e, {}) <=> RightTypes(B, v, e, Dying(o))
  BY DEF RightTypes, Sole, Dying
<1>4. \A v : RightSeen(B, v, e, {}) <=> RightSeen(B, v, e, Dying(o))
  BY <1>2 DEF RightSeen
<1>5. \A v : Right(B, v, e, {}) <=> Right(B, v, e, Dying(o))
  BY <1>2, <1>3, <1>4 DEF Right
<1>6. Watches(B, e, {}) = Watches(B, e, Dying(o))
  BY <1>2 DEF Watches
<1> QED
  BY <1>5, <1>6 DEF OK, Aware

----------------------------------------------------------------------------
(* Removing an object.                                                      *)

\* R is a sound successor of B.
Keeps(B, R) ==
    /\ R \in Bus /\ TablesOK(R)
    /\ (Null \in R.stray <=> Null \in B.stray) /\ (Null \in R.lost <=> Null \in B.lost)
    /\ \A e \in Client : OK(B, e, {}) => OK(R, e, {})

\* R differs from B in messages only.
Quiet(B, R) == SameTables(B, R) /\ Keeps(B, R)

(* Steps in sequence.                                                       *)
LEMMA KeepsTrans ==
  ASSUME NEW B, NEW C, NEW R, Keeps(B, C), Keeps(C, R)
  PROVE  Keeps(B, R)
BY DEF Keeps

(* A neutral message.                                                       *)
LEMMA QuietSend ==
  ASSUME NEW B \in Bus, TablesOK(B), NEW c \in Client, c \in B.clients, NEW m, Neutral(m)
  PROVE  Quiet(B, ubus_msg_send(B, c, m))
<1> DEFINE R == ubus_msg_send(B, c, m)
<1>1. /\ R \in Bus /\ SameTables(B, R)
      /\ \A e \in Client : \A X : OK(B, e, X) => OK(R, e, X)
  BY SendNeutral
<1> HIDE DEF R
<1>2. TablesOK(R)
  BY <1>1, TablesDecide
<1>3. Quiet(B, R)
  BY <1>1, <1>2 DEF Quiet, Keeps, SameTables
<1> QED
  BY <1>3 DEF R

(* The status at the end of a request.                                      *)
LEMMA QuietReturn ==
  ASSUME NEW B \in Bus, TablesOK(B), NEW c \in Client, c \in B.clients, NEW req, NEW ret,
         ret # "OK" \/ req[1] \notin {"SUBSCRIBE", "UNSUBSCRIBE"}
  PROVE  Quiet(B, Return(B, c, req, ret))
<1>1. Neutral(Status(req, ret))
  BY StatusNeutral
<1> QED
  BY <1>1, QuietSend DEF Return

(* A type with more than one user has a user other than o.                  *)
LEMMA AnotherUser ==
  ASSUME NEW S, IsFiniteSet(S), NEW o \in S, Cardinality(S) # 1
  PROVE  \E u \in S : u # o
<1> SUFFICES ASSUME \A u \in S : u = o PROVE FALSE
  OBVIOUS
<1>1. S = {o}
  OBVIOUS
<1> QED
  BY <1>1, FS_Singleton

\* The type that the answer to the removal of o names.
GoneType(B, o) ==
    IF B.objects[o].type # Null /\ B.obj_types[B.objects[o].type] = 1 THEN B.objects[o].type ELSE Null

(* The answer to a removal comes before the object goes.                    *)
LEMMA RemovalTold ==
  ASSUME NEW B \in Bus, TablesOK(B), NEW o \in ObjId, NEW c \in Client, B.objects[o].client = c
  PROVE  LET R == ubus_msg_send(B, c, Data(<<"REMOVE_OBJECT">>, o, GoneType(B, o)))
         IN  /\ R \in Bus /\ SameTables(B, R)
             /\ \A e \in Client : OK(B, e, {}) => OK(R, e, Dying(o))
<1> DEFINE t == GoneType(B, o)
           m == Data(<<"REMOVE_OBJECT">>, o, t)
           R == ubus_msg_send(B, c, m)
<1>0. t \in TypeId \cup {Null} /\ c \in B.clients
  BY LiveIs, IdsAssumption DEF GoneType, TablesOK
<1>1. \A v \in View :
        /\ Learn(v, m) \in View /\ Learn(v, m).own = v.own \ {o} /\ Learn(v, m).types = v.types \ {t}
        /\ Learn(v, m).has = v.has \ {o} /\ Learn(v, m).seen = {x \in v.seen : x[1] # o}
        /\ Learn(v, m).watch = [st \in Pairs |-> IF st[1] = o THEN 0 ELSE v.watch[st]]
  <2> HIDE DEF t
  <2> QED
    BY <1>0, RemovalLearns
<1>2. m.type = "DATA"
  BY DEF Data
<1> HIDE DEF m
<1>3. Readable(m) /\ c \in Anyone
  BY <1>1 DEF Readable, Anyone
<1>4. Sent(B, R, c, m)
  BY <1>3, SendSent
<1> HIDE DEF R
<1>5. R \in Bus /\ SameTables(B, R)
  BY <1>4 DEF Sent
<1>6. ASSUME NEW e \in Client, OK(B, e, {}) PROVE OK(R, e, Dying(o))
  <2>0. Sound(B, e) /\ B.view[e] \in View /\ Tally(B, e, Watches(B, e, {}))
    BY <1>6 DEF OK, Aware, Bus
  <2>1. ASSUME e # c, e \notin B.lost PROVE Right(B, B.view[e], e, Dying(o))
    BY <1>6, <2>1, StrangerOK DEF OK, Aware
  <2>2. ASSUME e = c, e \notin B.lost
        PROVE  Right(B, Learn(B.view[e], m), e, Dying(o)) /\ ~Strays(B, e, m)
    <3> DEFINE v == B.view[e]
               w == Learn(v, m)
    <3>1. v \in View /\ Right(B, v, e, {})
      BY <1>6, <2>0, <2>2 DEF OK, Aware
    <3>2. /\ w \in View /\ w.own = v.own \ {o} /\ w.types = v.types \ {t}
          /\ w.has = v.has \ {o} /\ w.seen = {x \in v.seen : x[1] # o}
      BY <1>1, <3>1
    <3>3. ~Strays(B, e, m)
      BY <1>2 DEF Strays
    <3> HIDE DEF v, w, t
    <3>4. w.own = Own(B, e) \ Dying(o)
      BY <3>1, <3>2 DEF Right, Dying
    <3>5. w.has = {x \in Own(B, e) \ Dying(o) : Watched(B, x)}
      BY <3>1, <3>2 DEF Right, Dying
    <3>6. RightSeen(B, w, e, Dying(o))
      BY <3>1, <3>2 DEF Right, RightSeen, Dying
    <3>7. RightTypes(B, w, e, Dying(o))
      <4> SUFFICES ASSUME NEW y \in Sole(B, w, e)
                   PROVE  /\ \E u \in ObjId \ Dying(o) : B.objects[u].type = y
                          /\ \A u \in ObjId : B.objects[u].type = y => B.objects[u].client = e
        BY DEF RightTypes, Sole
      <4>1. y \in Sole(B, v, e) /\ y # t /\ y \in TypeId
        BY <3>1, <3>2 DEF View, Sole
      <4>2. /\ \E u \in ObjId \ {} : B.objects[u].type = y
            /\ \A u \in ObjId : B.objects[u].type = y => B.objects[u].client = e
        BY <3>1, <4>1 DEF Right, RightTypes, Sole
      <4>3. CASE B.objects[o].type = y
        <5>1. B.obj_types[y] # 1
          BY <4>1, <4>3, IdsAssumption DEF GoneType, t
        <5>2. Cardinality(UsersOf(B, y)) # 1
          BY <4>1, <5>1 DEF TablesOK, TypesOK
        <5>3. o \in UsersOf(B, y) /\ IsFiniteSet(UsersOf(B, y))
          BY <4>3, UsersFinite DEF UsersOf
        <5>4. \E u \in UsersOf(B, y) : u # o
          BY <5>2, <5>3, AnotherUser
        <5> QED
          BY <4>2, <5>4 DEF UsersOf, Dying
      <4>4. CASE B.objects[o].type # y
        BY <4>2, <4>4 DEF Dying
      <4> QED
        BY <4>3, <4>4
    <3>8. Right(B, w, e, Dying(o))
      BY <3>4, <3>5, <3>6, <3>7 DEF Right
    <3> QED
      BY <3>3, <3>8 DEF v, w
  <2>3. Aware(R, e, Dying(o))
    BY <1>0, <1>4, <2>0, <2>1, <2>2, SentAware
  <2>4. e # c => Watches(B, e, Dying(o)) = Watches(B, e, {})
    BY DEF Watches, Own, Dying
  <2>5. ASSUME e = c, e \notin B.lost PROVE Learn(B.view[e], m).watch = Watches(B, e, Dying(o))
    <3>1. B.view[e].watch = Watches(B, e, {})
      BY <2>0, <2>5 DEF Tally
    <3>2. Learn(B.view[e], m).watch = [st \in Pairs |-> IF st[1] = o THEN 0 ELSE Watches(B, e, {})[st]]
      BY <1>1, <2>0, <3>1
    <3> QED
      BY <3>2 DEF Watches, Own, Dying
  <2>6. Tally(R, e, Watches(B, e, Dying(o)))
    BY <1>3, <1>4, <2>0, <2>4, <2>5, SentTally
  <2>7. Watches(R, e, Dying(o)) = Watches(B, e, Dying(o))
    BY <1>5, TablesDecide
  <2> QED
    BY <2>3, <2>6, <2>7 DEF OK
<1> QED
  BY <1>5, <1>6 DEF R, m, t

(* What becomes of the tables when an object is freed does not depend on    *)
(* the messages before.                                                     *)
LEMMA FreedAfter ==
  ASSUME NEW B, NEW C, NEW R, NEW o, SameTables(B, C), Freed(C, R, o)
  PROVE  Freed(B, R, o)
BY DEF SameTables, Freed

(* ubusd_handle_remove_object, granted.                                     *)
LEMMA RemoveIsSound ==
  ASSUME NEW B \in Bus, TablesOK(B), NEW o \in ObjId, NEW c \in Client, B.objects[o].client = c
  PROVE  LET C == ubus_msg_send(B, c, Data(<<"REMOVE_OBJECT">>, o, GoneType(B, o)))
             R == ubusd_free_object(C, o)
         IN  Keeps(B, R) /\ Freed(B, R, o)
<1> DEFINE C == ubus_msg_send(B, c, Data(<<"REMOVE_OBJECT">>, o, GoneType(B, o)))
           R == ubusd_free_object(C, o)
<1>1. /\ C \in Bus /\ SameTables(B, C)
      /\ \A e \in Client : OK(B, e, {}) => OK(C, e, Dying(o))
  BY RemovalTold
<1> HIDE DEF C
<1>2. TablesOK(C) /\ C.objects[o].client # Null
  BY <1>1, TablesDecide, IdsAssumption DEF SameTables
<1>3. /\ R \in Bus /\ TablesOK(R) /\ Freed(C, R, o)
      /\ \A e \in Client : OK(C, e, Dying(o)) => OK(R, e, {})
  BY <1>1, <1>2, FreeIs
<1> HIDE DEF R
<1>4. Freed(B, R, o)
  BY <1>1, <1>3, FreedAfter
<1>5. Keeps(B, R)
  BY <1>1, <1>3, <1>4 DEF Keeps, Freed
<1> QED
  BY <1>4, <1>5 DEF R, C

----------------------------------------------------------------------------
(* Creating an object.                                                      *)

\* What ubusd_create_object enters.
NewObject(c, p, t) == [client |-> c, path |-> p, type |-> t]
NewObjects(B, c, o, p, t) == [B.objects EXCEPT ![o] = NewObject(c, p, t)]
NewPath(B, o, p) == IF p = Null THEN B.path ELSE [B.path EXCEPT ![p] = o]
NewTypes(B, t) == Unref(RefType(RefType(B.obj_types, t), t), t)

Created(B, R, c, o, p, t) ==
    /\ R.clients = B.clients /\ R.subs = B.subs /\ R.patterns = B.patterns
    /\ R.objects = NewObjects(B, c, o, p, t) /\ R.path = NewPath(B, o, p)
    /\ R.obj_types = NewTypes(B, t)

\* The object can be created: its id and its path are free.
Creatable(B, c, o, p, t) ==
    /\ B.objects[o].client = Null
    /\ c \in B.clients
    /\ p # Null => B.path[p] = Null

\* Its type is nobody else's, unless it is marked so.
Marked(B, c, t) == \A e \in Client \ {c} : t \notin Sole(B, B.view[e], e)

(* The new entries.                                                         *)
LEMMA NewIs ==
  ASSUME NEW B \in Bus, NEW o \in ObjId, NEW c \in Client,
         NEW p \in Path \cup {Null}, NEW t \in TypeId \cup {Null}
  PROVE  /\ NewObject(c, p, t).client = c /\ NewObject(c, p, t).path = p /\ NewObject(c, p, t).type = t
         /\ NewObjects(B, c, o, p, t) \in [ObjId -> Registry!Object]
         /\ NewObjects(B, c, o, p, t)[o] = NewObject(c, p, t)
         /\ \A x \in ObjId : x # o => NewObjects(B, c, o, p, t)[x] = B.objects[x]
         /\ NewPath(B, o, p) \in [Path -> ObjId \cup {Null}]
         /\ \A x \in Path : NewPath(B, o, p)[x] = IF x = p THEN o ELSE B.path[x]
         /\ NewTypes(B, t) \in [TypeId -> Int]
         /\ \A x \in TypeId : NewTypes(B, t)[x] = IF x = t THEN B.obj_types[x] + 1 ELSE B.obj_types[x]
<1>0. /\ B.objects \in [ObjId -> Registry!Object] /\ B.path \in [Path -> ObjId \cup {Null}]
      /\ B.obj_types \in [TypeId -> Int]
  BY DEF Bus
<1>n. Null \notin Path /\ Null \notin TypeId
  BY IdsAssumption
<1>1. /\ NewObject(c, p, t).client = c /\ NewObject(c, p, t).path = p /\ NewObject(c, p, t).type = t
      /\ NewObject(c, p, t) \in Registry!Object
  BY DEF NewObject, Registry!Object
<1>2. /\ NewObjects(B, c, o, p, t) \in [ObjId -> Registry!Object]
      /\ NewObjects(B, c, o, p, t)[o] = NewObject(c, p, t)
      /\ \A x \in ObjId : x # o => NewObjects(B, c, o, p, t)[x] = B.objects[x]
  BY <1>0, <1>1 DEF NewObjects
<1>3. /\ NewPath(B, o, p) \in [Path -> ObjId \cup {Null}]
      /\ \A x \in Path : NewPath(B, o, p)[x] = IF x = p THEN o ELSE B.path[x]
  BY <1>0, <1>n DEF NewPath
<1>4. /\ NewTypes(B, t) \in [TypeId -> Int]
      /\ \A x \in TypeId : NewTypes(B, t)[x] = IF x = t THEN B.obj_types[x] + 1 ELSE B.obj_types[x]
  <2>1. CASE t = Null
    BY <1>0, <1>n, <2>1 DEF NewTypes, Unref, RefType, Registry!RefType, Registry!ubus_unref_object_type
  <2>2. CASE t \in TypeId
    <3> DEFINE a == [B.obj_types EXCEPT ![t] = @ + 1]
               b == [a EXCEPT ![t] = @ + 1]
               d == [b EXCEPT ![t] = @ - 1]
    <3>1. NewTypes(B, t) = d
      BY <1>n, <2>2 DEF NewTypes, Unref, RefType, Registry!RefType, Registry!ubus_unref_object_type
    <3>2. a \in [TypeId -> Int] /\ a[t] = B.obj_types[t] + 1 /\ \A x \in TypeId : x # t => a[x] = B.obj_types[x]
      BY <1>0, <2>2
    <3> HIDE DEF a
    <3>3. b \in [TypeId -> Int] /\ b[t] = a[t] + 1 /\ \A x \in TypeId : x # t => b[x] = a[x]
      BY <2>2, <3>2
    <3> HIDE DEF b
    <3>4. d \in [TypeId -> Int] /\ d[t] = b[t] - 1 /\ \A x \in TypeId : x # t => d[x] = b[x]
      BY <2>2, <3>3
    <3> HIDE DEF d
    <3>5. B.obj_types[t] \in Int
      BY <1>0, <2>2
    <3>6. d[t] = B.obj_types[t] + 1
      BY <3>2, <3>3, <3>4, <3>5
    <3> QED
      BY <3>1, <3>2, <3>3, <3>4, <3>6
  <2> QED
    BY <2>1, <2>2
<1> QED
  BY <1>1, <1>2, <1>3, <1>4

(* Nothing refers to a free id.                                             *)
LEMMA FreeIdUnused ==
  ASSUME NEW B \in Bus, TablesOK(B), NEW o \in ObjId, B.objects[o].client = Null
  PROVE  /\ B.objects[o].path = Null /\ B.objects[o].type = Null
         /\ \A e \in Client : o \notin Own(B, e)
         /\ \A st \in Pairs : st[1] = o \/ st[2] = o => Count(B.subs, st) = 0
         /\ ~Watched(B, o)
         /\ \A op \in ToSet(B.patterns) : op[1] # o
         /\ \A q \in Path : B.path[q] # o
<1>n. Null \notin Client /\ Null \notin Path
  BY IdsAssumption
<1>1. B.objects[o].path = Null /\ B.objects[o].type = Null
  <2>1. B.objects[o].client \notin B.clients
    BY <1>n DEF Bus
  <2>2. B.objects[o] = Registry!NoObject
    BY <2>1 DEF TablesOK, ObjectsOK
  <2> QED
    BY <2>2, NoObjectIs
<1>2. \A e \in Client : o \notin Own(B, e)
  BY <1>n DEF Own
<1>3. \A st \in Pairs : st[1] = o \/ st[2] = o => Count(B.subs, st) = 0
  <2> SUFFICES ASSUME NEW st \in Pairs, st[1] = o \/ st[2] = o PROVE Count(B.subs, st) = 0
    OBVIOUS
  <2>1. B.subs \in Seq(Pairs)
    BY DEF Bus
  <2>2. Count(B.subs, st) \in Nat
    BY <2>1, CountIs
  <2>3. ~(Count(B.subs, st) > 0)
    BY DEF TablesOK, SubsOK
  <2> QED
    BY <2>2, <2>3
<1>4. ~Watched(B, o)
  <2>1. \A s \in ObjId : ~(Count(B.subs, <<s, o>>) > 0)
    BY <1>3 DEF Pairs
  <2>2. Watched(B, o) <=> \E s \in ObjId : Count(B.subs, <<s, o>>) > 0
    BY WatchedIs
  <2> QED
    BY <2>1, <2>2
<1>5. \A op \in ToSet(B.patterns) : op[1] # o
  BY DEF TablesOK, PatternsOK
<1>6. \A q \in Path : B.path[q] # o
  BY <1>1, <1>n DEF TablesOK, PathOK
<1> QED
  BY <1>1, <1>2, <1>3, <1>4, <1>5, <1>6

(* The object is in the trees, and its client does not know it yet.         *)
LEMMA EnterIs ==
  ASSUME NEW B \in Bus, TablesOK(B), NEW o \in ObjId, NEW c \in Client,
         NEW p \in Path \cup {Null}, NEW t \in TypeId \cup {Null}, Creatable(B, c, o, p, t), Marked(B, c, t),
         NEW R \in Bus, Created(B, R, c, o, p, t),
         R.tx = B.tx, R.view = B.view, R.lost = B.lost, R.stray = B.stray, R.taken = B.taken
  PROVE  /\ ObjectsOK(R) /\ PathOK(R) /\ TypesOK(R) /\ SubsOK(R) /\ PatternsOK(R)
         /\ \A op \in ToSet(R.patterns) : op[1] \notin Dying(o)
         /\ ~Watched(R, o)
         /\ \A st \in Pairs : st[1] = o => Count(R.subs, st) = 0
         /\ \A e \in Client : OK(B, e, {}) => OK(R, e, Dying(o))
<1>1. /\ B.objects[o].client = Null /\ c \in B.clients
      /\ p # Null => B.path[p] = Null
  BY DEF Creatable
<1>2. /\ B.objects[o].path = Null /\ B.objects[o].type = Null
      /\ \A e \in Client : o \notin Own(B, e)
      /\ \A st \in Pairs : st[1] = o \/ st[2] = o => Count(B.subs, st) = 0
      /\ ~Watched(B, o)
      /\ \A op \in ToSet(B.patterns) : op[1] # o
      /\ \A q \in Path : B.path[q] # o
  BY <1>1, FreeIdUnused
<1>3. /\ R.clients = B.clients /\ R.subs = B.subs /\ R.patterns = B.patterns
      /\ R.objects[o].client = c /\ R.objects[o].path = p /\ R.objects[o].type = t
      /\ \A x \in ObjId : x # o => R.objects[x] = B.objects[x]
      /\ \A x \in Path : R.path[x] = IF x = p THEN o ELSE B.path[x]
      /\ \A x \in TypeId : R.obj_types[x] = IF x = t THEN B.obj_types[x] + 1 ELSE B.obj_types[x]
  BY NewIs DEF Created
<1>n. Null \notin Client /\ Null \notin ObjId /\ Null \notin Path /\ Null \notin TypeId
  BY IdsAssumption
<1>4. ObjectsOK(R)
  BY <1>1, <1>3 DEF TablesOK, ObjectsOK
<1>5. PathOK(R)
  <2> SUFFICES ASSUME NEW q \in Path, NEW x \in ObjId PROVE R.path[q] = x <=> R.objects[x].path = q
    BY DEF PathOK
  <2>1. B.path[q] = x <=> B.objects[x].path = q
    BY DEF TablesOK, PathOK
  <2>2. CASE x = o
    BY <1>2, <1>3, <1>n, <2>2
  <2>3. CASE x # o
    <3>1. q = p => B.path[q] = Null
      BY <1>1, <1>n
    <3> QED
      BY <1>3, <1>n, <2>1, <2>3, <3>1
  <2> QED
    BY <2>2, <2>3
<1>6. TypesOK(R)
  <2> SUFFICES ASSUME NEW y \in TypeId PROVE R.obj_types[y] = Cardinality(UsersOf(R, y))
    BY DEF TypesOK
  <2>1. B.obj_types[y] = Cardinality(UsersOf(B, y)) /\ IsFiniteSet(UsersOf(B, y))
    BY UsersFinite DEF TablesOK, TypesOK
  <2>2. CASE y = t
    <3>1. UsersOf(R, y) = UsersOf(B, y) \cup {o} /\ o \notin UsersOf(B, y)
      BY <1>2, <1>3, <1>n, <2>2 DEF UsersOf
    <3>2. Cardinality(UsersOf(B, y) \cup {o}) = Cardinality(UsersOf(B, y)) + 1
      BY <2>1, <3>1, FS_AddElement
    <3> QED
      BY <1>3, <2>1, <2>2, <3>1, <3>2
  <2>3. CASE y # t
    <3>1. UsersOf(R, y) = UsersOf(B, y)
      BY <1>2, <1>3, <1>n, <2>3 DEF UsersOf
    <3> QED
      BY <1>3, <2>1, <2>3, <3>1
  <2> QED
    BY <2>2, <2>3
<1>7. SubsOK(R)
  <2> SUFFICES ASSUME NEW st \in Pairs, Count(R.subs, st) > 0
               PROVE  /\ R.objects[st[1]].client # Null /\ R.objects[st[2]].client # Null
                      /\ R.objects[st[1]].client # R.objects[st[2]].client
    BY DEF SubsOK
  <2>1. st[1] \in ObjId /\ st[2] \in ObjId /\ st[1] # o /\ st[2] # o
    BY <1>2, <1>3 DEF Pairs
  <2> QED
    BY <1>3, <2>1 DEF TablesOK, SubsOK
<1>8. PatternsOK(R) /\ \A op \in ToSet(R.patterns) : op[1] \notin Dying(o)
  <2>1. \A op \in ToSet(B.patterns) : op[1] \in ObjId
    <3>1. B.patterns \in Seq(ObjId \X Pattern)
      BY DEF Bus
    <3> QED
      BY <3>1, ElementOfSeq, LenProperties DEF ToSet
  <2> QED
    BY <1>2, <1>3, <2>1 DEF TablesOK, PatternsOK, Dying
<1>9. \A y : Watched(R, y) <=> Watched(B, y)
  BY <1>3 DEF Watched
<1>10. ASSUME NEW e \in Client, OK(B, e, {}) PROVE OK(R, e, Dying(o))
  <2>1. Own(R, e) \ Dying(o) = Own(B, e) \ {}
    BY <1>2, <1>3 DEF Own, Dying
  <2> DEFINE v == B.view[e]
  <2>6. v \in View /\ Sole(R, v, e) = Sole(B, v, e)
    BY DEF Bus, Sole
  <2>7. t \in Sole(B, v, e) => c = e
    BY DEF Marked
  <2> HIDE DEF v
  <2>2. ASSUME RightTypes(B, v, e, {}) PROVE RightTypes(R, v, e, Dying(o))
    <3> SUFFICES ASSUME NEW y \in Sole(B, v, e)
                 PROVE  /\ \E u \in ObjId \ Dying(o) : R.objects[u].type = y
                        /\ \A u \in ObjId : R.objects[u].type = y => R.objects[u].client = e
      BY <2>6 DEF RightTypes
    <3>1. y \in TypeId
      BY <2>6 DEF View, Sole
    <3>2. PICK u \in ObjId : B.objects[u].type = y
      BY <2>2 DEF RightTypes
    <3>3. \A x \in ObjId : B.objects[x].type = y => B.objects[x].client = e
      BY <2>2 DEF RightTypes
    <3>4. u # o
      BY <1>2, <1>n, <3>1, <3>2
    <3>5. t = y => c = e
      BY <2>7
    <3> QED
      BY <1>3, <3>2, <3>3, <3>4, <3>5 DEF Dying
  <2>3. ASSUME RightSeen(B, v, e, {}) PROVE RightSeen(R, v, e, Dying(o))
    <3> SUFFICES ASSUME NEW x \in v.seen
                 PROVE  /\ x[1] \in Own(R, e) \ Dying(o) /\ Hears(R, x[1], ObjAdd)
                        /\ Tracks(R, x[1]) => R.path[x[2][1]] = x[2][2]
      BY DEF RightSeen
    <3>1. x[1] \in ObjId /\ x[2][1] \in Path /\ x[2][2] \in ObjId
      BY <2>6 DEF View
    <3>2. /\ x[1] \in Own(B, e) \ {} /\ Hears(B, x[1], ObjAdd)
          /\ Tracks(B, x[1]) => B.path[x[2][1]] = x[2][2]
      BY <2>3 DEF RightSeen
    <3>3. Hears(R, x[1], ObjAdd) /\ (Tracks(R, x[1]) <=> Tracks(B, x[1]))
      BY <1>3, <3>2 DEF Hears, Tracks
    <3>4. B.path[x[2][1]] = x[2][2] => x[2][1] # p
      BY <1>1, <1>n, <3>1
    <3> QED
      BY <1>3, <2>1, <3>1, <3>2, <3>3, <3>4
  <2>4. Right(B, v, e, {}) => Right(R, v, e, Dying(o))
    BY <1>9, <2>1, <2>2, <2>3 DEF Right
  <2>5. Watches(R, e, Dying(o)) = Watches(B, e, {})
    BY <1>3, <2>1 DEF Watches
  <2> QED
    BY <1>3, <1>10, <2>4, <2>5 DEF OK, Aware, Sound, Queued, Tally, v
<1> QED
  BY <1>2, <1>3, <1>4, <1>5, <1>6, <1>7, <1>8, <1>9, <1>10

(* ubusd_create_object: everything is in place, but the client has not been *)
(* told.                                                                    *)
LEMMA CreateIs ==
  ASSUME NEW B \in Bus, TablesOK(B), NEW o \in ObjId, NEW c \in Client,
         NEW p \in Path \cup {Null}, NEW t \in TypeId \cup {Null}, Creatable(B, c, o, p, t),
         Marked(B, c, t)
  PROVE  LET R == ubusd_create_object(B, c, o, p, t)
         IN  /\ R \in Bus /\ TablesOK(R) /\ Created(B, R, c, o, p, t)
             /\ ~Watched(R, o)
             /\ \A st \in Pairs : st[1] = o => Count(R.subs, st) = 0
             /\ \A e \in Client : OK(B, e, {}) => OK(R, e, Dying(o))
             /\ (Null \in R.stray <=> Null \in B.stray) /\ (Null \in R.lost <=> Null \in B.lost)
<1> DEFINE B1 == Entered(B, B.owned, NewObjects(B, c, o, p, t), NewTypes(B, t))
           C == SetPath(B1, NewPath(B, o, p))
           about == <<p, o>>
           D == IF p = Null THEN C ELSE ubusd_send_event(C, Null, ObjAdd, about)
           owned == [D.owned EXCEPT ![c] = <<o>> \o @]
           R == ubusd_create_object(B, c, o, p, t)
<1>0. B.owned \in [Client -> Seq(ObjId)]
  BY DEF Bus
<1>1. /\ NewObjects(B, c, o, p, t) \in [ObjId -> Registry!Object]
      /\ NewPath(B, o, p) \in [Path -> ObjId \cup {Null}]
      /\ NewTypes(B, t) \in [TypeId -> Int]
  BY NewIs
<1>2. /\ B1 \in Bus /\ B1.owned = B.owned /\ B1.objects = NewObjects(B, c, o, p, t)
      /\ B1.obj_types = NewTypes(B, t)
      /\ B1.clients = B.clients /\ B1.path = B.path /\ B1.subs = B.subs /\ B1.patterns = B.patterns
      /\ B1.tx = B.tx /\ B1.view = B.view /\ B1.lost = B.lost /\ B1.stray = B.stray /\ B1.taken = B.taken
  <2> DEFINE ow == B.owned
             ob == NewObjects(B, c, o, p, t)
             ty == NewTypes(B, t)
             T == Entered(B, ow, ob, ty)
  <2>1. ow \in Lists /\ ob \in Objects /\ ty \in Counts
    BY <1>0, <1>1 DEF Lists, Objects, Counts
  <2>3. B1 = T
    OBVIOUS
  <2> HIDE DEF ow, ob, ty, B1
  <2>2. /\ T \in Bus /\ T.owned = ow /\ T.objects = ob /\ T.obj_types = ty
        /\ T.clients = B.clients /\ T.path = B.path /\ T.subs = B.subs /\ T.patterns = B.patterns
        /\ T.tx = B.tx /\ T.view = B.view /\ T.lost = B.lost /\ T.stray = B.stray /\ T.taken = B.taken
    BY <2>1, EnteredIs
  <2> HIDE DEF T
  <2> QED
    BY <2>2, <2>3 DEF ow, ob, ty
<1>3. B1 = [B EXCEPT !.objects[o] = NewObject(c, p, t), !.obj_types = NewTypes(B, t)]
  BY DEF Entered, NewObjects, Bus
<1>4. /\ p = Null => C = B1
      /\ p # Null => C = [B1 EXCEPT !.path[p] = o]
  <2> HIDE DEF B1
  <2>1. p = Null => NewPath(B, o, p) = B1.path
    BY <1>2 DEF NewPath
  <2>2. p # Null => NewPath(B, o, p) = [B1.path EXCEPT ![p] = o]
    BY <1>2 DEF NewPath
  <2> QED
    BY <1>2, <2>1, <2>2 DEF SetPath, Bus
<1> HIDE DEF B1
<1>5. /\ C \in Bus /\ C.path = NewPath(B, o, p)
      /\ C.clients = B1.clients /\ C.objects = B1.objects /\ C.obj_types = B1.obj_types
      /\ C.subs = B1.subs /\ C.patterns = B1.patterns /\ C.owned = B1.owned
      /\ C.tx = B1.tx /\ C.view = B1.view /\ C.lost = B1.lost /\ C.stray = B1.stray /\ C.taken = B1.taken
  BY <1>1, <1>2, SetPathIs
<1>6. /\ C.objects[o].path = p /\ C.objects[o].client = c
      /\ \A x \in ObjId : x # o => C.objects[x] = B.objects[x]
      /\ p # Null => C.path[p] = o
  BY <1>2, <1>5, NewIs
<1> HIDE DEF C
<1>7. R = [D EXCEPT !.owned[c] = <<o>> \o @]
  <2>1. p # Null => D = ubusd_send_obj_event(C, o, TRUE)
    BY <1>6 DEF ubusd_send_obj_event
  <2>2. ubusd_create_object(B, c, o, p, t) =
          [IF p = Null THEN B1 ELSE ubusd_send_obj_event([B1 EXCEPT !.path[p] = o], o, TRUE)
             EXCEPT !.owned[c] = <<o>> \o @]
    BY <1>3 DEF ubusd_create_object, NewObject, NewTypes
  <2> HIDE DEF D
  <2>3. D = IF p = Null THEN B1 ELSE ubusd_send_obj_event([B1 EXCEPT !.path[p] = o], o, TRUE)
    BY <1>4, <2>1 DEF D
  <2> QED
    BY <2>2, <2>3
<1>8. Created(B, C, c, o, p, t)
  BY <1>2, <1>5 DEF Created
<1>9. /\ ObjectsOK(C) /\ PathOK(C) /\ TypesOK(C) /\ SubsOK(C) /\ PatternsOK(C)
      /\ \A op \in ToSet(C.patterns) : op[1] \notin Dying(o)
      /\ ~Watched(C, o)
      /\ \A st \in Pairs : st[1] = o => Count(C.subs, st) = 0
      /\ \A e \in Client : OK(B, e, {}) => OK(C, e, Dying(o))
  <2>1. C \in Bus /\ C.tx = B.tx /\ C.view = B.view /\ C.lost = B.lost /\ C.stray = B.stray /\ C.taken = B.taken
    BY <1>2, <1>5
  <2> QED
    BY <1>8, <2>1, EnterIs
<1>10. /\ D \in Bus /\ SameTables(C, D)
       /\ \A e \in Client : OK(C, e, Dying(o)) => OK(D, e, Dying(o))
  <2>1. CASE p = Null
    BY <1>5, <2>1 DEF SameTables
  <2>2. CASE p # Null
    <3> DEFINE E == ubusd_send_event(C, Null, ObjAdd, about)
    <3>1. Suits(C, Null, ObjAdd, about)
      BY <1>6, <2>2 DEF Suits
    <3> HIDE DEF about
    <3>2. /\ E \in Bus /\ SameTables(C, E)
          /\ \A e \in Client : Aware(C, e, Dying(o)) => Aware(E, e, Dying(o))
          /\ \A e \in Client : \A W : Tally(C, e, W) => Tally(E, e, W)
      BY <1>5, <1>9, <3>1, SendEventIs
    <3> HIDE DEF E
    <3>3. \A e : Watches(E, e, Dying(o)) = Watches(C, e, Dying(o))
      BY <3>2, TablesDecide
    <3>4. \A e \in Client : OK(C, e, Dying(o)) => OK(E, e, Dying(o))
      BY <3>2, <3>3 DEF OK
    <3> QED
      BY <2>2, <3>2, <3>4 DEF E
  <2> QED
    BY <2>1, <2>2
<1> HIDE DEF D, R
<1>11. /\ D.clients = B.clients /\ D.objects = C.objects /\ D.path = C.path
       /\ D.obj_types = C.obj_types /\ D.subs = C.subs
       /\ D.patterns = C.patterns /\ D.owned = B.owned
  BY <1>2, <1>5, <1>10 DEF SameTables
<1>12. /\ <<o>> \o B.owned[c] \in Seq(ObjId)
       /\ \A x : Count(<<o>> \o B.owned[c], x) = Count(B.owned[c], x) + IF o = x THEN 1 ELSE 0
  <2>1. B.owned[c] \in Seq(ObjId)
    BY <1>0
  <2> QED
    BY <2>1, CountCons
<1>13. /\ owned \in [Client -> Seq(ObjId)] /\ owned[c] = <<o>> \o B.owned[c]
       /\ \A e \in Client : e # c => owned[e] = B.owned[e]
  BY <1>0, <1>11, <1>12
<1>14. R = Entered(D, owned, D.objects, D.obj_types)
  BY <1>7, <1>10 DEF Entered, Bus
<1> HIDE DEF owned
<1>15. /\ R \in Bus /\ R.owned = owned /\ R.objects = D.objects /\ R.obj_types = D.obj_types
       /\ R.clients = D.clients /\ R.path = D.path /\ R.subs = D.subs /\ R.patterns = D.patterns
       /\ R.tx = D.tx /\ R.view = D.view /\ R.lost = D.lost /\ R.stray = D.stray /\ R.taken = D.taken
  <2> DEFINE ob == D.objects
             ty == D.obj_types
             T == Entered(D, owned, ob, ty)
  <2>1. owned \in Lists /\ ob \in Objects /\ ty \in Counts
    BY <1>10, <1>13 DEF Bus, Lists, Objects, Counts
  <2>3. R = T
    BY <1>14
  <2> HIDE DEF ob, ty
  <2>2. /\ T \in Bus /\ T.owned = owned /\ T.objects = ob /\ T.obj_types = ty
        /\ T.clients = D.clients /\ T.path = D.path /\ T.subs = D.subs /\ T.patterns = D.patterns
        /\ T.tx = D.tx /\ T.view = D.view /\ T.lost = D.lost /\ T.stray = D.stray /\ T.taken = D.taken
    BY <1>10, <2>1, EnteredIs
  <2> HIDE DEF T
  <2> QED
    BY <2>2, <2>3 DEF ob, ty
<1>16. OwnedOK(R)
  <2> SUFFICES ASSUME NEW e \in Client, NEW x \in ObjId
               PROVE  Count(R.owned[e], x) = IF R.objects[x].client = e THEN 1 ELSE 0
    BY DEF OwnedOK
  <2>1. Count(B.owned[e], x) = IF B.objects[x].client = e THEN 1 ELSE 0
    BY DEF TablesOK, OwnedOK
  <2>2. B.objects[o].client # e
    BY IdsAssumption DEF Creatable
  <2>3. R.objects = C.objects
    BY <1>11, <1>15
  <2>4. CASE e = c /\ x = o
    <3>1. Count(R.owned[e], x) = Count(B.owned[e], x) + 1
      BY <1>12, <1>13, <1>15, <2>4
    <3>2. Count(B.owned[e], x) = 0
      BY <2>1, <2>2, <2>4
    <3> QED
      BY <1>6, <2>3, <2>4, <3>1, <3>2
  <2>5. CASE e = c /\ x # o
    <3>1. Count(R.owned[e], x) = Count(B.owned[e], x) + 0
      BY <1>12, <1>13, <1>15, <2>5
    <3>2. Count(B.owned[e], x) \in {0, 1}
      BY <2>1
    <3> QED
      BY <1>6, <2>1, <2>3, <2>5, <3>1, <3>2
  <2>6. CASE e # c
    BY <1>6, <1>13, <1>15, <2>1, <2>2, <2>3, <2>6
  <2> QED
    BY <2>4, <2>5, <2>6
<1>17. TablesOK(R)
  <2>1. /\ R.clients = C.clients /\ R.objects = C.objects /\ R.path = C.path
        /\ R.obj_types = C.obj_types /\ R.subs = C.subs /\ R.patterns = C.patterns
    BY <1>2, <1>5, <1>11, <1>15
  <2>2. ObjectsOK(R) /\ PathOK(R) /\ TypesOK(R) /\ SubsOK(R) /\ PatternsOK(R)
    BY <1>9, <2>1 DEF ObjectsOK, PathOK, TypesOK, UsersOf, SubsOK, PatternsOK
  <2> QED
    BY <1>16, <2>2 DEF TablesOK
<1>18. \A e \in Client : OK(D, e, Dying(o)) => OK(R, e, Dying(o))
  <2>1. \A e : Own(R, e) = Own(D, e) /\ Watches(R, e, Dying(o)) = Watches(D, e, Dying(o))
    BY <1>15 DEF Own, Watches
  <2>2. \A v, e : RightTypes(R, v, e, Dying(o)) <=> RightTypes(D, v, e, Dying(o))
    BY <1>15 DEF RightTypes, Sole
  <2>3. \A v, e : RightSeen(R, v, e, Dying(o)) <=> RightSeen(D, v, e, Dying(o))
    BY <1>15, <2>1 DEF RightSeen, Hears, Tracks
  <2>4. \A y : Watched(R, y) <=> Watched(D, y)
    BY <1>15 DEF Watched
  <2>5. \A v, e : Right(D, v, e, Dying(o)) => Right(R, v, e, Dying(o))
    BY <2>1, <2>2, <2>3, <2>4 DEF Right
  <2> QED
    BY <1>15, <2>1, <2>5 DEF OK, Aware, Sound, Queued, Tally
<1>19. Created(B, R, c, o, p, t)
  BY <1>8, <1>11, <1>15 DEF Created
<1>20. ~Watched(R, o) /\ \A st \in Pairs : st[1] = o => Count(R.subs, st) = 0
  BY <1>9, <1>11, <1>15 DEF Watched
<1>21. (Null \in R.stray <=> Null \in B.stray) /\ (Null \in R.lost <=> Null \in B.lost)
  BY <1>2, <1>5, <1>10, <1>15 DEF SameTables
<1> QED
  BY <1>9, <1>10, <1>15, <1>17, <1>18, <1>19, <1>20, <1>21 DEF R

(* What it says, as an operator.                                            *)
LEMMA AddLearns ==
  ASSUME NEW o \in ObjId, NEW t \in TypeId \cup {Null}, NEW m, m = Data(<<"ADD_OBJECT">>, o, t)
  PROVE  \A v \in View :
           /\ Learn(v, m) \in View /\ Learn(v, m).own = v.own \cup {o}
           /\ Learn(v, m).types = v.types \cup ({t} \ {Null})
           /\ Learn(v, m).has = v.has /\ Learn(v, m).seen = v.seen /\ Learn(v, m).watch = v.watch
<1> TAKE v \in View
<1>1. Learn(v, m) = Added(v, o, t)
  BY DEF Data, Learn
<1>2. LET w == Added(v, o, t)
      IN  /\ w \in View /\ w.own = v.own \cup {o} /\ w.types = v.types \cup ({t} \ {Null})
          /\ w.has = v.has /\ w.seen = v.seen /\ w.watch = v.watch
  BY DEF Added, View
<1> QED
  BY <1>1, <1>2

(* The answer to a creation.                                                *)
LEMMA CreationTold ==
  ASSUME NEW B \in Bus, NEW o \in ObjId, NEW c \in Client, c \in B.clients, B.objects[o].client = c,
         ~Watched(B, o), \A st \in Pairs : st[1] = o => Count(B.subs, st) = 0,
         NEW t \in TypeId \cup {Null},
         t # Null => /\ B.objects[o].type = t
                     /\ \A u \in ObjId : B.objects[u].type = t => B.objects[u].client = c
  PROVE  LET R == ubus_msg_send(B, c, Data(<<"ADD_OBJECT">>, o, t))
         IN  /\ R \in Bus /\ SameTables(B, R)
             /\ \A e \in Client : OK(B, e, Dying(o)) => OK(R, e, {})
<1> DEFINE m == Data(<<"ADD_OBJECT">>, o, t)
           R == ubus_msg_send(B, c, m)
<1>1. \A v \in View :
        /\ Learn(v, m) \in View /\ Learn(v, m).own = v.own \cup {o}
        /\ Learn(v, m).types = v.types \cup ({t} \ {Null})
        /\ Learn(v, m).has = v.has /\ Learn(v, m).seen = v.seen /\ Learn(v, m).watch = v.watch
  <2> HIDE DEF m
  <2>1. m = Data(<<"ADD_OBJECT">>, o, t)
    BY DEF m
  <2> QED
    BY <2>1, AddLearns
<1>2. m.type = "DATA"
  BY DEF Data
<1> HIDE DEF m
<1>3. Readable(m) /\ c \in Anyone
  BY <1>1 DEF Readable, Anyone
<1>4. Sent(B, R, c, m)
  BY <1>3, SendSent
<1> HIDE DEF R
<1>5. R \in Bus /\ SameTables(B, R)
  BY <1>4 DEF Sent
<1>6. ASSUME NEW e \in Client, OK(B, e, Dying(o)) PROVE OK(R, e, {})
  <2>0. Sound(B, e) /\ B.view[e] \in View /\ Tally(B, e, Watches(B, e, Dying(o)))
    BY <1>6 DEF OK, Aware, Bus
  <2>1. ASSUME e # c, e \notin B.lost PROVE Right(B, B.view[e], e, {})
    BY <1>6, <2>1, StrangerOK DEF OK, Aware
  <2>2. ASSUME e = c, e \notin B.lost
        PROVE  Right(B, Learn(B.view[e], m), e, {}) /\ ~Strays(B, e, m)
    <3> DEFINE v == B.view[e]
               w == Learn(v, m)
    <3>1. v \in View /\ Right(B, v, e, Dying(o))
      BY <1>6, <2>0, <2>2 DEF OK, Aware
    <3>2. /\ w \in View /\ w.own = v.own \cup {o} /\ w.types = v.types \cup ({t} \ {Null})
          /\ w.has = v.has /\ w.seen = v.seen
      BY <1>1, <3>1
    <3>3. ~Strays(B, e, m)
      BY <1>2 DEF Strays
    <3> HIDE DEF v, w
    <3>o. o \in Own(B, e)
      BY <2>2 DEF Own
    <3>4. w.own = Own(B, e) \ {}
      BY <3>1, <3>2, <3>o DEF Right, Dying
    <3>5. w.has = {x \in Own(B, e) \ {} : Watched(B, x)}
      BY <3>1, <3>2 DEF Right, Dying
    <3>6. RightSeen(B, w, e, {})
      BY <3>1, <3>2 DEF Right, RightSeen
    <3>7. RightTypes(B, w, e, {})
      BY <2>2, <3>1, <3>2 DEF Right, RightTypes, Sole
    <3>8. Right(B, w, e, {})
      BY <3>4, <3>5, <3>6, <3>7 DEF Right
    <3> QED
      BY <3>3, <3>8 DEF v, w
  <2>3. Aware(R, e, {})
    BY <1>4, <2>0, <2>1, <2>2, SentAware
  <2>4. Watches(B, e, Dying(o)) = Watches(B, e, {})
    BY DEF Watches, Own, Dying
  <2>5. ASSUME e \notin B.lost PROVE Learn(B.view[e], m).watch = Watches(B, e, {})
    BY <1>1, <2>0, <2>4, <2>5 DEF Tally
  <2>6. Tally(R, e, Watches(B, e, {}))
    BY <1>3, <1>4, <2>0, <2>4, <2>5, SentTally
  <2>7. Watches(R, e, {}) = Watches(B, e, {})
    BY <1>5, TablesDecide
  <2> QED
    BY <2>3, <2>6, <2>7 DEF OK
<1> QED
  BY <1>5, <1>6 DEF R, m

----------------------------------------------------------------------------
(* Requests: what they do, with their answers.                              *)

(* ubusd_handle_add_object, granted; a is the type that the answer names.   *)
LEMMA AddIsSound ==
  ASSUME NEW B \in Bus, TablesOK(B), NEW o \in ObjId, NEW c \in Client,
         NEW p \in Path \cup {Null}, NEW t \in TypeId \cup {Null}, Creatable(B, c, o, p, t),
         Marked(B, c, t), NEW a \in {t, Null}, a # Null => \A u \in ObjId : B.objects[u].type # a
  PROVE  LET C == ubusd_create_object(B, c, o, p, t)
             R == ubus_msg_send(C, c, Data(<<"ADD_OBJECT">>, o, a))
         IN  Keeps(B, R) /\ Created(B, R, c, o, p, t)
<1> DEFINE C == ubusd_create_object(B, c, o, p, t)
           R == ubus_msg_send(C, c, Data(<<"ADD_OBJECT">>, o, a))
<1>1. /\ C \in Bus /\ TablesOK(C) /\ Created(B, C, c, o, p, t)
      /\ ~Watched(C, o)
      /\ \A st \in Pairs : st[1] = o => Count(C.subs, st) = 0
      /\ \A e \in Client : OK(B, e, {}) => OK(C, e, Dying(o))
      /\ (Null \in C.stray <=> Null \in B.stray) /\ (Null \in C.lost <=> Null \in B.lost)
  BY CreateIs
<1> HIDE DEF C
<1>2. /\ C.objects[o].client = c /\ C.objects[o].type = t /\ c \in C.clients
      /\ \A u \in ObjId : u # o => C.objects[u] = B.objects[u]
  BY <1>1, NewIs DEF Created, Creatable
<1>3. a # Null => /\ C.objects[o].type = a
                  /\ \A u \in ObjId : C.objects[u].type = a => C.objects[u].client = c
  BY <1>2
<1>4. a \in TypeId \cup {Null}
  OBVIOUS
<1>5. /\ R \in Bus /\ SameTables(C, R)
      /\ \A e \in Client : OK(C, e, Dying(o)) => OK(R, e, {})
  BY <1>1, <1>2, <1>3, <1>4, CreationTold
<1> HIDE DEF R
<1>6. TablesOK(R)
  BY <1>1, <1>5, TablesDecide
<1>7. Created(B, R, c, o, p, t)
  BY <1>1, <1>5 DEF Created, SameTables
<1>8. Keeps(B, R)
  BY <1>1, <1>5, <1>6 DEF Keeps, SameTables
<1> QED
  BY <1>7, <1>8 DEF R, C

\* The subscriptions st have become n more, and nothing else is different.
Recounted(B, R, st, n) ==
    /\ OtherTables(B, R)
    /\ \A e : Count(R.subs, e) = Count(B.subs, e) + IF e = st THEN n ELSE 0

(* The same when nothing is on its way out.                                 *)
LEMMA OwnerTally ==
  ASSUME NEW B \in Bus, NEW R, NEW st \in Pairs, NEW n \in Delta, Resubscribed(B, R, st, n),
         NEW e \in Client
  PROVE  /\ B.objects[st[1]].client = e => Watches(R, e, {}) = Off(Watches(B, e, {}), st, n)
         /\ B.objects[st[1]].client # e => Watches(R, e, {}) = Watches(B, e, {})
<1>1. \A Y : st[1] \notin Y =>
        Watches(R, e, Y) = IF B.objects[st[1]].client = e THEN Off(Watches(B, e, Y), st, n)
                           ELSE Watches(B, e, Y)
  BY KnownIfTold
<1> QED
  BY <1>1

Tallies(m, st, n) == m.type = "STATUS" /\ \A v \in View : Tallied(v, Learn(v, m), st, n)

(* The status of a granted change of a subscription.                        *)
LEMMA ResubscribedTold ==
  ASSUME NEW B \in Bus, NEW C, NEW c \in Client, NEW st \in Pairs, NEW n \in Delta,
         Resubscribed(B, C, st, n), TablesOK(C), B.objects[st[1]].client = c,
         NEW m, Tallies(m, st, n)
  PROVE  LET R == ubus_msg_send(C, c, m)
         IN  Keeps(B, R) /\ Recounted(B, R, st, n)
<1> DEFINE R == ubus_msg_send(C, c, m)
<1>1. /\ C \in Bus /\ OtherTables(B, C)
      /\ \A e : Count(C.subs, e) = Count(B.subs, e) + IF e = st THEN n ELSE 0
      /\ \A e \in Client : \A X : Aware(B, e, X) => Aware(C, e, X)
      /\ \A e \in Client : \A W : Tally(B, e, W) => Tally(C, e, W)
  BY DEF Resubscribed
<1>2. /\ R \in Bus /\ SameTables(C, R)
      /\ \A e \in Client : \A X :
           Aware(C, e, X) /\ (e = c => st[1] \in Own(C, e) \ X) => Aware(R, e, X)
      /\ \A e \in Client : \A W \in [Pairs -> Int] :
           Tally(C, e, W) => Tally(R, e, IF e = c THEN Off(W, st, n) ELSE W)
  <2>1. n \in Int
    BY DEF Delta
  <2>2. C.objects[st[1]].client = c /\ st[1] \in ObjId
    BY <1>1 DEF OtherTables, Pairs
  <2>3. c \in C.clients
    BY <1>1, <2>2, LiveIs, IdsAssumption DEF TablesOK
  <2> QED
    BY <1>1, <2>1, <2>3, TellTally DEF Tallies
<1> HIDE DEF R
<1>3. TablesOK(R) /\ \A e : Watches(R, e, {}) = Watches(C, e, {})
  BY <1>2, TablesDecide
<1>4. Recounted(B, R, st, n)
  BY <1>1, <1>2 DEF Recounted, OtherTables, SameTables
<1>5. ASSUME NEW e \in Client, OK(B, e, {}) PROVE OK(R, e, {})
  <2>1. e = c => st[1] \in Own(C, e) \ {}
    BY <1>1 DEF Own, OtherTables, Pairs
  <2>2. Aware(R, e, {})
    BY <1>1, <1>2, <1>5, <2>1 DEF OK
  <2>3. Tally(R, e, IF e = c THEN Off(Watches(B, e, {}), st, n) ELSE Watches(B, e, {}))
    BY <1>1, <1>2, <1>5, WatchesIs DEF OK
  <2>4. Watches(C, e, {}) = IF e = c THEN Off(Watches(B, e, {}), st, n) ELSE Watches(B, e, {})
    <3>1. CASE e = c
      BY <3>1, OwnerTally
    <3>2. CASE e # c
      BY <3>2, OwnerTally, ZenonT(60)
    <3> QED
      BY <3>1, <3>2
  <2> QED
    BY <1>3, <2>2, <2>3, <2>4 DEF OK
<1>6. Keeps(B, R)
  BY <1>2, <1>3, <1>4, <1>5 DEF Keeps, Recounted, OtherTables
<1> QED
  BY <1>4, <1>6 DEF R

(* ubusd_handle_add_watch and ubusd_handle_remove_watch, granted.           *)
LEMMA WatchIsSound ==
  ASSUME NEW B \in Bus, TablesOK(B), NEW c \in Client, NEW s \in ObjId, NEW t \in ObjId,
         B.objects[s].client = c
  PROVE  /\ B.objects[t].client \notin {Null, c} =>
              LET R == Return(ubus_subscribe(B, s, t), c, <<"SUBSCRIBE", s, t>>, "OK")
              IN  Keeps(B, R) /\ Recounted(B, R, <<s, t>>, 1)
         /\ Contains(B.subs, <<s, t>>) =>
              LET R == Return(ubus_unsubscribe(B, <<s, t>>), c, <<"UNSUBSCRIBE", s, t>>, "OK")
              IN  /\ Keeps(B, R) /\ Recounted(B, R, <<s, t>>, -1)
                  /\ Count(B.subs, <<s, t>>) > 0
<1> DEFINE st == <<s, t>>
           req == <<"SUBSCRIBE", s, t>>
           unreq == <<"UNSUBSCRIBE", s, t>>
<1>0. st \in Pairs /\ st[1] = s /\ st[2] = t /\ c # Null
  BY IdsAssumption DEF Pairs
<1>d. 1 \in Delta /\ -1 \in Delta
  BY DEF Delta
<1>m. Tallies(Status(req, "OK"), st, 1) /\ Tallies(Status(unreq, "OK"), st, -1)
  BY WatchLearns DEF Status, Tallies
<1>1. ASSUME B.objects[t].client \notin {Null, c}
      PROVE  LET R == Return(ubus_subscribe(B, s, t), c, req, "OK")
             IN  Keeps(B, R) /\ Recounted(B, R, st, 1)
  <2>1. Resubscribed(B, ubus_subscribe(B, s, t), st, 1) /\ TablesOK(ubus_subscribe(B, s, t))
    BY <1>0, <1>1, SubscribeIs
  <2> HIDE DEF st, req
  <2>2. LET R == ubus_msg_send(ubus_subscribe(B, s, t), c, Status(req, "OK"))
        IN  Keeps(B, R) /\ Recounted(B, R, st, 1)
    BY <1>0, <1>d, <1>m, <2>1, ResubscribedTold
  <2> QED
    BY <2>2 DEF Return
<1>2. ASSUME Contains(B.subs, st)
      PROVE  LET R == Return(ubus_unsubscribe(B, st), c, unreq, "OK")
             IN  Keeps(B, R) /\ Recounted(B, R, st, -1) /\ Count(B.subs, st) > 0
  <2>0. Count(B.subs, st) > 0
    <3>1. B.subs \in Seq(Pairs)
      BY DEF Bus
    <3>2. \E i \in 1..Len(B.subs) : B.subs[i] = st
      BY <1>2, <3>1, LenProperties DEF Contains
    <3> HIDE DEF st
    <3> QED
      BY <3>1, <3>2, CountIs
  <2> HIDE DEF st, unreq
  <2>1. Resubscribed(B, ubus_unsubscribe(B, st), st, -1) /\ TablesOK(ubus_unsubscribe(B, st))
    BY <1>0, <2>0, UnsubscribeIs
  <2>2. LET R == ubus_msg_send(ubus_unsubscribe(B, st), c, Status(unreq, "OK"))
        IN  Keeps(B, R) /\ Recounted(B, R, st, -1)
    BY <1>0, <1>d, <1>m, <2>1, ResubscribedTold
  <2> QED
    BY <2>0, <2>2 DEF Return
<1> QED
  BY <1>1, <1>2

(* An invocation of a live object.                                          *)
LEMMA InvokeQuiet ==
  ASSUME NEW B \in Bus, TablesOK(B), NEW o \in ObjId, B.objects[o].client # Null, NEW peer \in Client
  PROVE  Quiet(B, ubus_msg_send(B, B.objects[o].client, Invoke(o, peer)))
<1> DEFINE c == B.objects[o].client
           m == Invoke(o, peer)
           R == ubus_msg_send(B, c, m)
<1>1. c \in Client /\ c \in Anyone /\ c \in B.clients
  BY LiveIs DEF TablesOK
<1>2. \A v : Learn(v, m) = v
  <2>1. peer # Null
    BY IdsAssumption
  <2> QED
    BY <2>1 DEF Invoke, Learn
<1>3. m.obj = o
  BY DEF Invoke
<1> HIDE DEF m, c
<1>4. Readable(m)
  BY <1>2 DEF Readable
<1>5. Sent(B, R, c, m)
  BY <1>1, <1>4, SendSent
<1> HIDE DEF R
<1>6. R \in Bus /\ SameTables(B, R)
  BY <1>1, <1>5 DEF Sent
<1>7. TablesOK(R) /\ \A e : Watches(R, e, {}) = Watches(B, e, {})
  BY <1>6, TablesDecide
<1>8. ASSUME NEW e \in Client, OK(B, e, {}) PROVE OK(R, e, {})
  <2>1. Sound(B, e) /\ Tally(B, e, Watches(B, e, {}))
    BY <1>8 DEF OK, Aware
  <2>2. e \notin B.lost => Right(B, B.view[e], e, {})
    BY <1>8, SMTT(30) DEF OK, Aware
  <2>3. e = c /\ e \notin B.lost => Right(B, Learn(B.view[e], m), e, {}) /\ ~Strays(B, e, m)
    BY <1>2, <1>3, <2>2 DEF Right, Strays, Own, c
  <2>4. Aware(R, e, {})
    BY <1>1, <1>5, <2>1, <2>2, <2>3, SentAware
  <2>5. Tally(R, e, Watches(B, e, {}))
    <3>1. e \notin B.lost => Learn(B.view[e], m).watch = Watches(B, e, {})
      BY <1>2, <2>1 DEF Tally
    <3> QED
      BY <1>1, <1>5, <2>1, <3>1, SentTally
  <2> QED
    BY <1>7, <2>4, <2>5 DEF OK
<1>9. Quiet(B, R)
  BY <1>6, <1>7, <1>8 DEF Quiet, Keeps, SameTables
<1> QED
  BY <1>9 DEF R, m, c

(* Messages in sequence.                                                    *)
LEMMA QuietTrans ==
  ASSUME NEW B, NEW C, NEW R, Quiet(B, C), Quiet(C, R)
  PROVE  Quiet(B, R)
BY DEF Quiet, Keeps, SameTables

(* NotifySubscribers: every subscription has a live subscriber.             *)
LEMMA NotifyQuiet ==
  ASSUME NEW B \in Bus, TablesOK(B), NEW c \in Client, NEW o
  PROVE  Quiet(B, NotifySubscribers(B, c, o))
<1> DEFINE s == B.subs
           Tell(X, st) == IF st[2] # o THEN X
                          ELSE ubus_msg_send(X, X.objects[st[1]].client, Invoke(st[1], c))
           run == CHOOSE h : h = [i \in 0..Len(s) |-> IF i = 0 THEN B ELSE Tell(h[i - 1], s[i])]
           f == [z \in Bus \X Pairs |-> Tell(z[1], z[2])]
<1>1. NotifySubscribers(B, c, o) = run[Len(s)]
  BY DEF NotifySubscribers, ForEach
<1>2. s \in Seq(Pairs) /\ Len(s) \in Nat /\ \A i \in 1..Len(s) : s[i] \in Pairs
  BY LenProperties, ElementOfSeq DEF Bus
<1>t. ASSUME NEW X \in Bus, NEW st \in Pairs PROVE Tell(X, st) \in Bus
  <2>1. st[1] \in ObjId
    BY DEF Pairs
  <2>2. Readable(Invoke(st[1], c))
    <3>1. c # Null
      BY IdsAssumption
    <3> QED
      BY <3>1 DEF Readable, Invoke, Learn
  <2>3. ubus_msg_send(X, X.objects[st[1]].client, Invoke(st[1], c)) \in Bus
    BY <2>1, <2>2, LiveIs, SendSent DEF Sent
  <2> QED
    BY <2>3
<1>3. f \in [Bus \X Pairs -> Bus] /\ \A X \in Bus, st \in Pairs : f[<<X, st>>] = Tell(X, st)
  <2> HIDE DEF Tell
  <2> QED
    BY <1>t
<1>4. \E h : h = [i \in 0..Len(s) |-> IF i = 0 THEN B ELSE Tell(h[i - 1], s[i])]
  <2> HIDE DEF f, Tell, s
  <2>1. PICK g : IsRun(g, f, B, s, Bus)
    <3>1. f \in [Bus \X Pairs -> Bus] /\ s \in Seq(Pairs)
      BY <1>2, <1>3
    <3> QED
      BY <3>1, Unroll
  <2>2. \A i \in 0..Len(s) : i # 0 => i \in 1..Len(s) /\ g[i - 1] \in Bus /\ s[i] \in Pairs
    BY <1>2, <2>1 DEF IsRun
  <2>3. \A i \in 0..Len(s) : g[i] = IF i = 0 THEN B ELSE Tell(g[i - 1], s[i])
    BY <1>3, <2>1, <2>2 DEF IsRun
  <2>4. g = [i \in 0..Len(s) |-> IF i = 0 THEN B ELSE Tell(g[i - 1], s[i])]
    BY <2>1, <2>3 DEF IsRun
  <2> QED
    BY <2>4
<1>5. run = [i \in 0..Len(s) |-> IF i = 0 THEN B ELSE Tell(run[i - 1], s[i])]
  <2> HIDE DEF Tell, s
  <2> QED
    BY <1>4
<1> HIDE DEF run, f
<1>6. run[0] = B /\ \A i \in 1..Len(s) : run[i] = Tell(run[i - 1], s[i])
  <2> HIDE DEF Tell, s
  <2>1. 0 \in 0..Len(s) /\ \A i \in 1..Len(s) : i \in 0..Len(s) /\ i # 0
    BY <1>2
  <2> QED
    BY <1>5, <2>1
<1>7. Quiet(B, run[0])
  BY <1>6 DEF Quiet, Keeps, SameTables
<1>8. ASSUME NEW i \in 1..Len(s), Quiet(B, run[i - 1]) PROVE Quiet(B, run[i])
  <2> DEFINE st == s[i]
             P == run[i - 1]
             R == run[i]
  <2>1. st \in Pairs /\ R = Tell(P, st)
    BY <1>2, <1>6
  <2>2. Quiet(B, P) /\ P \in Bus /\ TablesOK(P) /\ P.objects = B.objects
    BY <1>8 DEF Quiet, Keeps, SameTables
  <2>3. st[1] \in ObjId /\ B.objects[st[1]].client # Null
    <3>1. Count(s, st) > 0
      BY <1>2, CountIs
    <3> HIDE DEF st
    <3> QED
      BY <2>1, <3>1 DEF TablesOK, SubsOK, Pairs
  <2> HIDE DEF st, P, R
  <2>4. CASE st[2] # o
    <3>1. R = P
      BY <2>1, <2>4
    <3> QED
      BY <2>2, <3>1 DEF R
  <2>5. CASE st[2] = o
    <3>1. R = ubus_msg_send(P, P.objects[st[1]].client, Invoke(st[1], c))
      BY <2>1, <2>5
    <3>2. P.objects[st[1]].client # Null
      BY <2>2, <2>3
    <3>3. Quiet(P, R)
      BY <2>2, <2>3, <3>1, <3>2, InvokeQuiet
    <3>4. Quiet(B, R)
      BY <2>2, <3>3, QuietTrans
    <3> QED
      BY <3>4 DEF R
  <2> QED
    BY <2>4, <2>5
<1> DEFINE Good == {i \in 0..Len(s) : Quiet(B, run[i])}
<1>9. Len(s) \in Good
  <2> HIDE DEF s
  <2>1. 0 \in Good /\ \A i \in 1..Len(s) : i - 1 \in Good => i \in Good
    BY <1>2, <1>7, <1>8
  <2> HIDE DEF Good
  <2>2. \A i \in 0..Len(s) : i \in Good
    BY <1>2, <2>1, Rounds
  <2> QED
    BY <1>2, <2>2
<1> QED
  BY <1>1, <1>9

(* An event that a client sends.                                            *)
LEMMA SendQuiet ==
  ASSUME NEW B \in Bus, TablesOK(B), NEW c \in Client, NEW id \in EventId
  PROVE  Quiet(B, ubusd_send_event(B, c, id, Null))
<1> DEFINE none == {}
           R == ubusd_send_event(B, c, id, Null)
<1>1. Suits(B, c, id, Null) /\ ObjectsOK(B) /\ PatternsOK(B) /\ \A op \in ToSet(B.patterns) : op[1] \notin none
  BY DEF Suits, TablesOK
<1> HIDE DEF none
<1>2. /\ R \in Bus /\ SameTables(B, R)
      /\ \A e \in Client : Aware(B, e, none) => Aware(R, e, none)
      /\ \A e \in Client : \A W : Tally(B, e, W) => Tally(R, e, W)
  BY <1>1, SendEventIs
<1> HIDE DEF R
<1>3. TablesOK(R) /\ \A e : Watches(R, e, none) = Watches(B, e, none)
  BY <1>2, TablesDecide
<1>4. \A e \in Client : OK(B, e, none) => OK(R, e, none)
  BY <1>2, <1>3 DEF OK
<1>5. Quiet(B, R)
  BY <1>2, <1>3, <1>4 DEF Quiet, Keeps, SameTables, none
<1> QED
  BY <1>5 DEF R

\* Only the event sources differ: there is one more.
Registered(B, R, op) ==
    /\ R.clients = B.clients /\ R.objects = B.objects /\ R.path = B.path
    /\ R.obj_types = B.obj_types /\ R.subs = B.subs
    /\ ToSet(R.patterns) = ToSet(B.patterns) \cup {op}

SetPatterns(B, s) == [B EXCEPT !.patterns = s]

(* A new event source: it makes a listener that tracked the objects, if     *)
(* anything, one that no longer does.                                       *)
LEMMA RegisterIs ==
  ASSUME NEW B \in Bus, TablesOK(B), NEW o \in ObjId, B.objects[o].client # Null, NEW pat \in Pattern,
         NEW s \in Seq(ObjId \X Pattern), ToSet(s) = ToSet(B.patterns) \cup {<<o, pat>>}
  PROVE  LET R == SetPatterns(B, s)
         IN  Keeps(B, R) /\ Registered(B, R, <<o, pat>>)
<1> DEFINE R == SetPatterns(B, s)
<1>1. /\ R \in Bus /\ R.patterns = s
      /\ R.clients = B.clients /\ R.objects = B.objects /\ R.path = B.path
      /\ R.obj_types = B.obj_types /\ R.subs = B.subs /\ R.owned = B.owned
      /\ R.tx = B.tx /\ R.view = B.view /\ R.lost = B.lost /\ R.stray = B.stray /\ R.taken = B.taken
  BY DEF Bus, SetPatterns
<1> HIDE DEF R
<1>2. Registered(B, R, <<o, pat>>)
  BY <1>1 DEF Registered
<1>3. TablesOK(R)
  BY <1>1 DEF TablesOK, ObjectsOK, PathOK, TypesOK, UsersOf, SubsOK, PatternsOK, OwnedOK
<1>4. \A e : Own(R, e) = Own(B, e) /\ Watches(R, e, {}) = Watches(B, e, {})
  BY <1>1 DEF Own, Watches
<1>5. \A y : Watched(R, y) <=> Watched(B, y)
  BY <1>1 DEF Watched
<1>6. \A v, e : RightTypes(B, v, e, {}) => RightTypes(R, v, e, {})
  BY <1>1 DEF RightTypes, Sole
<1>7. \A l : (Hears(B, l, ObjAdd) => Hears(R, l, ObjAdd)) /\ (Tracks(R, l) => Tracks(B, l))
  BY <1>1 DEF Hears, Tracks
<1>8. \A v, e : RightSeen(B, v, e, {}) => RightSeen(R, v, e, {})
  BY <1>1, <1>4, <1>7 DEF RightSeen
<1>9. \A v, e : Right(B, v, e, {}) => Right(R, v, e, {})
  BY <1>4, <1>5, <1>6, <1>8 DEF Right
<1>10. \A e \in Client : OK(B, e, {}) => OK(R, e, {})
  BY <1>1, <1>4, <1>9 DEF OK, Aware, Sound, Queued, Tally
<1> QED
  BY <1>1, <1>2, <1>3, <1>10 DEF Keeps, R

(* The place of a new event source is in the list or at its end.            *)
LEMMA PlaceIs ==
  ASSUME NEW B \in Bus, NEW pat, NEW o \in ObjId, pat \in Pattern
  PROVE  LET before == {i \in 1..Len(B.patterns) : Rank[B.patterns[i][2]] <= Rank[pat]}
             r == InsertAt(B.patterns, Cardinality(before) + 1, <<o, pat>>)
         IN  /\ r \in Seq(ObjId \X Pattern)
             /\ ToSet(r) = ToSet(B.patterns) \cup {<<o, pat>>}
<1> DEFINE s == B.patterns
           before == {i \in 1..Len(s) : Rank[s[i][2]] <= Rank[pat]}
           n == Cardinality(before)
           x == <<o, pat>>
           T == ObjId \X Pattern
<1>1. s \in Seq(T) /\ Len(s) \in Nat /\ x \in T
  BY LenProperties DEF Bus
<1>2. IsFiniteSet(1..Len(s)) /\ Cardinality(1..Len(s)) = Len(s)
  <2>1. 0 \in Int /\ 1 \in Int /\ Len(s) \in Int
    BY <1>1
  <2> HIDE DEF s
  <2>2. IsFiniteSet(1..Len(s)) /\ Cardinality(1..Len(s)) = IF 1 > Len(s) THEN 0 ELSE Len(s) - 1 + 1
    BY <2>1, FS_Interval
  <2> QED
    BY <1>1, <2>2
<1>3. before \subseteq 1..Len(s)
  OBVIOUS
<1> HIDE DEF before, s, x, T
<1>4. n \in Nat /\ n <= Len(s)
  <2>1. IsFiniteSet(before) /\ Cardinality(before) <= Cardinality(1..Len(s))
    BY <1>2, <1>3, FS_Subset
  <2>2. n \in Nat
    BY <2>1, FS_CardinalityType
  <2> QED
    BY <1>2, <2>1, <2>2
<1>5. n \in 0..Len(s)
  BY <1>1, <1>4
<1> HIDE DEF n
<1>6. InsertAt(s, n + 1, x) \in Seq(T) /\ ToSet(InsertAt(s, n + 1, x)) = ToSet(s) \cup {x}
  BY <1>1, <1>5, InsertIs
<1> QED
  BY <1>6 DEF before, s, x, T, n

Joined(B, c) == [B EXCEPT !.clients = @ \cup {c}]

(* A connection.                                                            *)
LEMMA JoinIs ==
  ASSUME NEW B \in Bus, TablesOK(B), NEW c \in Client
  PROVE  LET R == Joined(B, c)
         IN  /\ Keeps(B, R) /\ R.clients = B.clients \cup {c}
             /\ R.objects = B.objects /\ R.path = B.path
             /\ R.obj_types = B.obj_types /\ R.subs = B.subs /\ R.patterns = B.patterns
<1> DEFINE R == Joined(B, c)
<1>1. /\ R \in Bus /\ R.clients = B.clients \cup {c}
      /\ R.objects = B.objects /\ R.path = B.path
      /\ R.obj_types = B.obj_types /\ R.subs = B.subs /\ R.patterns = B.patterns /\ R.owned = B.owned
      /\ R.tx = B.tx /\ R.view = B.view /\ R.lost = B.lost /\ R.stray = B.stray /\ R.taken = B.taken
  BY DEF Bus, Joined
<1> HIDE DEF R
<1>2. TablesOK(R)
  BY <1>1 DEF TablesOK, ObjectsOK, PathOK, TypesOK, UsersOf, SubsOK, PatternsOK, OwnedOK
<1>3. \A e \in Client : OK(B, e, {}) => OK(R, e, {})
  <2>1. \A e : Own(R, e) = Own(B, e) /\ Watches(R, e, {}) = Watches(B, e, {})
    BY <1>1 DEF Own, Watches
  <2>2. \A v, e : RightTypes(B, v, e, {}) => RightTypes(R, v, e, {})
    BY <1>1 DEF RightTypes, Sole
  <2>3. \A v, e : RightSeen(B, v, e, {}) => RightSeen(R, v, e, {})
    BY <1>1, <2>1 DEF RightSeen, Hears, Tracks
  <2>4. \A v, e : Right(B, v, e, {}) => Right(R, v, e, {})
    BY <1>1, <2>1, <2>2, <2>3 DEF Right, Watched
  <2> QED
    BY <1>1, <2>1, <2>4 DEF OK, Aware, Sound, Queued, Tally
<1> QED
  BY <1>1, <1>2, <1>3 DEF Keeps, R

SetTx(B, tx) == [B EXCEPT !.tx = tx]

(* A shorter queue.                                                         *)
LEMMA DrainIs ==
  ASSUME NEW B \in Bus, TablesOK(B), NEW tx \in [Client -> Nat], \A e \in Client : tx[e] <= B.tx[e]
  PROVE  LET R == SetTx(B, tx)
         IN  Quiet(B, R) /\ R.view = B.view /\ R.lost = B.lost /\ R.stray = B.stray /\ R.taken = B.taken
<1> DEFINE R == SetTx(B, tx)
<1>1. /\ R \in Bus /\ SameTables(B, R) /\ R.clients = B.clients /\ R.tx = tx
      /\ R.view = B.view /\ R.lost = B.lost /\ R.stray = B.stray /\ R.taken = B.taken
  BY DEF Bus, SetTx, SameTables
<1> HIDE DEF R
<1>2. TablesOK(R) /\ (\A v, c, X : Right(R, v, c, X) <=> Right(B, v, c, X))
      /\ \A c, X : Watches(R, c, X) = Watches(B, c, X)
  BY <1>1, TablesDecide
<1>3. \A e \in Client : Queued(B, e) => Queued(R, e)
  BY <1>1, SizesAssumption DEF Queued, Bus
<1>4. \A e \in Client : OK(B, e, {}) => OK(R, e, {})
  BY <1>1, <1>2, <1>3 DEF OK, Aware, Sound, Tally
<1> QED
  BY <1>1, <1>2, <1>4 DEF Quiet, Keeps, R

----------------------------------------------------------------------------
(* Disconnecting.                                                           *)

(* An element that a list has once is at one place in it.                   *)
LEMMA OnePlace ==
  ASSUME NEW s, NEW e, Count(s, e) = 1, Len(s) \in Nat,
         NEW i \in 1..Len(s), NEW j \in 1..Len(s), s[i] = e, s[j] = e
  PROVE  i = j
<1> DEFINE I == {k \in 1..Len(s) : s[k] = e}
<1>1. i \in I /\ j \in I /\ I \subseteq 1..Len(s)
  OBVIOUS
<1>2. Cardinality(I) = 1
  BY DEF Count
<1> HIDE DEF I
<1>3. IsFiniteSet(I)
  BY <1>1, FiniteIndices
<1>4. PICK x : I = {x}
  BY <1>2, <1>3, FS_Singleton
<1> QED
  BY <1>1, <1>4

\* The objects D are gone, with all that the tables have of them.
Cleared(B, R, D) ==
    /\ (Null \in R.stray <=> Null \in B.stray) /\ (Null \in R.lost <=> Null \in B.lost)
    /\ R.clients = B.clients
    /\ R.objects = [x \in ObjId |-> IF x \in D THEN Registry!NoObject ELSE B.objects[x]]
    /\ R.path = [p \in Path |-> IF B.path[p] \in D THEN Null ELSE B.path[p]]
    /\ \A x \in Pairs : Count(R.subs, x) = IF x[1] \in D \/ x[2] \in D THEN 0 ELSE Count(B.subs, x)
    /\ ToSet(R.patterns) = {op \in ToSet(B.patterns) : op[1] \notin D}

(* One more object is gone.                                                 *)
LEMMA ClearedMore ==
  ASSUME NEW B \in Bus, NEW P \in Bus, NEW R, NEW D \in SUBSET ObjId, NEW o \in ObjId, NEW E,
         Cleared(B, P, D), Freed(P, R, o), E = D \cup {o}
  PROVE  Cleared(B, R, E)
<1>1. R.objects = [x \in ObjId |-> IF x \in E THEN Registry!NoObject ELSE B.objects[x]]
  BY DEF Cleared, Freed
<1>2. R.path = [p \in Path |-> IF B.path[p] \in E THEN Null ELSE B.path[p]]
  <2>1. \A p \in Path : P.path[p] = IF B.path[p] \in D THEN Null ELSE B.path[p]
    BY DEF Cleared
  <2>2. Null \notin ObjId
    BY IdsAssumption
  <2>3. \A p \in Path : (IF P.path[p] = o THEN Null ELSE P.path[p])
                        = IF B.path[p] \in E THEN Null ELSE B.path[p]
    BY <2>1, <2>2
  <2>4. R.path = [p \in Path |-> IF P.path[p] = o THEN Null ELSE P.path[p]]
    BY DEF Freed
  <2> QED
    BY <2>3, <2>4
<1>3. ASSUME NEW x \in Pairs
      PROVE  Count(R.subs, x) = IF x[1] \in E \/ x[2] \in E THEN 0 ELSE Count(B.subs, x)
  <2>1. Count(R.subs, x) = IF x[1] = o \/ x[2] = o THEN 0 ELSE Count(P.subs, x)
    BY DEF Freed
  <2>2. Count(P.subs, x) = IF x[1] \in D \/ x[2] \in D THEN 0 ELSE Count(B.subs, x)
    BY DEF Cleared
  <2> QED
    BY <2>1, <2>2
<1>4. ToSet(R.patterns) = {op \in ToSet(B.patterns) : op[1] \notin E}
  BY DEF Cleared, Freed, Others
<1> QED
  BY <1>1, <1>2, <1>3, <1>4 DEF Cleared, Freed

\* What the loop of handle_client_disconnect keeps, for the others.
Spares(B, R, d, D) ==
    /\ R \in Bus /\ TablesOK(R) /\ Cleared(B, R, D)
    /\ \A e \in Client \ {d} : OK(B, e, {}) => OK(R, e, {})

(* One round of it.                                                         *)
LEMMA SparesMore ==
  ASSUME NEW B \in Bus, NEW P, NEW d \in Client, NEW D \in SUBSET ObjId, Spares(B, P, d, D),
         NEW o \in ObjId, o \notin D, B.objects[o].client = d, NEW E, E = D \cup {o}
  PROVE  /\ P \in Bus /\ TablesOK(P) /\ P.objects[o].client # Null
         /\ Spares(B, ubusd_free_object(P, o), d, E)
<1> DEFINE R == ubusd_free_object(P, o)
<1>1. P \in Bus /\ TablesOK(P) /\ Cleared(B, P, D)
  BY DEF Spares
<1>2. P.objects[o] = B.objects[o]
  BY <1>1 DEF Cleared
<1>3. P.objects[o].client = d /\ d # Null
  BY <1>2, IdsAssumption
<1>4. R \in Bus /\ TablesOK(R) /\ Freed(P, R, o)
      /\ \A e \in Client : OK(P, e, Dying(o)) => OK(R, e, {})
  BY <1>1, <1>3, FreeIs
<1> HIDE DEF R
<1>5. Cleared(B, R, E)
  BY <1>1, <1>4, ClearedMore
<1>6. ASSUME NEW e \in Client \ {d}, OK(B, e, {}) PROVE OK(R, e, {})
  <2>1. OK(P, e, {})
    BY <1>6 DEF Spares
  <2>2. OK(P, e, Dying(o))
    BY <1>1, <1>3, <2>1, StrangerOK
  <2> QED
    BY <1>4, <2>2
<1>7. Spares(B, R, d, E)
  BY <1>4, <1>5, <1>6 DEF Spares
<1> QED
  BY <1>1, <1>3, <1>7 DEF R

\* The first n elements of s.
Begin(s, n) == {s[j] : j \in 1..n}

(* The objects of a client, one after the other.                            *)
LEMMA FreeAllIs ==
  ASSUME NEW B \in Bus, TablesOK(B), NEW d \in Client, NEW s, s = B.owned[d]
  PROVE  Spares(B, ForEach(ubusd_free_object, B, s), d, Own(B, d))
<1> DEFINE Free(X, o) == ubusd_free_object(X, o)
           run == CHOOSE h : h = [i \in 0..Len(s) |-> IF i = 0 THEN B ELSE Free(h[i - 1], s[i])]
           S == {X \in Bus : TablesOK(X)}
           May(X, o) == IF X.objects[o].client # Null THEN Free(X, o) ELSE X
           f == [z \in S \X ObjId |-> May(z[1], z[2])]
<1>1. ForEach(ubusd_free_object, B, s) = run[Len(s)]
  BY DEF ForEach
<1>2. s \in Seq(ObjId) /\ Len(s) \in Nat /\ \A i \in 1..Len(s) : s[i] \in ObjId
  BY LenProperties, ElementOfSeq DEF Bus
<1>3. f \in [S \X ObjId -> S] /\ B \in S /\ \A X \in S, o \in ObjId : f[<<X, o>>] = May(X, o)
  <2>1. ASSUME NEW X \in S, NEW o \in ObjId PROVE May(X, o) \in S
    <3>1. X \in Bus /\ TablesOK(X)
      OBVIOUS
    <3>2. X.objects[o].client # Null => Free(X, o) \in Bus /\ TablesOK(Free(X, o))
      BY <3>1, FreeIs
    <3> HIDE DEF Free
    <3> QED
      BY <3>1, <3>2
  <2>2. B \in S
    OBVIOUS
  <2> HIDE DEF May, S
  <2> QED
    BY <2>1, <2>2
<1>4. PICK g : IsRun(g, f, B, s, S)
  <2> HIDE DEF f, S
  <2> QED
    BY <1>2, <1>3, Unroll
<1>5. \A i \in 1..Len(s) : g[i] = May(g[i - 1], s[i])
  <2>1. \A i \in 1..Len(s) : i - 1 \in 0..Len(s)
    BY <1>2
  <2> HIDE DEF f, S, May
  <2> QED
    BY <1>2, <1>3, <1>4, <2>1 DEF IsRun
<1>6. \A i \in 1..Len(s) : B.objects[s[i]].client = d /\ \A j \in 1..Len(s) : s[i] = s[j] => i = j
  <2> SUFFICES ASSUME NEW i \in 1..Len(s)
               PROVE  B.objects[s[i]].client = d /\ \A j \in 1..Len(s) : s[i] = s[j] => i = j
    OBVIOUS
  <2>1. Count(s, s[i]) > 0 /\ Count(s, s[i]) = IF B.objects[s[i]].client = d THEN 1 ELSE 0
    BY <1>2, CountIs DEF TablesOK, OwnedOK
  <2>2. B.objects[s[i]].client = d /\ Count(s, s[i]) = 1
    BY <2>1
  <2> QED
    BY <1>2, <2>2, OnePlace
<1> DEFINE Now(i) == Spares(B, g[i], d, Begin(s, i))
<1>7. Now(0)
  <2>1. Begin(s, 0) = {}
    BY DEF Begin
  <2>2. Cleared(B, B, {})
    <3>1. B.objects = [x \in ObjId |-> B.objects[x]] /\ B.path = [p \in Path |-> B.path[p]]
      BY DEF Bus
    <3>2. B.objects = [x \in ObjId |-> IF x \in {} THEN Registry!NoObject ELSE B.objects[x]]
      BY <3>1
    <3>3. B.path = [p \in Path |-> IF B.path[p] \in {} THEN Null ELSE B.path[p]]
      BY <3>1
    <3> QED
      BY <3>2, <3>3 DEF Cleared
  <2>3. g[0] = B
    BY <1>4 DEF IsRun
  <2> QED
    BY <2>1, <2>2, <2>3 DEF Spares
<1>8. ASSUME NEW i \in 1..Len(s), Now(i - 1)
      PROVE  Now(i) /\ g[i] = Free(g[i - 1], s[i])
  <2> DEFINE D == Begin(s, i - 1)
             E == Begin(s, i)
             o == s[i]
             P == g[i - 1]
  <2>1. o \in ObjId /\ B.objects[o].client = d
    BY <1>2, <1>6
  <2>2. \A j \in 1..(i - 1) : j \in 1..Len(s) /\ j # i
    BY <1>2
  <2>3. D \in SUBSET ObjId /\ o \notin D
    BY <1>2, <1>6, <2>2 DEF Begin
  <2>4. E = D \cup {o}
    <3>1. 1..i = 1..(i - 1) \cup {i}
      BY <1>2
    <3> QED
      BY <3>1 DEF Begin
  <2>5. g[i] = May(P, o)
    BY <1>5
  <2> HIDE DEF D, E, o, P
  <2>6. Spares(B, P, d, D)
    BY <1>8 DEF D, P
  <2>7. P.objects[o].client # Null /\ Spares(B, ubusd_free_object(P, o), d, E)
    BY <2>1, <2>3, <2>4, <2>6, SparesMore
  <2>8. g[i] = ubusd_free_object(P, o)
    BY <2>5, <2>7
  <2> QED
    BY <2>7, <2>8 DEF E, P, o
<1> HIDE DEF Free, f, S, May
<1>9. \A i \in 0..Len(s) : Now(i)
  <2> DEFINE Good == {i \in 0..Len(s) : Now(i)}
  <2>1. 0 \in Good /\ \A i \in 1..Len(s) : i - 1 \in Good => i \in Good
    <3> HIDE DEF Now
    <3> QED
      BY <1>2, <1>7, <1>8
  <2> HIDE DEF Good
  <2>2. \A i \in 0..Len(s) : i \in Good
    BY <1>2, <2>1, Rounds
  <2> QED
    BY <2>2 DEF Good
<1>10. g = [i \in 0..Len(s) |-> IF i = 0 THEN B ELSE Free(g[i - 1], s[i])]
  <2> HIDE DEF Now
  <2>1. \A i \in 0..Len(s) : i # 0 => i \in 1..Len(s) /\ i - 1 \in 0..Len(s)
    BY <1>2
  <2>2. \A i \in 0..Len(s) : g[i] = IF i = 0 THEN B ELSE Free(g[i - 1], s[i])
    BY <1>4, <1>8, <1>9, <2>1 DEF IsRun
  <2> QED
    BY <1>4, <2>2 DEF IsRun
<1>11. run = [i \in 0..Len(s) |-> IF i = 0 THEN B ELSE Free(run[i - 1], s[i])]
  BY <1>10
<1> HIDE DEF run
<1>12. run[Len(s)] = g[Len(s)]
  <2> DEFINE Good == {i \in 0..Len(s) : run[i] = g[i]}
  <2>1. 0 \in 0..Len(s) /\ \A i \in 1..Len(s) : i \in 0..Len(s) /\ i # 0
    BY <1>2
  <2>2. 0 \in Good
    <3>1. g[0] = B
      BY <1>4 DEF IsRun
    <3>2. run[0] = B
      BY <1>11, <2>1
    <3> QED
      BY <2>1, <3>1, <3>2
  <2>3. ASSUME NEW i \in 1..Len(s), i - 1 \in Good PROVE i \in Good
    <3>1. run[i - 1] = g[i - 1]
      BY <2>3
    <3>2. run[i] = Free(run[i - 1], s[i]) /\ g[i] = Free(g[i - 1], s[i])
      BY <1>10, <1>11, <2>1
    <3> QED
      BY <2>1, <3>1, <3>2
  <2> HIDE DEF Good
  <2>4. \A i \in 0..Len(s) : i \in Good
    BY <1>2, <2>2, <2>3, Rounds
  <2> QED
    BY <1>2, <2>4 DEF Good
<1>13. Begin(s, Len(s)) = Own(B, d)
  <2>1. ASSUME NEW o \in Own(B, d) PROVE \E i \in 1..Len(s) : s[i] = o
    <3>1. o \in ObjId /\ Count(s, o) = 1
      BY DEF Own, TablesOK, OwnedOK
    <3> QED
      BY <1>2, <3>1, CountIs
  <2> QED
    BY <1>2, <1>6, <2>1 DEF Begin, Own
<1> QED
  BY <1>1, <1>2, <1>9, <1>12, <1>13

\* handle_client_disconnect after the loop.
Leave(B, d) ==
    [B EXCEPT !.clients = @ \ {d}, !.tx[d] = 0, !.lost = @ \ {d}, !.view[d] = NoView,
              !.stray = @ \ {d}, !.taken = {x \in @ : x[1] # d}]

(* A client that has no objects goes.                                       *)
LEMMA LeaveIs ==
  ASSUME NEW B \in Bus, TablesOK(B), NEW d \in Client, Own(B, d) = {}
  PROVE  LET R == Leave(B, d)
         IN  /\ R \in Bus /\ TablesOK(R)
             /\ (Null \in R.stray <=> Null \in B.stray) /\ (Null \in R.lost <=> Null \in B.lost)
             /\ R.clients = B.clients \ {d}
             /\ R.objects = B.objects /\ R.path = B.path
             /\ R.subs = B.subs /\ R.patterns = B.patterns
             /\ OK(R, d, {})
             /\ \A e \in Client \ {d} : OK(B, e, {}) => OK(R, e, {})
<1> DEFINE R == Leave(B, d)
           view == [B.view EXCEPT ![d] = NoView]
           tx == [B.tx EXCEPT ![d] = 0]
           taken == {x \in B.taken : x[1] # d}
<1>t. taken \in SUBSET (Client \X TypeId) /\ \A e \in Client \ {d}, t \in TypeId : <<e, t>> \in taken <=> <<e, t>> \in B.taken
  BY DEF Bus
<1>1. view \in [Client -> View] /\ view[d] = NoView /\ \A e \in Client \ {d} : view[e] = B.view[e]
  BY NoViewIs DEF Bus
<1>2. tx \in [Client -> Nat] /\ tx[d] = 0 /\ \A e \in Client \ {d} : tx[e] = B.tx[e]
  BY DEF Bus
<1>3. R = [B EXCEPT !.clients = B.clients \ {d}, !.tx = tx, !.lost = B.lost \ {d}, !.view = view,
                    !.stray = B.stray \ {d}, !.taken = taken]
  BY DEF Leave, Bus
<1> HIDE DEF view, tx, taken
<1>4. /\ R \in Bus /\ R.clients = B.clients \ {d} /\ R.taken = taken
      /\ R.objects = B.objects /\ R.path = B.path
      /\ R.obj_types = B.obj_types /\ R.subs = B.subs /\ R.patterns = B.patterns /\ R.owned = B.owned
      /\ R.tx = tx /\ R.view = view /\ R.lost = B.lost \ {d} /\ R.stray = B.stray \ {d}
  BY <1>t, <1>1, <1>2, <1>3, ZenonT(60) DEF Bus
<1> HIDE DEF R
<1>5. Null # d
  BY IdsAssumption
<1>6. TablesOK(R)
  <2>1. ObjectsOK(R)
    <3>1. \A o \in ObjId : B.objects[o].client # d
      BY DEF Own
    <3> QED
      BY <1>4, <3>1 DEF TablesOK, ObjectsOK
  <2> QED
    BY <1>4, <2>1 DEF TablesOK, PathOK, TypesOK, UsersOf, SubsOK, PatternsOK, OwnedOK
<1>7. \A e : Own(R, e) = Own(B, e) /\ Watches(R, e, {}) = Watches(B, e, {})
  BY <1>4 DEF Own, Watches
<1>8. OK(R, d, {})
  <2>1. d \notin R.stray /\ d \notin R.lost /\ R.view[d] = NoView /\ Queued(R, d)
    BY <1>1, <1>2, <1>4, SizesAssumption DEF Queued
  <2>2. Own(R, d) = {}
    BY <1>7
  <2>3. Right(R, NoView, d, {})
    BY <2>2 DEF Right, RightTypes, Sole, RightSeen, NoView
  <2>4. Watches(R, d, {}) = [st \in Pairs |-> 0]
    BY <2>2 DEF Watches
  <2>5. NoView.watch = [st \in Pairs |-> 0]
    BY DEF NoView, Pairs
  <2> QED
    BY <2>1, <2>3, <2>4, <2>5 DEF OK, Aware, Sound, Tally
<1>9. ASSUME NEW e \in Client \ {d}, OK(B, e, {}) PROVE OK(R, e, {})
  <2>1. \A v \in View : RightTypes(B, v, e, {}) => RightTypes(R, v, e, {})
    <3>1. \A v \in View : Sole(R, v, e) = Sole(B, v, e)
      BY <1>t, <1>4 DEF Sole, View
    <3> QED
      BY <1>4, <3>1 DEF RightTypes
  <2>2. \A v : RightSeen(B, v, e, {}) => RightSeen(R, v, e, {})
    BY <1>4, <1>7 DEF RightSeen, Hears, Tracks
  <2>3. \A v \in View : Right(B, v, e, {}) => Right(R, v, e, {})
    BY <1>4, <1>7, <2>1, <2>2 DEF Right, Watched
  <2>4. /\ R.view[e] = B.view[e] /\ B.view[e] \in View /\ R.tx[e] = B.tx[e] /\ (e \in R.clients <=> e \in B.clients)
        /\ (e \in R.lost <=> e \in B.lost) /\ (e \in R.stray <=> e \in B.stray)
    BY <1>1, <1>2, <1>4 DEF Bus
  <2> QED
    BY <1>7, <1>9, <2>3, <2>4 DEF OK, Aware, Sound, Queued, Tally
<1> QED
  BY <1>4, <1>5, <1>6, <1>8, <1>9 DEF R

\* A client is gone, with its objects.
Departed(B, R, d) ==
    /\ R.clients = B.clients \ {d}
    /\ R.objects = [x \in ObjId |-> IF x \in Own(B, d) THEN Registry!NoObject ELSE B.objects[x]]
    /\ R.path = [p \in Path |-> IF B.path[p] \in Own(B, d) THEN Null ELSE B.path[p]]
    /\ \A x \in Pairs : Count(R.subs, x) =
         IF x[1] \in Own(B, d) \/ x[2] \in Own(B, d) THEN 0 ELSE Count(B.subs, x)
    /\ ToSet(R.patterns) = {op \in ToSet(B.patterns) : op[1] \notin Own(B, d)}

(* A disconnect, whole.                                                     *)
LEMMA DisconnectIsSound ==
  ASSUME NEW B \in Bus, TablesOK(B), NEW d \in Client
  PROVE  LET R == Leave(ForEach(ubusd_free_object, [B EXCEPT !.tx[d] = 0], B.owned[d]), d)
         IN  Keeps(B, R) /\ Departed(B, R, d)
<1> DEFINE tx == [B.tx EXCEPT ![d] = 0]
           C == SetTx(B, tx)
           D == Own(B, d)
           Q == ForEach(ubusd_free_object, C, B.owned[d])
           R == Leave(Q, d)
<1>1. [B EXCEPT !.tx[d] = 0] = C
  BY DEF Bus, SetTx
<1>2. tx \in [Client -> Nat] /\ \A e \in Client : tx[e] <= B.tx[e]
  BY DEF Bus
<1> HIDE DEF tx
<1>3. Quiet(B, C)
  BY <1>2, DrainIs
<1> HIDE DEF C
<1>4. C \in Bus /\ TablesOK(C) /\ SameTables(B, C) /\ C.owned[d] = B.owned[d] /\ Own(C, d) = D
      /\ \A e \in Client : OK(B, e, {}) => OK(C, e, {})
  BY <1>3 DEF Quiet, Keeps, SameTables, Own
<1>5. Spares(C, Q, d, D)
  BY <1>4, FreeAllIs
<1> HIDE DEF Q, D
<1>6. Q \in Bus /\ TablesOK(Q) /\ Cleared(C, Q, D)
      /\ \A e \in Client \ {d} : OK(C, e, {}) => OK(Q, e, {})
  BY <1>5 DEF Spares
<1>7. Own(Q, d) = {}
  <2>1. Q.objects = [x \in ObjId |-> IF x \in D THEN Registry!NoObject ELSE C.objects[x]]
    BY <1>6 DEF Cleared
  <2>2. d # Null /\ Registry!NoObject.client = Null
    BY IdsAssumption, NoObjectIs
  <2>3. \A x \in ObjId : x \notin D => C.objects[x].client # d
    BY <1>4 DEF Own
  <2> QED
    BY <2>1, <2>2, <2>3 DEF Own
<1>8. /\ R \in Bus /\ TablesOK(R)
      /\ (Null \in R.stray <=> Null \in Q.stray) /\ (Null \in R.lost <=> Null \in Q.lost)
      /\ R.clients = Q.clients \ {d}
      /\ R.objects = Q.objects /\ R.path = Q.path
      /\ R.subs = Q.subs /\ R.patterns = Q.patterns
      /\ OK(R, d, {})
      /\ \A e \in Client \ {d} : OK(Q, e, {}) => OK(R, e, {})
  BY <1>6, <1>7, LeaveIs
<1> HIDE DEF R
<1>9. \A e \in Client : OK(B, e, {}) => OK(R, e, {})
  BY <1>4, <1>6, <1>8
<1>10. Keeps(B, R)
  BY <1>4, <1>6, <1>8, <1>9 DEF Keeps, SameTables, Cleared
<1>11. Departed(B, R, d)
  BY <1>4, <1>6, <1>8 DEF Departed, SameTables, Cleared, D
<1> QED
  BY <1>1, <1>10, <1>11 DEF R, Q

----------------------------------------------------------------------------
(* The handlers, one by one.                                                *)

SameObjects(B, R) ==
    R.objects = B.objects /\ R.path = B.path /\ R.obj_types = B.obj_types

\* What a step does to the tables.
Joins(B, R) ==
    \E c \in Client : /\ c \notin B.clients /\ R.clients = B.clients \cup {c}
                      /\ SameObjects(B, R) /\ R.subs = B.subs /\ R.patterns = B.patterns
Departs(B, R) == \E c \in Client : c \in B.clients /\ Departed(B, R, c)
Creates(B, R) ==
    \E c \in Client, o \in ObjId, p \in Path \cup {Null}, t \in TypeId \cup {Null} :
      Creatable(B, c, o, p, t) /\ Created(B, R, c, o, p, t)
Frees(B, R) == \E o \in ObjId : B.objects[o].client # Null /\ Freed(B, R, o)
Subscribes(B, R) ==
    \E st \in Pairs :
      /\ B.objects[st[1]].client # Null /\ B.objects[st[2]].client # Null
      /\ B.objects[st[1]].client # B.objects[st[2]].client
      /\ Count(B.subs, st) < MaxSub
      /\ Recounted(B, R, st, 1)
Unsubscribes(B, R) == \E st \in Pairs : Count(B.subs, st) > 0 /\ Recounted(B, R, st, -1)
Registers(B, R) ==
    \E op \in ObjId \X Pattern : B.objects[op[1]].client # Null /\ Registered(B, R, op)

Moves(B, R) ==
    \/ SameTables(B, R) \/ Joins(B, R) \/ Departs(B, R) \/ Creates(B, R) \/ Frees(B, R)
    \/ Subscribes(B, R) \/ Unsubscribes(B, R) \/ Registers(B, R)

Steps(B, R) == Keeps(B, R) /\ Moves(B, R)

(* Messages alone.                                                          *)
LEMMA QuietSteps ==
  ASSUME NEW B, NEW R, Quiet(B, R)
  PROVE  Steps(B, R)
BY DEF Quiet, Steps, Moves

(* The message at the end of a step.                                        *)
LEMMA StepsThen ==
  ASSUME NEW B, NEW C, NEW R, Steps(B, C), Quiet(C, R)
  PROVE  Steps(B, R)
<1>1. Keeps(B, R)
  BY KeepsTrans DEF Steps, Quiet
<1>2. SameTables(C, R) /\ Moves(B, C)
  BY DEF Steps, Quiet
<1>3. CASE SameTables(B, C)
  BY <1>1, <1>2, <1>3 DEF SameTables, Moves, Steps
<1>4. CASE Joins(B, C)
  <2>1. Joins(B, R)
    BY <1>2, <1>4 DEF Joins, SameTables, SameObjects
  <2> QED
    BY <1>1, <2>1 DEF Moves, Steps
<1>5. CASE Departs(B, C)
  <2>1. Departs(B, R)
    BY <1>2, <1>5 DEF Departs, SameTables, Departed
  <2> QED
    BY <1>1, <2>1 DEF Moves, Steps
<1>6. CASE Creates(B, C)
  <2>1. Creates(B, R)
    BY <1>2, <1>6 DEF Creates, SameTables, Created
  <2> QED
    BY <1>1, <2>1 DEF Moves, Steps
<1>7. CASE Frees(B, C)
  <2>1. Frees(B, R)
    BY <1>2, <1>7 DEF Frees, SameTables, Freed
  <2> QED
    BY <1>1, <2>1 DEF Moves, Steps
<1>8. CASE Subscribes(B, C)
  <2>1. Subscribes(B, R)
    BY <1>2, <1>8 DEF Subscribes, SameTables, Recounted, OtherTables
  <2> QED
    BY <1>1, <2>1 DEF Moves, Steps
<1>9. CASE Unsubscribes(B, C)
  <2>1. Unsubscribes(B, R)
    BY <1>2, <1>9 DEF Unsubscribes, SameTables, Recounted, OtherTables
  <2> QED
    BY <1>1, <2>1 DEF Moves, Steps
<1>10. CASE Registers(B, C)
  <2>1. Registers(B, R)
    BY <1>2, <1>10 DEF Registers, SameTables, Registered
  <2> QED
    BY <1>1, <2>1 DEF Moves, Steps
<1> QED
  BY <1>2, <1>3, <1>4, <1>5, <1>6, <1>7, <1>8, <1>9, <1>10 DEF Moves

\* The inductive invariant: the tables are consistent, and what the messages
\* told every client is right.
Inv ==
    /\ bus \in Bus /\ TablesOK(bus) /\ Null \notin bus.stray \cup bus.lost
    /\ \A c \in Client : OK(bus, c, {})

(* An error is a status and nothing more.                                   *)
LEMMA Refused ==
  ASSUME NEW B \in Bus, TablesOK(B), NEW c \in Client, c \in B.clients, NEW req, NEW ret,
         ret # "OK" \/ req[1] \notin {"SUBSCRIBE", "UNSUBSCRIBE"}
  PROVE  Steps(B, Return(B, c, req, ret))
BY QuietReturn, QuietSteps

(* ubusd_send_pong.                                                         *)
LEMMA PongStep ==
  ASSUME Inv, NEW c \in Client, ubusd_send_pong(c)
  PROVE  Steps(bus, bus')
<1> DEFINE m == Data(<<"PING">>, Null, Null)
           C == ubus_msg_send(bus, c, m)
<1>1. bus \in Bus /\ TablesOK(bus) /\ c \in bus.clients /\ bus' = Return(C, c, <<"PING">>, "OK")
  BY DEF Inv, ubusd_send_pong, Request
<1>2. Neutral(m)
  BY OthersNeutral
<1> HIDE DEF m
<1>3. Quiet(bus, C)
  BY <1>1, <1>2, QuietSend
<1> HIDE DEF C
<1>4. C \in Bus /\ TablesOK(C) /\ c \in C.clients
  BY <1>1, <1>3 DEF Quiet, Keeps, SameTables
<1>5. <<"PING">>[1] \notin {"SUBSCRIBE", "UNSUBSCRIBE"}
  OBVIOUS
<1>6. Quiet(C, bus')
  BY <1>1, <1>4, <1>5, QuietReturn
<1> QED
  BY <1>3, <1>6, QuietSteps, StepsThen

Take(B, c, t) == [B EXCEPT !.taken = @ \cup (Told(B, c, t) \X {t})]

(* Naming a type takes it from those who were told of it.                   *)
LEMMA TakeIs ==
  ASSUME NEW B \in Bus, TablesOK(B), NEW c \in Client, NEW t \in TypeId
  PROVE  LET R == Take(B, c, t)
         IN  /\ Keeps(B, R) /\ Marked(R, c, t)
             /\ R.clients = B.clients /\ R.objects = B.objects /\ R.path = B.path
             /\ R.obj_types = B.obj_types /\ R.subs = B.subs /\ R.patterns = B.patterns
<1> DEFINE R == Take(B, c, t)
           taken == B.taken \cup (Told(B, c, t) \X {t})
<1>0. taken \in SUBSET (Client \X TypeId)
  BY DEF Bus, Told
<1>1. /\ R \in Bus /\ R.taken = taken
      /\ R.clients = B.clients /\ R.objects = B.objects /\ R.path = B.path
      /\ R.obj_types = B.obj_types /\ R.subs = B.subs /\ R.patterns = B.patterns /\ R.owned = B.owned
      /\ R.tx = B.tx /\ R.view = B.view /\ R.lost = B.lost /\ R.stray = B.stray
  <2>1. R = [B EXCEPT !.taken = taken]
    BY DEF Take
  <2> HIDE DEF R, taken
  <2> QED
    BY <1>0, <2>1 DEF Bus
<1> HIDE DEF R
<1>2. TablesOK(R)
  BY <1>1 DEF TablesOK, ObjectsOK, PathOK, TypesOK, UsersOf, SubsOK, PatternsOK, OwnedOK
<1>3. \A v, e : Sole(R, v, e) \subseteq Sole(B, v, e)
  BY <1>1 DEF Sole
<1>4. \A v, e : RightTypes(B, v, e, {}) => RightTypes(R, v, e, {})
  BY <1>1, <1>3 DEF RightTypes
<1>5. \A e : Own(R, e) = Own(B, e) /\ Watches(R, e, {}) = Watches(B, e, {})
  BY <1>1 DEF Own, Watches
<1>6. \A v, e : RightSeen(B, v, e, {}) => RightSeen(R, v, e, {})
  BY <1>1, <1>5 DEF RightSeen, Hears, Tracks
<1>7. \A v, e : Right(B, v, e, {}) => Right(R, v, e, {})
  BY <1>1, <1>4, <1>5, <1>6 DEF Right, Watched
<1>8. \A e \in Client : OK(B, e, {}) => OK(R, e, {})
  BY <1>1, <1>5, <1>7 DEF OK, Aware, Sound, Queued, Tally
<1>9. Marked(R, c, t)
  <2> SUFFICES ASSUME NEW e \in Client \ {c}, t \in R.view[e].types PROVE <<e, t>> \in taken
    BY <1>1 DEF Marked, Sole
  <2>1. e \in Told(B, c, t)
    BY <1>1 DEF Told
  <2> QED
    BY <2>1
<1> QED
  BY <1>1, <1>2, <1>8, <1>9 DEF Keeps, R

(* ubusd_handle_add_object: a type that the request names is taken from     *)
(* those who were told of it, and nobody was told of a new one, or holds it *)
(* still.                                                                   *)
LEMMA AddStep ==
  ASSUME Inv, NEW c \in Client, NEW o \in ObjId, NEW p \in Path \cup {Null}, NEW sig \in BOOLEAN,
         NEW t \in TypeId \cup {Null}, NEW acl \in BOOLEAN,
         ubusd_handle_add_object(c, o, p, sig, t, acl)
  PROVE  Steps(bus, bus')
<1> DEFINE refused == p # Null /\ (~acl \/ bus.path[p] # Null)
           a == IF sig THEN t ELSE Null
           B0 == IF sig \/ t = Null THEN bus ELSE Take(bus, c, t)
           B1 == ubusd_create_object(B0, c, o, p, t)
           B2 == ubus_msg_send(B1, c, Data(<<"ADD_OBJECT">>, o, a))
<1>1. /\ c \in bus.clients /\ ~IsLive(bus, o)
      /\ t # Null /\ sig => bus.obj_types[t] = 0
      /\ bus' = IF refused THEN Return(bus, c, <<"ADD_OBJECT">>, "INVALID_ARGUMENT")
                           ELSE Return(B2, c, <<"ADD_OBJECT">>, "OK")
  BY DEF ubusd_handle_add_object, Request, Take
<1>2. bus \in Bus /\ TablesOK(bus) /\ c \in bus.clients /\ \A e \in Client : OK(bus, e, {})
  BY <1>1 DEF Inv
<1>3. <<"ADD_OBJECT">>[1] \notin {"SUBSCRIBE", "UNSUBSCRIBE"}
  OBVIOUS
<1>4. CASE refused
  <2>1. bus' = Return(bus, c, <<"ADD_OBJECT">>, "INVALID_ARGUMENT")
    BY <1>1, <1>4
  <2> QED
    BY <1>2, <1>3, <2>1, Refused
<1>5. CASE ~refused
  <2>1. bus' = Return(B2, c, <<"ADD_OBJECT">>, "OK")
    BY <1>1, <1>5
  <2>2. a # Null => \A u \in ObjId : bus.objects[u].type # a
    <3> SUFFICES ASSUME sig, t # Null, NEW u \in ObjId PROVE bus.objects[u].type # t
      OBVIOUS
    <3>1. t \in TypeId
      OBVIOUS
    <3>2. Cardinality(UsersOf(bus, t)) = 0
      BY <1>1, <1>2, <3>1 DEF TablesOK, TypesOK
    <3>3. UsersOf(bus, t) = {}
      BY <3>2, UsersFinite, FS_EmptySet
    <3> QED
      BY <3>3 DEF UsersOf
  <2>3. ASSUME sig \/ t = Null PROVE Marked(bus, c, t)
    <3> SUFFICES ASSUME NEW e \in Client, t \in Sole(bus, bus.view[e], e) PROVE FALSE
      BY DEF Marked
    <3>1. t \in bus.view[e].types /\ bus.view[e] \in View
      BY <1>2 DEF Sole, Bus
    <3>2. t # Null
      BY <3>1, IdsAssumption DEF View
    <3>3. e \notin bus.lost
      BY <1>2, <3>1, NoViewIs DEF OK, Aware, Sound
    <3>4. RightTypes(bus, bus.view[e], e, {})
      BY <1>2, <3>3 DEF OK, Aware, Right
    <3>5. \E u \in ObjId : bus.objects[u].type = t
      BY <3>4 DEF RightTypes
    <3> QED
      BY <2>2, <2>3, <3>2, <3>5
  <2>4. /\ Keeps(bus, B0) /\ Marked(B0, c, t)
        /\ B0.clients = bus.clients /\ B0.objects = bus.objects /\ B0.path = bus.path
        /\ B0.obj_types = bus.obj_types /\ B0.subs = bus.subs /\ B0.patterns = bus.patterns
    <3>1. CASE sig \/ t = Null
      BY <1>2, <2>3, <3>1 DEF Keeps
    <3>2. CASE ~(sig \/ t = Null)
      <4>1. B0 = Take(bus, c, t) /\ t \in TypeId
        BY <3>2
      <4> QED
        BY <1>2, <4>1, TakeIs
    <3> QED
      BY <3>1, <3>2
  <2> HIDE DEF B0
  <2>10. Creatable(bus, c, o, p, t) /\ Creatable(B0, c, o, p, t)
    BY <1>1, <1>5, <2>4 DEF Creatable, IsLive
  <2>11. a \in {t, Null} /\ (a # Null => \A u \in ObjId : B0.objects[u].type # a)
    BY <2>2, <2>4
  <2> HIDE DEF a
  <2>12. Keeps(B0, B2) /\ Created(B0, B2, c, o, p, t)
    <3>1. B0 \in Bus /\ TablesOK(B0)
      BY <2>4 DEF Keeps
    <3> QED
      BY <2>4, <2>10, <2>11, <3>1, AddIsSound
  <2>5. Keeps(bus, B2) /\ Created(bus, B2, c, o, p, t)
    <3>1. Keeps(bus, B2)
      BY <2>4, <2>12, KeepsTrans
    <3>2. Created(bus, B2, c, o, p, t)
      BY <2>4, <2>12 DEF Created, NewObjects, NewPath, NewTypes
    <3> QED
      BY <3>1, <3>2
  <2> HIDE DEF B2
  <2>6. Creates(bus, B2)
    BY <2>5, <2>10 DEF Creates
  <2>7. Steps(bus, B2)
    BY <2>5, <2>6 DEF Steps, Moves
  <2>8. B2 \in Bus /\ TablesOK(B2) /\ c \in B2.clients
    BY <1>2, <2>5 DEF Keeps, Created
  <2>9. Quiet(B2, bus')
    BY <1>3, <2>1, <2>8, QuietReturn
  <2> QED
    BY <2>7, <2>9, StepsThen
<1> QED
  BY <1>4, <1>5

(* ubusd_handle_remove_object.                                              *)
LEMMA RemoveStep ==
  ASSUME Inv, NEW c \in Client, NEW o \in ObjId, ubusd_handle_remove_object(c, o)
  PROVE  Steps(bus, bus')
<1> DEFINE a == GoneType(bus, o)
           B1 == ubus_msg_send(bus, c, Data(<<"REMOVE_OBJECT">>, o, a))
           B2 == ubusd_free_object(B1, o)
           req == <<"REMOVE_OBJECT">>
<1>1. bus' = IF ~IsLive(bus, o) THEN Return(bus, c, req, "NOT_FOUND")
             ELSE IF bus.objects[o].client # c THEN Return(bus, c, req, "PERMISSION_DENIED")
             ELSE Return(B2, c, req, "OK")
  BY DEF ubusd_handle_remove_object, GoneType
<1>2. bus \in Bus /\ TablesOK(bus) /\ c \in bus.clients
  BY DEF Inv, ubusd_handle_remove_object, Request
<1>3. req[1] \notin {"SUBSCRIBE", "UNSUBSCRIBE"}
  OBVIOUS
<1> HIDE DEF req, a
<1>4. CASE ~IsLive(bus, o)
  <2>1. bus' = Return(bus, c, req, "NOT_FOUND")
    BY <1>1, <1>4
  <2> QED
    BY <1>2, <1>3, <2>1, Refused
<1>5. CASE IsLive(bus, o) /\ bus.objects[o].client # c
  <2>1. bus' = Return(bus, c, req, "PERMISSION_DENIED")
    BY <1>1, <1>5
  <2> QED
    BY <1>2, <1>3, <2>1, Refused
<1>6. CASE IsLive(bus, o) /\ bus.objects[o].client = c
  <2>1. bus' = Return(B2, c, req, "OK")
    BY <1>1, <1>6
  <2>2. Keeps(bus, B2) /\ Freed(bus, B2, o)
    BY <1>2, <1>6, RemoveIsSound DEF a
  <2> HIDE DEF B2
  <2>3. Frees(bus, B2)
    BY <1>6, <2>2 DEF Frees, IsLive
  <2>4. Steps(bus, B2)
    BY <2>2, <2>3 DEF Steps, Moves
  <2>5. B2 \in Bus /\ TablesOK(B2) /\ c \in B2.clients
    BY <1>2, <2>2 DEF Keeps, Freed
  <2>6. Quiet(B2, bus')
    BY <1>3, <2>1, <2>5, QuietReturn
  <2> QED
    BY <2>4, <2>6, StepsThen
<1> QED
  BY <1>4, <1>5, <1>6

(* ubusd_handle_add_watch.                                                  *)
LEMMA AddWatchStep ==
  ASSUME Inv, NEW c \in Client, NEW s \in ObjId, NEW t \in ObjId, NEW acl \in BOOLEAN,
         ubusd_handle_add_watch(c, s, t, acl)
  PROVE  Steps(bus, bus')
<1> DEFINE req == <<"SUBSCRIBE", s, t>>
           R == Return(ubus_subscribe(bus, s, t), c, req, "OK")
<1>1. /\ Len(bus.subs) < MaxSub
      /\ \/ \E ret \in {"NOT_FOUND", "INVALID_ARGUMENT"} : bus' = Return(bus, c, req, ret)
         \/ /\ bus.objects[s].client = c /\ bus.objects[t].client \notin {Null, c}
            /\ bus' = R
  BY DEF ubusd_handle_add_watch, IsLive
<1>2. bus \in Bus /\ TablesOK(bus) /\ c \in bus.clients
  BY DEF Inv, ubusd_handle_add_watch, Request
<1>3. ASSUME NEW ret \in {"NOT_FOUND", "INVALID_ARGUMENT"}, bus' = Return(bus, c, req, ret)
      PROVE  Steps(bus, bus')
  <2>1. ret # "OK"
    OBVIOUS
  <2> HIDE DEF req
  <2> QED
    BY <1>2, <1>3, <2>1, Refused
<1>4. ASSUME bus.objects[s].client = c, bus.objects[t].client \notin {Null, c}, bus' = R
      PROVE  Steps(bus, bus')
  <2> DEFINE st == <<s, t>>
  <2>1. Keeps(bus, R) /\ Recounted(bus, R, st, 1)
    BY <1>2, <1>4, WatchIsSound
  <2>2. st \in Pairs /\ st[1] = s /\ st[2] = t
    BY DEF Pairs
  <2>3. Count(bus.subs, st) < MaxSub
    <3>1. bus.subs \in Seq(Pairs)
      BY <1>2 DEF Bus
    <3>2. Count(bus.subs, st) \in Nat /\ Count(bus.subs, st) <= Len(bus.subs) /\ Len(bus.subs) \in Nat
      BY <3>1, CountIs, LenProperties
    <3> HIDE DEF st
    <3> QED
      BY <1>1, <3>2, SizesAssumption
  <2> HIDE DEF st, R
  <2>4. bus.objects[st[1]].client # Null /\ bus.objects[st[2]].client # Null
        /\ bus.objects[st[1]].client # bus.objects[st[2]].client
    BY <1>4, <2>2, IdsAssumption
  <2>5. Subscribes(bus, R)
    BY <2>1, <2>2, <2>3, <2>4 DEF Subscribes
  <2> QED
    BY <1>4, <2>1, <2>5 DEF Steps, Moves
<1> QED
  BY <1>1, <1>3, <1>4

(* ubusd_handle_remove_watch.                                               *)
LEMMA RemoveWatchStep ==
  ASSUME Inv, NEW c \in Client, NEW s \in ObjId, NEW t \in ObjId,
         ubusd_handle_remove_watch(c, s, t)
  PROVE  Steps(bus, bus')
<1> DEFINE req == <<"UNSUBSCRIBE", s, t>>
           R == Return(ubus_unsubscribe(bus, <<s, t>>), c, req, "OK")
<1>1. \/ \E ret \in {"NOT_FOUND", "INVALID_ARGUMENT"} : bus' = Return(bus, c, req, ret)
      \/ bus.objects[s].client = c /\ Contains(bus.subs, <<s, t>>) /\ bus' = R
  BY DEF ubusd_handle_remove_watch, IsLive
<1>2. bus \in Bus /\ TablesOK(bus) /\ c \in bus.clients
  BY DEF Inv, ubusd_handle_remove_watch, Request
<1>3. ASSUME NEW ret \in {"NOT_FOUND", "INVALID_ARGUMENT"}, bus' = Return(bus, c, req, ret)
      PROVE  Steps(bus, bus')
  <2>1. ret # "OK"
    OBVIOUS
  <2> HIDE DEF req
  <2> QED
    BY <1>2, <1>3, <2>1, Refused
<1>4. ASSUME bus.objects[s].client = c, Contains(bus.subs, <<s, t>>), bus' = R
      PROVE  Steps(bus, bus')
  <2> DEFINE st == <<s, t>>
  <2>1. Keeps(bus, R) /\ Recounted(bus, R, st, -1) /\ Count(bus.subs, st) > 0
    BY <1>2, <1>4, WatchIsSound
  <2>2. st \in Pairs
    BY DEF Pairs
  <2> HIDE DEF st, R
  <2>3. Unsubscribes(bus, R)
    BY <2>1, <2>2 DEF Unsubscribes
  <2> QED
    BY <1>4, <2>1, <2>3 DEF Steps, Moves
<1> QED
  BY <1>1, <1>3, <1>4

(* ubusd_handle_notify.                                                     *)
LEMMA NotifyStep ==
  ASSUME Inv, NEW c \in Client, NEW o \in ObjId, NEW no_reply \in BOOLEAN,
         ubusd_handle_notify(c, o, no_reply)
  PROVE  Steps(bus, bus')
<1> DEFINE req == <<"NOTIFY">>
           C == Return(bus, c, req, "OK")
           B1 == IF no_reply THEN bus ELSE C
           R == NotifySubscribers(B1, c, o)
<1>1. \/ \E ret \in {"NOT_FOUND", "PERMISSION_DENIED"} : bus' = Return(bus, c, req, ret)
      \/ bus' = R
  BY DEF ubusd_handle_notify, Return
<1>2. bus \in Bus /\ TablesOK(bus) /\ c \in bus.clients
  BY DEF Inv, ubusd_handle_notify, Request
<1>3. req[1] \notin {"SUBSCRIBE", "UNSUBSCRIBE"}
  OBVIOUS
<1> HIDE DEF req
<1>4. ASSUME NEW ret \in {"NOT_FOUND", "PERMISSION_DENIED"}, bus' = Return(bus, c, req, ret)
      PROVE  Steps(bus, bus')
  BY <1>2, <1>3, <1>4, Refused
<1>5. ASSUME bus' = R PROVE Steps(bus, bus')
  <2>1. Quiet(bus, bus)
    BY <1>2 DEF Quiet, Keeps, SameTables
  <2>2. Quiet(bus, C)
    BY <1>2, <1>3, QuietReturn
  <2> HIDE DEF C
  <2>3. Quiet(bus, B1)
    BY <2>1, <2>2
  <2> HIDE DEF B1
  <2>4. B1 \in Bus /\ TablesOK(B1)
    BY <2>3 DEF Quiet, Keeps
  <2>5. Quiet(B1, R)
    BY <2>4, NotifyQuiet
  <2> HIDE DEF R
  <2> QED
    BY <1>5, <2>3, <2>5, QuietTrans, QuietSteps
<1> QED
  BY <1>1, <1>4, <1>5

(* ubusd_handle_invoke.                                                     *)
LEMMA InvokeStep ==
  ASSUME Inv, NEW c \in Client, NEW o \in ObjId, NEW acl \in BOOLEAN, ubusd_handle_invoke(c, o, acl)
  PROVE  Steps(bus, bus')
<1> DEFINE req == <<"INVOKE">>
<1>1. \/ \E ret \in {"NOT_FOUND", "PERMISSION_DENIED"} : bus' = Return(bus, c, req, ret)
      \/ /\ bus.objects[o].client # Null
         /\ bus' = ubus_msg_send(bus, bus.objects[o].client, Invoke(o, c))
  BY DEF ubusd_handle_invoke, IsLive
<1>2. bus \in Bus /\ TablesOK(bus) /\ c \in bus.clients
  BY DEF Inv, ubusd_handle_invoke, Request
<1>3. req[1] \notin {"SUBSCRIBE", "UNSUBSCRIBE"}
  OBVIOUS
<1> HIDE DEF req
<1>4. ASSUME NEW ret \in {"NOT_FOUND", "PERMISSION_DENIED"}, bus' = Return(bus, c, req, ret)
      PROVE  Steps(bus, bus')
  BY <1>2, <1>3, <1>4, Refused
<1>5. ASSUME bus.objects[o].client # Null,
             bus' = ubus_msg_send(bus, bus.objects[o].client, Invoke(o, c))
      PROVE  Steps(bus, bus')
  BY <1>2, <1>5, InvokeQuiet, QuietSteps
<1> QED
  BY <1>1, <1>4, <1>5

(* ubusd_handle_response.                                                   *)
LEMMA ResponseStep ==
  ASSUME Inv, NEW c \in Client, NEW o \in ObjId, NEW peer \in Client, ubusd_handle_response(c, o, peer)
  PROVE  Steps(bus, bus')
<1>1. bus \in Bus /\ TablesOK(bus) /\ peer \in bus.clients /\ bus' = ubus_msg_send(bus, peer, Response(o))
  BY DEF Inv, ubusd_handle_response
<1>2. Neutral(Response(o))
  BY OthersNeutral
<1> QED
  BY <1>1, <1>2, QuietSend, QuietSteps

(* ubusd_alloc_event_pattern.                                               *)
LEMMA RegisterStep ==
  ASSUME Inv, NEW c \in Client, NEW o \in ObjId, NEW pat \in Pattern, NEW acl \in BOOLEAN,
         ubusd_alloc_event_pattern(c, o, pat, acl)
  PROVE  Steps(bus, bus')
<1> DEFINE req == <<"REGISTER">>
           before == {i \in 1..Len(bus.patterns) : Rank[bus.patterns[i][2]] <= Rank[pat]}
           s == InsertAt(bus.patterns, Cardinality(before) + 1, <<o, pat>>)
           C == SetPatterns(bus, s)
<1>1. \/ \E ret \in {"NOT_FOUND", "PERMISSION_DENIED"} : bus' = Return(bus, c, req, ret)
      \/ bus.objects[o].client # Null /\ bus' = Return(C, c, req, "OK")
  BY DEF ubusd_alloc_event_pattern, IsLive, SetPatterns
<1>2. bus \in Bus /\ TablesOK(bus) /\ c \in bus.clients
  BY DEF Inv, ubusd_alloc_event_pattern, Request
<1>3. req[1] \notin {"SUBSCRIBE", "UNSUBSCRIBE"}
  OBVIOUS
<1> HIDE DEF req
<1>4. ASSUME NEW ret \in {"NOT_FOUND", "PERMISSION_DENIED"}, bus' = Return(bus, c, req, ret)
      PROVE  Steps(bus, bus')
  BY <1>2, <1>3, <1>4, Refused
<1>5. ASSUME bus.objects[o].client # Null, bus' = Return(C, c, req, "OK") PROVE Steps(bus, bus')
  <2>1. s \in Seq(ObjId \X Pattern) /\ ToSet(s) = ToSet(bus.patterns) \cup {<<o, pat>>}
    BY <1>2, PlaceIs
  <2> HIDE DEF s
  <2>2. Keeps(bus, C) /\ Registered(bus, C, <<o, pat>>)
    BY <1>2, <1>5, <2>1, RegisterIs
  <2> HIDE DEF C
  <2>3. Registers(bus, C)
    <3>1. <<o, pat>> \in ObjId \X Pattern /\ <<o, pat>>[1] = o
      OBVIOUS
    <3> QED
      BY <1>5, <2>2, <3>1 DEF Registers
  <2>4. Steps(bus, C)
    BY <2>2, <2>3 DEF Steps, Moves
  <2>5. C \in Bus /\ TablesOK(C) /\ c \in C.clients
    BY <1>2, <2>2 DEF Keeps, Registered
  <2>6. Quiet(C, bus')
    BY <1>3, <1>5, <2>5, QuietReturn
  <2> QED
    BY <2>4, <2>6, StepsThen
<1> QED
  BY <1>1, <1>4, <1>5

(* ubusd_forward_event.                                                     *)
LEMMA ForwardStep ==
  ASSUME Inv, NEW c \in Client, NEW id \in EventId, NEW acl \in BOOLEAN, ubusd_forward_event(c, id, acl)
  PROVE  Steps(bus, bus')
<1> DEFINE req == <<"SEND">>
           C == ubusd_send_event(bus, c, id, Null)
<1>1. bus' = Return(bus, c, req, "PERMISSION_DENIED") \/ bus' = Return(C, c, req, "OK")
  BY DEF ubusd_forward_event
<1>2. bus \in Bus /\ TablesOK(bus) /\ c \in bus.clients
  BY DEF Inv, ubusd_forward_event, Request
<1>3. req[1] \notin {"SUBSCRIBE", "UNSUBSCRIBE"}
  OBVIOUS
<1> HIDE DEF req
<1>4. ASSUME bus' = Return(bus, c, req, "PERMISSION_DENIED") PROVE Steps(bus, bus')
  BY <1>2, <1>3, <1>4, Refused
<1>5. ASSUME bus' = Return(C, c, req, "OK") PROVE Steps(bus, bus')
  <2>1. Quiet(bus, C)
    BY <1>2, SendQuiet
  <2> HIDE DEF C
  <2>2. C \in Bus /\ TablesOK(C) /\ c \in C.clients
    BY <1>2, <2>1 DEF Quiet, Keeps, SameTables
  <2>3. Quiet(C, bus')
    BY <1>3, <1>5, <2>2, QuietReturn
  <2> QED
    BY <2>1, <2>3, QuietTrans, QuietSteps
<1> QED
  BY <1>1, <1>4, <1>5

(* ubusd_proto_new_client.                                                  *)
LEMMA JoinStep ==
  ASSUME Inv, NEW c \in Client, ubusd_proto_new_client(c)
  PROVE  Steps(bus, bus')
<1> DEFINE C == Joined(bus, c)
           m == [type |-> "HELLO"]
<1>1. c \notin bus.clients /\ bus' = ubus_msg_send(C, c, m)
  BY DEF ubusd_proto_new_client, Joined
<1>2. Neutral(m)
  BY OthersNeutral
<1> HIDE DEF m
<1>3. bus \in Bus /\ TablesOK(bus)
  BY DEF Inv
<1>4. /\ Keeps(bus, C) /\ C.clients = bus.clients \cup {c}
      /\ C.objects = bus.objects /\ C.path = bus.path
      /\ C.obj_types = bus.obj_types /\ C.subs = bus.subs /\ C.patterns = bus.patterns
  BY <1>3, JoinIs
<1> HIDE DEF C
<1>5. Joins(bus, C)
  BY <1>1, <1>4 DEF Joins, SameObjects
<1>6. Steps(bus, C)
  BY <1>4, <1>5 DEF Steps, Moves
<1>7. C \in Bus /\ TablesOK(C) /\ c \in C.clients
  BY <1>4 DEF Keeps
<1>8. Quiet(C, bus')
  BY <1>1, <1>2, <1>7, QuietSend
<1> QED
  BY <1>6, <1>8, StepsThen

(* handle_client_disconnect.                                                *)
LEMMA DisconnectStep ==
  ASSUME Inv, NEW c \in Client, handle_client_disconnect(c)
  PROVE  Steps(bus, bus')
<1>1. /\ c \in bus.clients
      /\ bus' = Leave(ForEach(ubusd_free_object, [bus EXCEPT !.tx[c] = 0], bus.owned[c]), c)
  BY DEF handle_client_disconnect, Leave
<1>2. bus \in Bus /\ TablesOK(bus)
  BY DEF Inv
<1>3. Keeps(bus, bus') /\ Departed(bus, bus', c)
  BY <1>1, <1>2, DisconnectIsSound
<1>4. Departs(bus, bus')
  BY <1>1, <1>3 DEF Departs
<1> QED
  BY <1>3, <1>4 DEF Steps, Moves

(* The client reads.                                                        *)
LEMMA ReadStep ==
  ASSUME Inv, NEW c \in Client, Read(c)
  PROVE  Steps(bus, bus')
<1> DEFINE tx == [bus.tx EXCEPT ![c] = @ - 1]
<1>1. bus.tx[c] > 0 /\ bus' = SetTx(bus, tx)
  BY DEF Read, SetTx
<1>2. bus \in Bus /\ TablesOK(bus)
  BY DEF Inv
<1>3. tx \in [Client -> Nat] /\ \A e \in Client : tx[e] <= bus.tx[e]
  <2>1. bus.tx \in [Client -> Nat]
    BY <1>2 DEF Bus
  <2>2. bus.tx[c] - 1 \in Nat
    BY <1>1, <2>1
  <2> QED
    BY <2>1, <2>2
<1> HIDE DEF tx
<1>4. Quiet(bus, SetTx(bus, tx))
  BY <1>2, <1>3, DrainIs
<1> QED
  BY <1>1, <1>4, QuietSteps

(* The daemon, whatever it does.                                            *)
LEMMA NextSteps ==
  ASSUME Inv, Next
  PROVE  Steps(bus, bus')
<1>1. PICK c \in Client : Handle(c) \/ Read(c)
  BY DEF Next
<1>2. CASE Read(c)
  BY <1>2, ReadStep
<1>3. CASE Handle(c)
  BY <1>3, PongStep, AddStep, RemoveStep, AddWatchStep, RemoveWatchStep, NotifyStep, InvokeStep,
     ResponseStep, RegisterStep, ForwardStep, JoinStep, DisconnectStep
     DEF Handle
<1> QED
  BY <1>1, <1>2, <1>3

(* At the start nobody knows anything and there is nothing to know.         *)
LEMMA InitInv == Init => Inv
<1> SUFFICES ASSUME Init PROVE Inv
  OBVIOUS
<1> DEFINE none == [o \in ObjId |-> Registry!NoObject]
           empty == <<>>
<1>0. empty \in Seq(Pairs) /\ empty \in Seq(ObjId \X Pattern) /\ empty \in Seq(ObjId)
      /\ Len(empty) = 0 /\ ToSet(empty) = {}
  BY DEF ToSet
<1>1. bus = [clients |-> {}, objects |-> none, path |-> [p \in Path |-> Null],
             obj_types |-> [t \in TypeId |-> 0], subs |-> empty, patterns |-> empty,
             owned |-> [c \in Client |-> empty], tx |-> [c \in Client |-> 0],
             view |-> [c \in Client |-> NoView], lost |-> {}, stray |-> {}, taken |-> {}]
  BY DEF Init
<1>2. none \in [ObjId -> Registry!Object] /\ \A o \in ObjId : none[o] = Registry!NoObject
  BY NoObjectIs
<1> HIDE DEF none, empty
<1>3. /\ bus.clients = {} /\ bus.objects = none /\ bus.path = [p \in Path |-> Null]
      /\ bus.obj_types = [t \in TypeId |-> 0] /\ bus.subs = empty /\ bus.patterns = empty
      /\ bus.owned = [c \in Client |-> empty] /\ bus.view = [c \in Client |-> NoView]
      /\ bus.tx = [c \in Client |-> 0] /\ bus.lost = {} /\ bus.stray = {}
  BY <1>1
<1>4. bus \in Bus
  BY <1>0, <1>1, <1>2, NoViewIs DEF Bus
<1>5. \A e : Count(empty, e) = 0
  <2>1. \A e : {i \in 1..Len(empty) : empty[i] = e} = {}
    BY <1>0
  <2> QED
    BY <2>1, FS_EmptySet DEF Count
<1>6. \A o \in ObjId : /\ bus.objects[o] = Registry!NoObject /\ bus.objects[o].client = Null
                       /\ bus.objects[o].path = Null /\ bus.objects[o].type = Null
  BY <1>2, <1>3, NoObjectIs
<1>7. TablesOK(bus)
  <2>1. ObjectsOK(bus)
    BY <1>6 DEF ObjectsOK
  <2>2. PathOK(bus)
    BY <1>3, <1>6, IdsAssumption DEF PathOK
  <2>3. TypesOK(bus)
    <3>1. \A t \in TypeId : UsersOf(bus, t) = {}
      BY <1>6, IdsAssumption DEF UsersOf
    <3> QED
      BY <1>3, <3>1, FS_EmptySet DEF TypesOK
  <2>4. SubsOK(bus)
    BY <1>3, <1>5 DEF SubsOK
  <2>5. PatternsOK(bus)
    BY <1>0, <1>3 DEF PatternsOK
  <2>6. OwnedOK(bus)
    BY <1>3, <1>5, <1>6, IdsAssumption DEF OwnedOK
  <2> QED
    BY <2>1, <2>2, <2>3, <2>4, <2>5, <2>6 DEF TablesOK
<1>8. ASSUME NEW c \in Client PROVE OK(bus, c, {})
  <2>1. Own(bus, c) = {}
    BY <1>6, IdsAssumption DEF Own
  <2>2. bus.view[c] = NoView
    BY <1>3
  <2>3. Right(bus, NoView, c, {})
    BY <2>1 DEF Right, RightTypes, Sole, RightSeen, NoView
  <2>4. Watches(bus, c, {}) = [st \in Pairs |-> 0]
    BY <2>1 DEF Watches
  <2> QED
    BY <1>3, <2>2, <2>3, <2>4, NoViewIs, SizesAssumption DEF OK, Aware, Sound, Queued, Tally
<1> QED
  BY <1>3, <1>4, <1>7, <1>8 DEF Inv

(* Every handler, a disconnect and a read keep the invariant: after any       *)
(* sequence of them the tables of ubusd agree with each other and every       *)
(* client that has lost no message knows, from the messages queued for it,    *)
(* what the tables say; of types it may know too many, when another client    *)
(* has named the type (ubus_get_obj_type accepts any id).                    *)
THEOREM Invariant == Spec => []Inv
<1>1. Inv /\ [Next]_bus => Inv'
  <2> SUFFICES ASSUME Inv, [Next]_bus PROVE Inv'
    OBVIOUS
  <2>1. CASE Next
    <3>1. Keeps(bus, bus')
      BY <2>1, NextSteps DEF Steps
    <3> QED
      BY <3>1 DEF Inv, Keeps
  <2>2. CASE UNCHANGED bus
    BY <2>2 DEF Inv
  <2> QED
    BY <2>1, <2>2
<1> QED
  BY <1>1, InitInv, PTL DEF Spec

(* The list of a client has its objects.                                    *)
LEMMA ListIs ==
  ASSUME Inv, NEW c \in Client
  PROVE  ToSet(bus.owned[c]) = Own(bus, c)
<1>1. bus.owned[c] \in Seq(ObjId) /\ OwnedOK(bus)
  BY DEF Inv, Bus, TablesOK
<1>2. ToSet(bus.owned[c]) \subseteq ObjId
  <2>1. \A i \in 1..Len(bus.owned[c]) : bus.owned[c][i] \in ObjId
    BY <1>1, ElementOfSeq
  <2> QED
    BY <2>1 DEF ToSet
<1>3. \A o \in ObjId : o \in ToSet(bus.owned[c]) <=> Count(bus.owned[c], o) > 0
  BY <1>1, CountIs
<1>4. \A o \in ObjId : Count(bus.owned[c], o) > 0 <=> bus.objects[o].client = c
  BY <1>1 DEF OwnedOK
<1> QED
  BY <1>2, <1>3, <1>4 DEF Own

(* A client that has lost nothing knows what it should.                     *)
LEMMA InformedKnows ==
  ASSUME Inv, NEW c \in Informed
  PROVE  /\ c \in Client /\ Right(bus, bus.view[c], c, {})
         /\ bus.view[c].watch = Watches(bus, c, {})
         /\ \A S : S \ {} = S
BY DEF Inv, Informed, Bus, OK, Aware, Tally

(* Whoever owns an object knows, once its queue is read, whether anyone is    *)
(* subscribed to it: the notifications that ubus_subscribe, ubus_unsubscribe  *)
(* and ubusd_free_object send miss no first and no last subscriber.          *)
THEOREM OwnersKnow == Spec => []OwnerKnowsSubscribers
<1>1. Inv => OwnerKnowsSubscribers
  <2> SUFFICES ASSUME Inv, NEW c \in Informed
               PROVE  bus.view[c].has = {o \in ToSet(bus.owned[c]) : Watched(bus, o)}
    BY DEF OwnerKnowsSubscribers
  <2>1. c \in Client /\ Own(bus, c) \ {} = Own(bus, c)
    BY InformedKnows
  <2>2. bus.view[c].has = {o \in Own(bus, c) \ {} : Watched(bus, o)}
    BY InformedKnows DEF Right
  <2> QED
    BY <2>1, <2>2, ListIs
<1> QED
  BY <1>1, Invariant, PTL

(* Whoever subscribes knows, once its queue is read, to what and how often:   *)
(* ubusd_free_object sends one UNSUBSCRIBE for every subscription to the      *)
(* object that goes, duplicates included, and no other.                      *)
THEOREM SubscribersKnow == Spec => []SubscriberKnowsTargets
<1>1. Inv => SubscriberKnowsTargets
  <2> SUFFICES ASSUME Inv, NEW c \in Informed
               PROVE  bus.view[c].watch = [st \in ObjId \X ObjId |->
                        IF bus.objects[st[1]].client = c THEN Count(bus.subs, st) ELSE 0]
    BY DEF SubscriberKnowsTargets
  <2>1. bus.view[c].watch = Watches(bus, c, {})
    BY InformedKnows
  <2>2. \A st \in ObjId \X ObjId : st[1] \in Own(bus, c) \ {} <=> bus.objects[st[1]].client = c
    BY DEF Own
  <2> QED
    BY <2>1, <2>2 DEF Watches, Pairs
<1> QED
  BY <1>1, Invariant, PTL

(* A client knows its objects, once its queue is read, and no type id that    *)
(* ubus_unref_object_type has taken out of the tree, except a type that       *)
(* another client has named too: whoever removes the last object is told.     *)
THEOREM ClientsKnow == Spec => []ClientKnowsObjects
<1>1. Inv => ClientKnowsObjects
  <2> SUFFICES ASSUME Inv, NEW c \in Informed
               PROVE  /\ bus.view[c].own = ToSet(bus.owned[c])
                      /\ \A t \in bus.view[c].types : bus.obj_types[t] > 0 \/ <<c, t>> \in bus.taken
    BY DEF ClientKnowsObjects
  <2>1. c \in Client /\ Own(bus, c) \ {} = Own(bus, c)
    BY InformedKnows
  <2>2. bus.view[c].own = ToSet(bus.owned[c])
    BY <2>1, InformedKnows, ListIs DEF Right
  <2>3. ASSUME NEW t \in bus.view[c].types, <<c, t>> \notin bus.taken PROVE bus.obj_types[t] > 0
    <3>1. t \in TypeId
      BY <2>1 DEF Inv, Bus, View
    <3>2. PICK u \in ObjId : bus.objects[u].type = t
      BY <2>3, InformedKnows DEF Right, RightTypes, Sole
    <3>3. UsersOf(bus, t) # {}
      BY <3>2 DEF UsersOf
    <3>4. Cardinality(UsersOf(bus, t)) \in Nat /\ Cardinality(UsersOf(bus, t)) # 0
      BY <3>3, UsersFinite, FS_EmptySet
    <3>5. bus.obj_types[t] = Cardinality(UsersOf(bus, t))
      BY <3>1 DEF Inv, TablesOK, TypesOK
    <3> QED
      BY <3>4, <3>5
  <2> QED
    BY <2>2, <2>3
<1> QED
  BY <1>1, Invariant, PTL

(* What a listener saw appear and not disappear is published, once its queue  *)
(* is read: ubusd_send_obj_event tells every listener of every removal before *)
(* the path or the id can be used again.                                     *)
THEOREM ListenersTrack == Spec => []ListenerTracksObjects
<1>1. Inv => ListenerTracksObjects
  <2>1. ASSUME Inv, NEW c \in Informed PROVE RightSeen(bus, bus.view[c], c, {})
    BY <2>1, InformedKnows DEF Right
  <2> QED
    BY <2>1 DEF ListenerTracksObjects, RightSeen, Tracks
<1> QED
  BY <1>1, Invariant, PTL

(* Every INVOKE and UNSUBSCRIBE finds the object that it names: ubusd sends   *)
(* it between the answers to the object's creation and to its removal.       *)
THEOREM NoStrays == Spec => []MessagesFindTheirObject
<1>1. Inv => MessagesFindTheirObject
  <2> SUFFICES ASSUME Inv PROVE bus.stray = {}
    BY DEF MessagesFindTheirObject
  <2>1. bus.stray \subseteq Client \cup {Null}
    BY DEF Inv, Bus, Anyone
  <2>2. \A c \in Client : c \notin bus.stray
    BY DEF Inv, OK, Aware, Sound
  <2> QED
    BY <2>1, <2>2 DEF Inv
<1> QED
  BY <1>1, Invariant, PTL

(* Nothing is queued for a client that is gone.                             *)
THEOREM NoneForTheGone == Spec => []NothingForTheGone
<1>1. Inv => NothingForTheGone
  BY DEF NothingForTheGone, Inv, OK, Aware, Sound, Queued
<1> QED
  BY <1>1, Invariant, PTL

(* The types: the tables are those of the registry, the lists hold what the  *)
(* tables say, and the queues are within their limit.                       *)
THEOREM TypesCorrect == Spec => []TypeOK
<1>1. Inv => TypeOK
  <2> SUFFICES ASSUME Inv PROVE TypeOK
    OBVIOUS
  <2>b. bus \in Bus /\ TablesOK(bus)
    BY DEF Inv
  <2>f. /\ bus.clients \subseteq Client /\ bus.objects \in [ObjId -> Registry!Object]
        /\ bus.path \in [Path -> ObjId \cup {Null}] /\ bus.obj_types \in [TypeId -> Int]
        /\ bus.subs \in Seq(Pairs) /\ bus.patterns \in Seq(ObjId \X Pattern)
        /\ bus.owned \in [Client -> Seq(ObjId)] /\ bus.tx \in [Client -> Nat]
        /\ bus.lost \subseteq Anyone
    BY <2>b DEF Bus
  <2>1. Registry!TypeOK
    <3>1. \A t \in TypeId : bus.obj_types[t] \in Nat
      BY <2>b, UsersFinite DEF TablesOK, TypesOK
    <3>2. ToSet(bus.patterns) \subseteq ObjId \X Pattern
      BY <2>f DEF ToSet
    <3>3. \A st \in ObjId \X ObjId : Count(bus.subs, st) \in Nat
      BY <2>f, CountIs
    <3> QED
      BY <2>f, <3>1, <3>2, <3>3 DEF Registry!TypeOK
  <2>2. \A c \in Client : ToSet(bus.owned[c]) = {o \in ObjId : bus.objects[o].client = c}
    <3> SUFFICES ASSUME NEW c \in Client
                 PROVE  ToSet(bus.owned[c]) = {o \in ObjId : bus.objects[o].client = c}
      OBVIOUS
    <3>1. bus.owned[c] \in Seq(ObjId)
      BY <2>f
    <3>2. \A o : Count(bus.owned[c], o) > 0 <=> o \in ToSet(bus.owned[c])
      BY <3>1, CountIs
    <3>3. ToSet(bus.owned[c]) \subseteq ObjId
      BY <3>1 DEF ToSet
    <3>4. \A o \in ObjId : Count(bus.owned[c], o) > 0 <=> bus.objects[o].client = c
      BY <2>b DEF TablesOK, OwnedOK
    <3> QED
      BY <3>2, <3>3, <3>4
  <2>3. \A c \in Client \ bus.clients : bus.owned[c] = <<>>
    <3> SUFFICES ASSUME NEW c \in Client \ bus.clients PROVE bus.owned[c] = <<>>
      OBVIOUS
    <3>1. \A o \in ObjId : bus.objects[o].client # c
      <4>1. Registry!NoObject.client = Null /\ Null # c
        BY IdsAssumption, NoObjectIs
      <4> QED
        BY <2>b, <4>1 DEF TablesOK, ObjectsOK
    <3>2. ToSet(bus.owned[c]) = {}
      BY <2>2, <3>1
    <3> DEFINE s == bus.owned[c]
    <3>3. s \in Seq(ObjId) /\ Len(s) \in Nat /\ DOMAIN s = 1..Len(s)
      BY <2>f
    <3> HIDE DEF s
    <3>4. DOMAIN s = {}
      BY <3>2 DEF ToSet, s
    <3>5. Len(s) = 0
      BY <3>3, <3>4
    <3> QED
      BY <3>3, <3>5, EmptySeq DEF s
  <2>4. \A c \in Client : /\ bus.tx[c] \in 0..MaxTx
                          /\ c \notin bus.clients => bus.tx[c] = 0 /\ c \notin bus.lost
    BY <2>f, SizesAssumption DEF Inv, OK, Aware, Sound, Queued
  <2>5. bus.lost \subseteq bus.clients
    BY <2>f, <2>4 DEF Inv, Anyone
  <2> QED
    BY <2>1, <2>2, <2>3, <2>4, <2>5 DEF TypeOK
<1> QED
  BY <1>1, Invariant, PTL

----------------------------------------------------------------------------
(* The registry.                                                            *)

CountsOf(B) == [st \in ObjId \X ObjId |-> Count(B.subs, st)]

(* The references that go with the objects D.                               *)
LEMMA TypesLess ==
  ASSUME NEW B \in Bus, NEW R \in Bus, TypesOK(B), TypesOK(R), NEW D \in SUBSET ObjId,
         \A x \in ObjId : R.objects[x] = IF x \in D THEN Registry!NoObject ELSE B.objects[x],
         NEW t \in TypeId
  PROVE  R.obj_types[t] = B.obj_types[t] - Cardinality(UsersOf(B, t) \cap D)
<1> DEFINE U == UsersOf(B, t)
           V == UsersOf(R, t)
<1>1. R.obj_types[t] = Cardinality(V) /\ B.obj_types[t] = Cardinality(U)
  BY DEF TypesOK
<1>2. V = U \ D
  <2>1. t # Null /\ Registry!NoObject.type = Null
    BY IdsAssumption, NoObjectIs
  <2> QED
    BY <2>1 DEF UsersOf
<1>3. IsFiniteSet(U)
  BY UsersFinite
<1> HIDE DEF U, V
<1>4. Cardinality(V) = Cardinality(U) - Cardinality(U \cap D)
      /\ Cardinality(U) \in Nat /\ Cardinality(U \cap D) \in Nat
  <2>1. IsFiniteSet(U \cap D) /\ IsFiniteSet(V)
    BY <1>2, <1>3, FS_Subset
  <2>2. U = (U \cap D) \cup V /\ (U \cap D) \cap V = {}
    BY <1>2
  <2>3. Cardinality((U \cap D) \cup V)
          = Cardinality(U \cap D) + Cardinality(V) - Cardinality((U \cap D) \cap V)
    BY <2>1, FS_Union
  <2>4. Cardinality({}) = 0
    BY FS_EmptySet
  <2>5. Cardinality(U) \in Nat /\ Cardinality(U \cap D) \in Nat /\ Cardinality(V) \in Nat
    BY <1>3, <2>1, FS_CardinalityType
  <2>6. Cardinality(U) = Cardinality(U \cap D) + Cardinality(V) - 0
    BY <2>2, <2>3, <2>4
  <2> QED
    BY <2>5, <2>6
<1> QED
  BY <1>1, <1>4 DEF U

(* The registry counts as the daemon does.                                  *)
LEMMA SameCardinality == \A S : Registry!Cardinality(S) = Cardinality(S)
BY DEF Registry!Cardinality, Cardinality

(* The tables as the registry has them, when objects go.                    *)
LEMMA FreesObjects ==
  ASSUME bus \in Bus, bus' \in Bus, TablesOK(bus), TablesOK(bus'), NEW D \in SUBSET ObjId,
         bus'.objects = [x \in ObjId |-> IF x \in D THEN Registry!NoObject ELSE bus.objects[x]],
         bus'.path = [p \in Path |-> IF bus.path[p] \in D THEN Null ELSE bus.path[p]],
         \A x \in Pairs : Count(bus'.subs, x) = IF x[1] \in D \/ x[2] \in D THEN 0 ELSE Count(bus.subs, x),
         ToSet(bus'.patterns) = {op \in ToSet(bus.patterns) : op[1] \notin D}
  PROVE  Registry!FreeObjects(D)
<1>1. bus'.obj_types = [t \in TypeId |-> bus.obj_types[t] - Cardinality(UsersOf(bus, t) \cap D)]
  <2>1. \A t \in TypeId : bus'.obj_types[t] = bus.obj_types[t] - Cardinality(UsersOf(bus, t) \cap D)
    BY TypesLess DEF TablesOK
  <2>2. bus'.obj_types = [t \in TypeId |-> bus'.obj_types[t]]
    BY DEF Bus
  <2> QED
    BY <2>1, <2>2
<1>2. \A t : UsersOf(bus, t) = Registry!Users(t)
  BY DEF UsersOf, Registry!Users
<1>3. CountsOf(bus') = [st \in ObjId \X ObjId |-> IF st[1] \in D \/ st[2] \in D THEN 0 ELSE CountsOf(bus)[st]]
  BY DEF CountsOf, Pairs
<1>4. bus'.obj_types = [t \in TypeId |-> bus.obj_types[t] - Registry!Cardinality(Registry!Users(t) \cap D)]
  BY <1>1, <1>2, SameCardinality
<1> QED
  BY <1>3, <1>4 DEF Registry!FreeObjects, CountsOf

\* A step of the registry.
RegistryStep == Registry!Next \/ UNCHANGED Registry!regVars

(* Objects that go, in the terms of the registry.                           *)
LEMMA ObjectsGo ==
  ASSUME Inv, Inv', Departs(bus, bus') \/ Frees(bus, bus')
  PROVE  RegistryStep
<1>0. bus \in Bus /\ bus' \in Bus /\ TablesOK(bus) /\ TablesOK(bus')
  BY DEF Inv
<1>1. CASE Departs(bus, bus')
  <2>1. PICK c \in Client : c \in bus.clients /\ Departed(bus, bus', c)
    BY <1>1 DEF Departs
  <2> DEFINE D == Own(bus, c)
  <2>2. /\ D \in SUBSET ObjId /\ bus'.clients = bus.clients \ {c}
        /\ bus'.objects = [x \in ObjId |-> IF x \in D THEN Registry!NoObject ELSE bus.objects[x]]
        /\ bus'.path = [p \in Path |-> IF bus.path[p] \in D THEN Null ELSE bus.path[p]]
        /\ \A x \in Pairs : Count(bus'.subs, x) = IF x[1] \in D \/ x[2] \in D THEN 0 ELSE Count(bus.subs, x)
        /\ ToSet(bus'.patterns) = {op \in ToSet(bus.patterns) : op[1] \notin D}
    BY <2>1 DEF Departed, Own
  <2>3. D = Registry!Owned(c)
    BY DEF Own, Registry!Owned
  <2> HIDE DEF D
  <2>4. Registry!FreeObjects(D)
    BY <1>0, <2>2, FreesObjects
  <2>5. Registry!ubusd_proto_free_client(c)
    BY <2>1, <2>2, <2>3, <2>4 DEF Registry!ubusd_proto_free_client
  <2> QED
    BY <2>5 DEF RegistryStep, Registry!Next
<1>2. CASE Frees(bus, bus')
  <2>1. PICK o \in ObjId : bus.objects[o].client # Null /\ Freed(bus, bus', o)
    BY <1>2 DEF Frees
  <2> DEFINE D == {o}
  <2>2. /\ D \in SUBSET ObjId /\ bus'.clients = bus.clients
        /\ bus'.objects = [x \in ObjId |-> IF x \in D THEN Registry!NoObject ELSE bus.objects[x]]
        /\ bus'.path = [p \in Path |-> IF bus.path[p] \in D THEN Null ELSE bus.path[p]]
        /\ \A x \in Pairs : Count(bus'.subs, x) = IF x[1] \in D \/ x[2] \in D THEN 0 ELSE Count(bus.subs, x)
        /\ ToSet(bus'.patterns) = {op \in ToSet(bus.patterns) : op[1] \notin D}
    BY <2>1 DEF Freed, Others
  <2>3. o \in Registry!Live
    BY <2>1 DEF Registry!Live
  <2> HIDE DEF D
  <2>4. Registry!FreeObjects(D)
    BY <1>0, <2>2, FreesObjects
  <2>5. Registry!ubusd_free_object(o)
    BY <2>2, <2>3, <2>4 DEF Registry!ubusd_free_object, D
  <2> QED
    BY <2>5 DEF RegistryStep, Registry!Next
<1> QED
  BY <1>1, <1>2

(* The other changes.                                                       *)
LEMMA ObjectsCome ==
  ASSUME Inv, Joins(bus, bus') \/ Creates(bus, bus') \/ Registers(bus, bus')
  PROVE  RegistryStep
<1>1. CASE Joins(bus, bus')
  <2>1. PICK c \in Client : /\ c \notin bus.clients /\ bus'.clients = bus.clients \cup {c}
                            /\ SameObjects(bus, bus') /\ bus'.subs = bus.subs
                            /\ bus'.patterns = bus.patterns
    BY <1>1 DEF Joins
  <2>2. Registry!ubusd_proto_new_client(c)
    BY <2>1 DEF SameObjects, Registry!ubusd_proto_new_client
  <2> QED
    BY <2>2 DEF RegistryStep, Registry!Next
<1>2. CASE Creates(bus, bus')
  <2>1. PICK c \in Client, o \in ObjId, p \in Path \cup {Null}, t \in TypeId \cup {Null} :
          Creatable(bus, c, o, p, t) /\ Created(bus, bus', c, o, p, t)
    BY <1>2 DEF Creates
  <2>2. o \notin Registry!Live
    BY <2>1 DEF Creatable, Registry!Live
  <2>3. Registry!ubusd_create_object(c, o, p, t)
    BY <2>1, <2>2 DEF Creatable, Created, NewObjects, NewObject, NewPath, NewTypes, RefType, Unref,
                      Registry!ubusd_create_object
  <2> QED
    BY <2>3 DEF RegistryStep, Registry!Next
<1>3. CASE Registers(bus, bus')
  <2>1. PICK op \in ObjId \X Pattern : bus.objects[op[1]].client # Null /\ Registered(bus, bus', op)
    BY <1>3 DEF Registers
  <2>2. op = <<op[1], op[2]>> /\ op[1] \in ObjId /\ op[2] \in Pattern
    BY <2>1
  <2>3. op[1] \in Registry!Live
    BY <2>1, <2>2 DEF Registry!Live
  <2>4. Registry!ubusd_alloc_event_pattern(op[1], op[2])
    BY <2>1, <2>2, <2>3 DEF Registered, Registry!ubusd_alloc_event_pattern
  <2> QED
    BY <2>2, <2>4 DEF RegistryStep, Registry!Next
<1> QED
  BY <1>1, <1>2, <1>3

(* One subscription more, or less.                                          *)
LEMMA SubscriptionsChange ==
  ASSUME Inv, Subscribes(bus, bus') \/ Unsubscribes(bus, bus')
  PROVE  RegistryStep
<1>0. bus \in Bus
  BY DEF Inv
<1>1. ASSUME NEW st \in Pairs, NEW n \in Int, Recounted(bus, bus', st, n)
      PROVE  /\ CountsOf(bus') = [CountsOf(bus) EXCEPT ![st] = @ + n]
             /\ bus'.clients = bus.clients /\ bus'.objects = bus.objects /\ bus'.path = bus.path
             /\ bus'.obj_types = bus.obj_types /\ bus'.patterns = bus.patterns
  <2>1. \A x \in Pairs : Count(bus.subs, x) \in Nat
    BY <1>0, CountIs DEF Bus
  <2>2. \A x \in Pairs : Count(bus'.subs, x) = IF x = st THEN Count(bus.subs, x) + n ELSE Count(bus.subs, x)
    BY <1>1, <2>1 DEF Recounted
  <2>3. CountsOf(bus') = [CountsOf(bus) EXCEPT ![st] = @ + n]
    BY <1>1, <2>2 DEF CountsOf, Pairs
  <2> QED
    BY <1>1, <2>3 DEF Recounted, OtherTables
<1>2. CASE Subscribes(bus, bus')
  <2>1. PICK st \in Pairs :
          /\ bus.objects[st[1]].client # Null /\ bus.objects[st[2]].client # Null
          /\ bus.objects[st[1]].client # bus.objects[st[2]].client
          /\ Count(bus.subs, st) < MaxSub
          /\ Recounted(bus, bus', st, 1)
    BY <1>2 DEF Subscribes
  <2>2. st = <<st[1], st[2]>> /\ st[1] \in ObjId /\ st[2] \in ObjId
    BY DEF Pairs
  <2>3. CountsOf(bus)[<<st[1], st[2]>>] < MaxSub
    BY <2>1, <2>2 DEF CountsOf
  <2>4. {st[1], st[2]} \subseteq Registry!Live
    BY <2>1, <2>2 DEF Registry!Live
  <2>5. CountsOf(bus') = [CountsOf(bus) EXCEPT ![<<st[1], st[2]>>] = @ + 1]
    BY <1>1, <2>1, <2>2
  <2>7. /\ bus'.clients = bus.clients /\ bus'.objects = bus.objects /\ bus'.path = bus.path
        /\ bus'.obj_types = bus.obj_types /\ bus'.patterns = bus.patterns
    BY <1>1, <2>1
  <2>6. Registry!ubus_subscribe(st[1], st[2])
    BY <2>1, <2>4, <2>5, <2>7 DEF Registry!ubus_subscribe, CountsOf
  <2> QED
    BY <2>2, <2>3, <2>6 DEF RegistryStep, Registry!Next, CountsOf
<1>3. CASE Unsubscribes(bus, bus')
  <2>1. PICK st \in Pairs : Count(bus.subs, st) > 0 /\ Recounted(bus, bus', st, -1)
    BY <1>3 DEF Unsubscribes
  <2>2. st = <<st[1], st[2]>> /\ st[1] \in ObjId /\ st[2] \in ObjId
    BY DEF Pairs
  <2>3. CountsOf(bus)[<<st[1], st[2]>>] > 0 /\ CountsOf(bus)[<<st[1], st[2]>>] \in Nat
    BY <1>0, <2>1, <2>2, CountIs DEF CountsOf, Bus
  <2>4. CountsOf(bus') = [CountsOf(bus) EXCEPT ![<<st[1], st[2]>>] = @ - 1]
    BY <1>1, <2>1, <2>2, <2>3
  <2>6. /\ bus'.clients = bus.clients /\ bus'.objects = bus.objects /\ bus'.path = bus.path
        /\ bus'.obj_types = bus.obj_types /\ bus'.patterns = bus.patterns
    BY <1>1, <2>1
  <2>5. Registry!ubus_unsubscribe(st[1], st[2])
    BY <2>3, <2>4, <2>6 DEF Registry!ubus_unsubscribe, CountsOf
  <2> QED
    BY <2>2, <2>5 DEF RegistryStep, Registry!Next
<1> QED
  BY <1>2, <1>3

(* The daemon with its lists, its loops and its messages implements the       *)
(* registry: every request changes the tables as one step of it, or not at    *)
(* all, and a disconnect frees the client and all its objects in one step.    *)
THEOREM IsRegistry == Spec => ImplementsRegistry
<1>1. Init => Registry!Init
  <2> SUFFICES ASSUME Init PROVE Registry!Init
    OBVIOUS
  <2>1. ToSet(<<>>) = {}
    BY DEF ToSet
  <2>2. \A st : Count(<<>>, st) = 0
    <3>1. \A st : {i \in 1..Len(<<>>) : <<>>[i] = st} = {}
      OBVIOUS
    <3> QED
      BY <3>1, FS_EmptySet DEF Count
  <2> QED
    BY <2>1, <2>2 DEF Init, Registry!Init
<1>2. Inv /\ Inv' /\ [Next]_bus => [Registry!Next]_(Registry!regVars)
  <2> SUFFICES ASSUME Inv, Inv', [Next]_bus PROVE RegistryStep
    BY DEF RegistryStep
  <2>1. CASE UNCHANGED bus
    BY <2>1 DEF RegistryStep, Registry!regVars
  <2>2. CASE Next
    <3>1. Moves(bus, bus')
      BY <2>2, NextSteps DEF Steps
    <3>2. CASE SameTables(bus, bus')
      BY <3>2 DEF SameTables, RegistryStep, Registry!regVars
    <3> QED
      BY <3>1, <3>2, ObjectsGo, ObjectsCome, SubscriptionsChange DEF Moves
  <2> QED
    BY <2>1, <2>2
<1> QED
  BY <1>1, <1>2, Invariant, PTL DEF Spec, ImplementsRegistry, Registry!Spec
=============================================================================
