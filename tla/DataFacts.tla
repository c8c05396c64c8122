------------------------------ MODULE DataFacts ------------------------------
(***************************************************************************)
(* Facts about the data operators the component modules are built from,    *)
(* cited by name in their proofs.                                          *)
(***************************************************************************)
EXTENDS Naturals, SequencesExt, FiniteSetTheorems, SequenceTheorems, TLAPS

\* A non-empty set of naturals has a smallest element, and Min returns it.
LEMMA MinExists ==
  ASSUME NEW S, S \subseteq Nat, S # {}
  PROVE  Min(S) \in S /\ \A m \in S : Min(S) <= m
<1> DEFINE Segments == {0..n : n \in S}
<1>1. Segments \subseteq FiniteSubsetsOf(Nat)
  <2>1. ASSUME NEW n \in S
        PROVE  0..n \in FiniteSubsetsOf(Nat)
    <3>1. n \in Int /\ 0..n \subseteq Nat
      OBVIOUS
    <3>2. IsFiniteSet(0..n)
      BY <3>1, FS_Interval
    <3>3. QED
      BY <3>1, <3>2 DEF FiniteSubsetsOf
  <2>2. QED
    BY <2>1
<1>2. Segments # {}
  OBVIOUS
<1>3. PICK seg \in Segments : \A t \in Segments : <<t, seg>> \notin StrictSubsetOrdering(Nat)
  <2> HIDE DEF Segments
  <2>1. IsWellFoundedOn(StrictSubsetOrdering(Nat), FiniteSubsetsOf(Nat))
    BY FS_StrictSubsetOrderingWellFounded
  <2>2. QED
    BY <1>1, <1>2, <2>1, WFMin
<1>4. PICK m \in S : seg = 0..m
  BY <1>3
<1>5. ASSUME NEW n \in S, n < m
      PROVE  FALSE
  <2>1. 0..n \in Segments
    OBVIOUS
  <2>2. 0..n \subseteq 0..m /\ 0..n # 0..m
    <3>1. m \in 0..m /\ m \notin 0..n
      BY <1>5
    <3>2. QED
      BY <1>5, <3>1
  <2>3. <<0..n, seg>> \in StrictSubsetOrdering(Nat)
    BY <1>4, <2>2 DEF StrictSubsetOrdering
  <2>4. QED
    BY <1>3, <2>1, <2>3
<1>6. \A n \in S : m <= n
  BY <1>5
<1>7. QED
  BY <1>6 DEF Min

\* A finite, non-empty set of naturals has a largest element, and Max returns it.
LEMMA MaxExists ==
  ASSUME NEW S, S \subseteq Nat, IsFiniteSet(S), S # {}
  PROVE  Max(S) \in S /\ \A m \in S : m <= Max(S)
<1> DEFINE Above(n) == {m \in S : n <= m}
           Rests == {Above(n) : n \in S}
<1>1. Rests \subseteq FiniteSubsetsOf(S)
  <2>1. ASSUME NEW n \in S
        PROVE  Above(n) \in FiniteSubsetsOf(S)
    <3>1. Above(n) \in SUBSET S
      OBVIOUS
    <3>2. QED
      BY <3>1, FS_FiniteSubsetsOfFinite
  <2> HIDE DEF Above
  <2>2. QED
    BY <2>1
<1>2. Rests # {}
  OBVIOUS
<1>3. PICK rest \in Rests : \A t \in Rests : <<t, rest>> \notin StrictSubsetOrdering(S)
  <2> HIDE DEF Rests
  <2>1. IsWellFoundedOn(StrictSubsetOrdering(S), FiniteSubsetsOf(S))
    BY FS_StrictSubsetOrderingWellFounded
  <2>2. QED
    BY <1>1, <1>2, <2>1, WFMin
<1>4. PICK n \in S : rest = Above(n)
  BY <1>3
<1>5. ASSUME NEW m \in S, n < m
      PROVE  FALSE
  <2>1. Above(m) \in Rests
    OBVIOUS
  <2>2. Above(m) \subseteq Above(n) /\ n \in Above(n) /\ n \notin Above(m)
    <3>1. m \in Nat /\ n \in Nat
      OBVIOUS
    <3>2. \A k \in S : k \in Nat /\ (m <= k => n <= k)
      BY <1>5, <3>1
    <3>3. n <= n /\ ~(m <= n)
      BY <1>5, <3>1
    <3>4. QED
      BY <3>2, <3>3
  <2>3. <<Above(m), rest>> \in StrictSubsetOrdering(S)
    <3>1. Above(m) \subseteq S /\ Above(n) \subseteq S
      OBVIOUS
    <3> HIDE DEF Above
    <3>2. QED
      BY <1>4, <2>2, <3>1 DEF StrictSubsetOrdering
  <2>4. QED
    BY <1>3, <2>1, <2>3
<1>6. \A m \in S : m <= n
  BY <1>5
<1>7. QED
  BY <1>6 DEF Max

\* A set whose members are all the same has at most one.
LEMMA AtMostOne ==
  ASSUME NEW S, \A x, y \in S : x = y
  PROVE  Cardinality(S) <= 1
<1>1. CASE S = {}
  BY <1>1, FS_EmptySet
<1>2. CASE S # {}
  <2>1. PICK x \in S : S = {x}
    BY <1>2
  <2>2. QED
    BY <2>1, FS_Singleton
<1>3. QED
  BY <1>1, <1>2

\* Removing position i of a sequence shifts the later elements down by one.
LEMMA RemoveAtProperties ==
  ASSUME NEW S, NEW s \in Seq(S), NEW i \in 1..Len(s)
  PROVE  /\ RemoveAt(s, i) \in Seq(S)
         /\ Len(RemoveAt(s, i)) = Len(s) - 1
         /\ \A j \in 1..(Len(s) - 1) :
              RemoveAt(s, i)[j] = IF j < i THEN s[j] ELSE s[j + 1]
<1> DEFINE a == SubSeq(s, 1, i - 1)
           b == SubSeq(s, i + 1, Len(s))
<1>0. Len(s) \in Nat /\ i \in Int /\ i - 1 \in Int /\ i + 1 \in Int /\ 1 \in Int
  BY LenProperties
<1>1. /\ a \in Seq(S)
      /\ Len(a) = i - 1
      /\ \A j \in 1..(i - 1) : a[j] = s[j]
  <2>1. \A j \in 1..(i - 1) : s[j] \in S
    BY <1>0, ElementOfSeq
  <2>2. QED
    BY <1>0, <2>1, SubSeqProperties
<1>2. /\ b \in Seq(S)
      /\ Len(b) = Len(s) - i
      /\ \A j \in 1..(Len(s) - i) : b[j] = s[i + j]
  <2>1. \A j \in (i + 1)..Len(s) : s[j] \in S
    BY <1>0, ElementOfSeq
  <2>2. QED
    BY <1>0, <2>1, SubSeqProperties
<1>3. RemoveAt(s, i) = a \o b
  BY DEF RemoveAt
<1>4. QED
  <2> HIDE DEF a, b
  <2>1. /\ a \o b \in Seq(S)
        /\ Len(a \o b) = Len(a) + Len(b)
        /\ \A j \in 1..(Len(a) + Len(b)) :
             (a \o b)[j] = IF j <= Len(a) THEN a[j] ELSE b[j - Len(a)]
    BY <1>1, <1>2, ConcatProperties
  <2>2. ASSUME NEW j \in 1..(Len(s) - 1)
        PROVE  (a \o b)[j] = IF j < i THEN s[j] ELSE s[j + 1]
    <3>1. CASE j < i
      BY <1>0, <1>1, <1>2, <2>1, <3>1
    <3>2. CASE ~(j < i)
      <4>1. j - (i - 1) \in 1..(Len(s) - i) /\ i + (j - (i - 1)) = j + 1
        BY <1>0, <3>2
      <4>2. b[j - (i - 1)] = s[j + 1]
        BY <1>2, <4>1
      <4>3. (a \o b)[j] = b[j - (i - 1)]
        BY <1>0, <1>1, <1>2, <2>1, <3>2
      <4>4. QED
        BY <3>2, <4>2, <4>3
    <3>3. QED
      BY <3>1, <3>2
  <2>3. QED
    BY <1>0, <1>1, <1>2, <1>3, <2>1, <2>2

\* Removing a position of a sequence without repetitions removes exactly that
\* element, and leaves no repetition.
LEMMA RemoveAtOfDistinct ==
  ASSUME NEW S, NEW s \in Seq(S), NEW i \in 1..Len(s),
         \A j, k \in 1..Len(s) : s[j] = s[k] => j = k
  PROVE  /\ {RemoveAt(s, i)[j] : j \in 1..Len(RemoveAt(s, i))}
              = {s[j] : j \in 1..Len(s)} \ {s[i]}
         /\ \A j, k \in 1..Len(RemoveAt(s, i)) :
              RemoveAt(s, i)[j] = RemoveAt(s, i)[k] => j = k
<1> DEFINE t == RemoveAt(s, i)
<1>1. /\ Len(s) \in Nat
      /\ t \in Seq(S)
      /\ Len(t) = Len(s) - 1
      /\ \A j \in 1..(Len(s) - 1) : t[j] = IF j < i THEN s[j] ELSE s[j + 1]
  BY RemoveAtProperties, LenProperties
<1> HIDE DEF t
<1>2. ASSUME NEW j \in 1..Len(t)
      PROVE  t[j] \in {s[k] : k \in 1..Len(s)} \ {s[i]}
  <2>1. PICK k \in 1..Len(s) : t[j] = s[k] /\ k # i
    <3>1. CASE j < i
      BY <1>1, <3>1
    <3>2. CASE ~(j < i)
      BY <1>1, <3>2
    <3>3. QED
      BY <3>1, <3>2
  <2>2. s[k] # s[i]
    BY <2>1
  <2>3. QED
    BY <2>1, <2>2
<1>3. ASSUME NEW k \in 1..Len(s), s[k] # s[i]
      PROVE  s[k] \in {t[j] : j \in 1..Len(t)}
  <2>1. CASE k < i
    <3>1. k \in 1..Len(t) /\ t[k] = s[k]
      BY <1>1, <2>1
    <3>2. QED
      BY <3>1
  <2>2. CASE ~(k < i)
    <3>1. k # i
      BY <1>3
    <3>2. k - 1 \in 1..Len(t) /\ ~(k - 1 < i) /\ (k - 1) + 1 = k
      BY <1>1, <2>2, <3>1
    <3>3. t[k - 1] = s[k]
      BY <1>1, <3>2
    <3>4. QED
      BY <3>2, <3>3
  <2>3. QED
    BY <2>1, <2>2
<1>4. ASSUME NEW j \in 1..Len(t), NEW k \in 1..Len(t), t[j] = t[k]
      PROVE  j = k
  <2>1. j \in Nat /\ k \in Nat /\ j + 1 \in 1..Len(s) /\ k + 1 \in 1..Len(s)
        /\ j \in 1..Len(s) /\ k \in 1..Len(s)
    BY <1>1
  <2>2. CASE j < i /\ k < i
    BY <1>1, <1>4, <2>1, <2>2
  <2>3. CASE ~(j < i) /\ ~(k < i)
    BY <1>1, <1>4, <2>1, <2>3
  <2>4. CASE j < i /\ ~(k < i)
    BY <1>1, <1>4, <2>1, <2>4
  <2>5. CASE ~(j < i) /\ k < i
    BY <1>1, <1>4, <2>1, <2>5
  <2>6. QED
    BY <2>2, <2>3, <2>4, <2>5
<1>5. {t[j] : j \in 1..Len(t)} = {s[j] : j \in 1..Len(s)} \ {s[i]}
  <2>1. {t[j] : j \in 1..Len(t)} \subseteq {s[j] : j \in 1..Len(s)} \ {s[i]}
    BY <1>2
  <2>2. {s[j] : j \in 1..Len(s)} \ {s[i]} \subseteq {t[j] : j \in 1..Len(t)}
    BY <1>3
  <2>3. QED
    BY <2>1, <2>2
<1>6. QED
  BY <1>4, <1>5 DEF t

\* Appending a new element to a sequence without repetitions adds exactly that
\* element, and introduces no repetition.
LEMMA AppendOfDistinct ==
  ASSUME NEW S, NEW s \in Seq(S), NEW e \in S,
         \A j, k \in 1..Len(s) : s[j] = s[k] => j = k,
         e \notin {s[j] : j \in 1..Len(s)}
  PROVE  /\ Append(s, e) \in Seq(S)
         /\ {Append(s, e)[j] : j \in 1..Len(Append(s, e))}
              = {s[j] : j \in 1..Len(s)} \cup {e}
         /\ \A j, k \in 1..Len(Append(s, e)) :
              Append(s, e)[j] = Append(s, e)[k] => j = k
<1> DEFINE t == Append(s, e)
<1>1. /\ Len(s) \in Nat
      /\ t \in Seq(S)
      /\ Len(t) = Len(s) + 1
      /\ \A j \in 1..Len(s) : t[j] = s[j]
      /\ t[Len(s) + 1] = e
  BY AppendProperties, LenProperties
<1> HIDE DEF t
<1>2. 1..Len(t) = 1..Len(s) \cup {Len(s) + 1}
  BY <1>1
<1>3. {t[j] : j \in 1..Len(t)} = {s[j] : j \in 1..Len(s)} \cup {e}
  BY <1>1, <1>2
<1>4. \A j, k \in 1..Len(t) : t[j] = t[k] => j = k
  BY <1>1, <1>2
<1>5. QED
  BY <1>1, <1>3, <1>4 DEF t
=============================================================================
