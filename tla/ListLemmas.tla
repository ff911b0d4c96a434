----------------------------- MODULE ListLemmas -----------------------------
(***************************************************************************)
(* What the C++ code does to a std::list - push_back, pop_front, erase - is *)
(* Append, Tail and RemoveAt in the models.  Here is what these do to a    *)
(* list without repetitions: its length, the set of its elements, and that *)
(* it stays without repetitions.                                           *)
(*                                                                         *)
(* Before that, induction over the natural numbers, which the proofs about *)
(* recursive functions need, in a form that has no predicate as parameter. *)
(***************************************************************************)
EXTENDS SequencesExt, SequenceTheorems, FiniteSetTheorems, WellFoundedInduction,
        TLAPS

\* A set of natural numbers has a least one.
LEMMA LeastNatural ==
  ASSUME NEW T \in SUBSET Nat, T # {}
  PROVE  \E n \in T : \A m \in T : n <= m
<1>. DEFINE R == OpToRel(<, Nat)
<1>1. \A m, n \in Nat : <<m, n>> \in R <=> m < n
  BY DEF OpToRel
<1>2. IsWellFoundedOn(R, Nat)
  BY NatLessThanWellFounded
<1>. HIDE DEF R
<1>3. PICK n \in T : \A m \in T : <<m, n>> \notin R
  BY <1>2, WFMin
<1>4. \A m \in T : ~(m < n)
  BY <1>1, <1>3
<1>5. \A m \in T : n <= m
  BY <1>4
<1>. QED  BY <1>5

\* Induction: a number is in T if all smaller ones are.  (The induction theorems
\* of the library speak of a predicate, which the provers cannot guess.)
LEMMA SetInduction ==
  ASSUME NEW T, \A n \in Nat : (\A m \in 0..(n - 1) : m \in T) => n \in T
  PROVE  \A n \in Nat : n \in T
<1>. SUFFICES ASSUME Nat \ T # {} PROVE FALSE
  OBVIOUS
<1>1. PICK n \in Nat \ T : \A m \in Nat \ T : n <= m
  BY LeastNatural
<1>2. \A m \in 0..(n - 1) : m \in T
  BY <1>1
<1>. QED  BY <1>1, <1>2

\* Induction from a number to the next.
LEMMA StepInduction ==
  ASSUME NEW T, 0 \in T, \A n \in Nat : n \in T => n + 1 \in T
  PROVE  \A n \in Nat : n \in T
<1>1. ASSUME NEW n \in Nat, \A m \in 0..(n - 1) : m \in T PROVE n \in T
  <2>1. CASE n = 0
    BY <2>1
  <2>2. CASE n # 0
    <3>1. n - 1 \in Nat /\ n - 1 \in 0..(n - 1) /\ (n - 1) + 1 = n
      BY <2>2
    <3>2. n - 1 \in T
      BY <1>1, <3>1
    <3>. QED  BY <3>1, <3>2
  <2>. QED  BY <2>1, <2>2
<1>. QED  BY <1>1, SetInduction
-----------------------------------------------------------------------------

\* The front leaves a list.
LEMMA TailOfList ==
  ASSUME NEW S, NEW s \in Seq(S), s # <<>>, IsInjective(s)
  PROVE  /\ Head(s) \in Range(s) /\ Head(s) \in S
         /\ Tail(s) \in Seq(S) /\ IsInjective(Tail(s))
         /\ Range(Tail(s)) = Range(s) \ {Head(s)}
         /\ Len(s) \in Nat \ {0} /\ Len(Tail(s)) = Len(s) - 1
<1>1. /\ Tail(s) \in Seq(S) /\ Len(Tail(s)) = Len(s) - 1 /\ Head(s) \in S
      /\ \A i \in 1..Len(Tail(s)) : Tail(s)[i] = s[i + 1]
      /\ Len(s) \in Nat \ {0} /\ Head(s) = s[1]
  BY HeadTailProperties, EmptySeq
<1>2. DOMAIN s = 1..Len(s) /\ DOMAIN Tail(s) = 1..Len(Tail(s))
  BY <1>1, LenProperties
<1>3. IsInjective(Tail(s))
  BY <1>1, <1>2 DEF IsInjective
<1>4. ASSUME NEW x PROVE x \in Range(Tail(s)) <=> x \in Range(s) /\ x # Head(s)
  <2>1. ASSUME x \in Range(Tail(s)) PROVE x \in Range(s) /\ x # Head(s)
    <3>1. PICK i \in 1..Len(Tail(s)) : x = s[i + 1]
      BY <1>1, <1>2, <2>1 DEF Range
    <3>2. i + 1 \in 1..Len(s) /\ 1 \in 1..Len(s) /\ i + 1 # 1
      BY <1>1
    <3>. QED  BY <1>1, <1>2, <3>1, <3>2 DEF Range, IsInjective
  <2>2. ASSUME x \in Range(s), x # Head(s) PROVE x \in Range(Tail(s))
    <3>1. PICK i \in 1..Len(s) : x = s[i]
      BY <1>2, <2>2 DEF Range
    <3>2. i - 1 \in 1..Len(Tail(s)) /\ Tail(s)[i - 1] = s[i]
      BY <1>1, <2>2, <3>1
    <3>. QED  BY <1>2, <3>1, <3>2 DEF Range
  <2>. QED  BY <2>1, <2>2
<1>5. Head(s) \in Range(s)
  BY <1>1, <1>2 DEF Range
<1>. QED  BY <1>1, <1>3, <1>4, <1>5

\* An element that is not in a list goes to its end.
LEMMA AppendToList ==
  ASSUME NEW S, NEW s \in Seq(S), IsInjective(s), NEW e \in S, e \notin Range(s)
  PROVE  /\ Append(s, e) \in Seq(S) /\ IsInjective(Append(s, e))
         /\ Range(Append(s, e)) = Range(s) \cup {e}
         /\ Len(s) \in Nat /\ Len(Append(s, e)) = Len(s) + 1
<1>1. /\ Append(s, e) \in Seq(S) /\ Len(s) \in Nat /\ Len(Append(s, e)) = Len(s) + 1
      /\ \A i \in 1..Len(s) : Append(s, e)[i] = s[i]
      /\ Append(s, e)[Len(s) + 1] = e
  BY AppendProperties, LenProperties
<1>2. DOMAIN s = 1..Len(s) /\ DOMAIN Append(s, e) = 1..(Len(s) + 1)
  BY <1>1, LenProperties
<1>3. \A i \in 1..Len(s) : s[i] # e
  BY <1>2 DEF Range
<1>4. \A i \in 1..(Len(s) + 1) : i \in 1..Len(s) \/ i = Len(s) + 1
  BY <1>1
<1>5. IsInjective(Append(s, e))
  BY <1>1, <1>2, <1>3, <1>4 DEF IsInjective
<1>6. Range(Append(s, e)) = Range(s) \cup {e}
  <2>1. ASSUME NEW x \in Range(Append(s, e)) PROVE x \in Range(s) \cup {e}
    BY <1>1, <1>2, <1>4 DEF Range
  <2>2. ASSUME NEW x \in Range(s) PROVE x \in Range(Append(s, e))
    <3>1. \A i \in 1..Len(s) : i \in 1..(Len(s) + 1)
      BY <1>1
    <3>. QED  BY <1>1, <1>2, <3>1 DEF Range
  <2>3. e \in Range(Append(s, e))
    BY <1>1, <1>2 DEF Range
  <2>. QED  BY <2>1, <2>2, <2>3
<1>. QED  BY <1>1, <1>5, <1>6

\* An element leaves a sequence from the middle.
LEMMA RemoveAtIs ==
  ASSUME NEW S, NEW s \in Seq(S), NEW i \in 1..Len(s)
  PROVE  /\ RemoveAt(s, i) \in Seq(S) /\ Len(RemoveAt(s, i)) = Len(s) - 1
         /\ \A k \in 1..(Len(s) - 1) :
              RemoveAt(s, i)[k] = IF k < i THEN s[k] ELSE s[k + 1]
         /\ Len(s) \in Nat \ {0}
<1>. DEFINE a == SubSeq(s, 1, i - 1)
            b == SubSeq(s, i + 1, Len(s))
            r == RemoveAt(s, i)
            n == Len(s)
<1>1. n \in Nat \ {0} /\ i \in 1..n /\ DOMAIN s = 1..n /\ \A k \in 1..n : s[k] \in S
  BY LenProperties, ElementOfSeq
<1>2. /\ a \in Seq(S) /\ Len(a) = i - 1
      /\ \A k \in 1..(i - 1) : a[k] = s[k]
  <2>1. \A k \in 1..(i - 1) : s[k] \in S
    BY <1>1
  <2>2. \A k \in 1..(i - 1) : 1 + k - 1 = k
    OBVIOUS
  <2>. QED  BY <2>1, <2>2, <1>1, SubSeqProperties
<1>3. /\ b \in Seq(S) /\ Len(b) = n - i
      /\ \A k \in 1..(n - i) : b[k] = s[i + k]
  <2>1. \A k \in (i + 1)..n : s[k] \in S
    BY <1>1
  <2>2. /\ b \in Seq(S) /\ Len(b) = IF i + 1 <= n THEN n - (i + 1) + 1 ELSE 0
        /\ \A k \in 1..(n - (i + 1) + 1) : b[k] = s[(i + 1) + k - 1]
    BY <2>1, <1>1, SubSeqProperties
  <2>3. n - (i + 1) + 1 = n - i /\ \A k \in 1..(n - i) : (i + 1) + k - 1 = i + k
    BY <1>1
  <2>. HIDE DEF b
  <2>4. Len(b) = n - i
    <3>1. n \in Nat /\ i \in Nat /\ i <= n
      BY <1>1
    <3>2. (IF i + 1 <= n THEN n - (i + 1) + 1 ELSE 0) = n - i
      <4>. HIDE DEF n
      <4>. QED  BY <3>1
    <3>. QED  BY <2>2, <3>2
  <2>5. \A k \in 1..(n - i) : b[k] = s[i + k]
    BY <2>2, <2>3
  <2>6. b \in Seq(S)
    BY <2>2
  <2>. QED  BY <2>4, <2>5, <2>6
<1>. HIDE DEF a, b
<1>4. /\ r \in Seq(S) /\ Len(r) = n - 1
      /\ \A k \in 1..(n - 1) : r[k] = IF k < i THEN s[k] ELSE s[k + 1]
  <2>1. r = a \o b
    BY DEF RemoveAt, a, b
  <2>2. /\ a \o b \in Seq(S) /\ Len(a \o b) = n - 1
        /\ \A k \in 1..(n - 1) :
             (a \o b)[k] = IF k <= i - 1 THEN a[k] ELSE b[k - (i - 1)]
    <3>1. /\ a \o b \in Seq(S) /\ Len(a \o b) = Len(a) + Len(b)
          /\ \A k \in 1..(Len(a) + Len(b)) :
               (a \o b)[k] = IF k <= Len(a) THEN a[k] ELSE b[k - Len(a)]
      BY <1>2, <1>3, ConcatProperties
    <3>2. Len(a) + Len(b) = n - 1
      BY <1>1, <1>2, <1>3
    <3>. QED  BY <1>2, <3>1, <3>2
  <2>3. ASSUME NEW k \in 1..(n - 1)
        PROVE  r[k] = IF k < i THEN s[k] ELSE s[k + 1]
    <3>1. CASE k < i
      <4>1. k <= i - 1 /\ k \in 1..(i - 1)
        BY <1>1, <3>1
      <4>. QED  BY <1>2, <2>1, <2>2, <3>1, <4>1
    <3>2. CASE ~(k < i)
      <4>1. ~(k <= i - 1) /\ k - (i - 1) \in 1..(n - i) /\ i + (k - (i - 1)) = k + 1
        BY <1>1, <3>2
      <4>. QED  BY <1>3, <2>1, <2>2, <3>2, <4>1
    <3>. QED  BY <3>1, <3>2
  <2>. QED  BY <2>1, <2>2, <2>3
<1>. QED  BY <1>1, <1>4 DEF r, n

\* An element leaves a list from the middle.
LEMMA RemoveFromList ==
  ASSUME NEW S, NEW s \in Seq(S), IsInjective(s), NEW i \in 1..Len(s)
  PROVE  /\ s[i] \in S /\ s[i] \in Range(s)
         /\ RemoveAt(s, i) \in Seq(S) /\ IsInjective(RemoveAt(s, i))
         /\ Range(RemoveAt(s, i)) = Range(s) \ {s[i]}
         /\ Len(s) \in Nat \ {0} /\ Len(RemoveAt(s, i)) = Len(s) - 1
<1>. DEFINE r == RemoveAt(s, i)
            n == Len(s)
<1>1. n \in Nat \ {0} /\ i \in 1..n /\ DOMAIN s = 1..n /\ \A k \in 1..n : s[k] \in S
  BY LenProperties, ElementOfSeq
<1>2. /\ r \in Seq(S) /\ Len(r) = n - 1
      /\ \A k \in 1..(n - 1) : r[k] = IF k < i THEN s[k] ELSE s[k + 1]
  BY RemoveAtIs
<1>3. DOMAIN r = 1..(n - 1)
  BY <1>2, LenProperties
<1>. HIDE DEF r
<1>4. IsInjective(r)
  <2>. SUFFICES ASSUME NEW j \in 1..(n - 1), NEW k \in 1..(n - 1), r[j] = r[k]
                PROVE  j = k
    BY <1>3 DEF IsInjective
  <2>. DEFINE up(m) == IF m < i THEN m ELSE m + 1
  <2>1. up(j) \in 1..n /\ up(k) \in 1..n /\ r[j] = s[up(j)] /\ r[k] = s[up(k)]
    BY <1>1, <1>2
  <2>2. up(j) = up(k)
    BY <1>1, <2>1 DEF IsInjective
  <2>. QED  BY <1>1, <2>2
<1>5. ASSUME NEW x PROVE x \in Range(r) <=> x \in Range(s) /\ x # s[i]
  <2>1. ASSUME x \in Range(r) PROVE x \in Range(s) /\ x # s[i]
    <3>1. PICK k \in 1..(n - 1) : x = r[k]
      BY <1>3, <2>1 DEF Range
    <3>2. PICK m \in 1..n : m # i /\ x = s[m]
      <4>1. CASE k < i
        BY <1>1, <1>2, <3>1, <4>1
      <4>2. CASE ~(k < i)
        <5>1. k + 1 \in 1..n /\ k + 1 # i /\ r[k] = s[k + 1]
          BY <1>1, <1>2, <4>2
        <5>. QED  BY <3>1, <5>1
      <4>. QED  BY <4>1, <4>2
    <3>. QED  BY <1>1, <3>2 DEF Range, IsInjective
  <2>2. ASSUME x \in Range(s), x # s[i] PROVE x \in Range(r)
    <3>1. PICK m \in 1..n : x = s[m]
      BY <1>1, <2>2 DEF Range
    <3>2. m < i \/ m > i
      BY <1>1, <2>2, <3>1
    <3>3. CASE m < i
      <4>1. m \in 1..(n - 1) /\ r[m] = s[m]
        BY <1>1, <1>2, <3>3
      <4>. QED  BY <1>3, <3>1, <4>1 DEF Range
    <3>4. CASE m > i
      <4>1. m - 1 \in 1..(n - 1) /\ ~(m - 1 < i) /\ (m - 1) + 1 = m
        BY <1>1, <3>4
      <4>2. r[m - 1] = s[m]
        BY <1>2, <4>1
      <4>. QED  BY <1>3, <3>1, <4>1, <4>2 DEF Range
    <3>. QED  BY <3>2, <3>3, <3>4
  <2>. QED  BY <2>1, <2>2
<1>6. Range(r) = Range(s) \ {s[i]}
  BY <1>5
<1>7. s[i] \in S /\ s[i] \in Range(s)
  BY <1>1 DEF Range
<1>. QED  BY <1>1, <1>2, <1>4, <1>6, <1>7 DEF r

\* A list without repetitions is as long as the set of its elements is large.
LEMMA CardinalityOfList ==
  ASSUME NEW S, NEW s \in Seq(S), IsInjective(s)
  PROVE  /\ IsFiniteSet(Range(s)) /\ Cardinality(Range(s)) = Len(s)
         /\ Range(s) \subseteq S /\ Len(s) \in Nat
<1>1. Len(s) \in Nat /\ s \in [1..Len(s) -> S] /\ DOMAIN s = 1..Len(s)
  BY LenProperties
<1>2. s \in Bijection(1..Len(s), Range(s))
  BY <1>1 DEF Bijection, Injection, Surjection, Range, IsInjective
<1>3. IsFiniteSet(1..Len(s)) /\ Cardinality(1..Len(s)) = Len(s)
  BY <1>1, FS_Interval
<1>4. ExistsBijection(1..Len(s), Range(s))
  BY <1>2 DEF ExistsBijection
<1>5. Range(s) \subseteq S
  BY <1>1 DEF Range
<1>. QED  BY <1>1, <1>3, <1>4, <1>5, FS_Bijection

\* A piece from the middle of a list.
LEMMA PieceOfList ==
  ASSUME NEW S, NEW s \in Seq(S), NEW m \in Nat, NEW n \in Nat, m + n <= Len(s)
  PROVE  /\ SubSeq(s, m + 1, m + n) \in Seq(S) /\ Len(SubSeq(s, m + 1, m + n)) = n
         /\ \A i \in 1..n : SubSeq(s, m + 1, m + n)[i] = s[m + i]
<1>1. Len(s) \in Nat /\ \A i \in 1..Len(s) : s[i] \in S
  BY LenProperties, ElementOfSeq
<1>2. m + 1 \in Int /\ m + n \in Int /\ \A i \in (m + 1)..(m + n) : s[i] \in S
  BY <1>1
<1>. DEFINE a == m + 1
            b == m + n
            cut == SubSeq(s, a, b)
<1>3. /\ b - a + 1 = n /\ (IF a <= b THEN b - a + 1 ELSE 0) = n
      /\ \A i \in 1..n : a + i - 1 = m + i
  OBVIOUS
<1>4. /\ cut \in Seq(S)
      /\ Len(cut) = IF a <= b THEN b - a + 1 ELSE 0
      /\ \A i \in 1..(b - a + 1) : cut[i] = s[a + i - 1]
  <2>1. a \in Int /\ b \in Int /\ \A i \in a..b : s[i] \in S
    BY <1>2
  <2>. HIDE DEF a, b
  <2>. QED  BY <2>1, SubSeqProperties, SMTT(20)
<1>5. cut \in Seq(S) /\ Len(cut) = n /\ \A i \in 1..n : cut[i] = s[m + i]
  <2>. HIDE DEF cut, a, b
  <2>. QED  BY <1>3, <1>4
<1>. QED  BY <1>5
=============================================================================
