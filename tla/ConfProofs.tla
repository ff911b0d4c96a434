----------------------------- MODULE ConfProofs -----------------------------
(***************************************************************************)
(* Theorems about Conf: what loading a configuration and looking an item   *)
(* up compute, for any files and names and any size of the buffer.         *)
(***************************************************************************)
EXTENDS Parts, ListLemmas

-----------------------------------------------------------------------------
(* Texts *)

Text == Seq(Chars)

\* Texts with the same characters are the same.
LEMMA SameText ==
  ASSUME NEW s \in Text, NEW t \in Text, Len(s) = Len(t),
         \A i \in 1..Len(s) : s[i] = t[i]
  PROVE  s = t
BY SeqEqual DEF Text

LEMMA TextLen ==
  ASSUME NEW s \in Text
  PROVE  /\ Len(s) \in Nat /\ DOMAIN s = 1..Len(s) /\ \A i \in 1..Len(s) : s[i] \in Chars
         /\ s \in [1..Len(s) -> Chars]
BY LenProperties, ElementOfSeq DEF Text

LEMMA NoText ==
  /\ <<>> \in Text /\ Len(<<>>) = 0
  /\ \A s \in Text : s \o <<>> = s /\ <<>> \o s = s
  /\ \A s \in Text : Len(s) = 0 => s = <<>>
<1>1. <<>> \in Text /\ Len(<<>>) = 0
  BY EmptySeq DEF Text
<1>2. ASSUME NEW s \in Text PROVE s \o <<>> = s /\ <<>> \o s = s
  BY ConcatEmptySeq DEF Text
<1>3. ASSUME NEW s \in Text, Len(s) = 0 PROVE s = <<>>
  BY <1>1, <1>3, SameText
<1>. QED  BY <1>1, <1>2, <1>3

\* A piece from the middle.
LEMMA Piece ==
  ASSUME NEW s \in Text, NEW m \in Nat, NEW n \in Nat, m + n <= Len(s)
  PROVE  /\ SubSeq(s, m + 1, m + n) \in Text /\ Len(SubSeq(s, m + 1, m + n)) = n
         /\ \A i \in 1..n : SubSeq(s, m + 1, m + n)[i] = s[m + i]
BY PieceOfList DEF Text

-----------------------------------------------------------------------------
(* The least and the greatest of a set of numbers *)

LEMMA MinIs ==
  ASSUME NEW T \in SUBSET Nat, T # {}
  PROVE  F!Min(T) \in T /\ \A m \in T : F!Min(T) <= m
<1>1. \E n \in T : \A m \in T : n <= m
  BY LeastNatural
<1>. QED  BY <1>1 DEF F!Min

LEMMA MaxIs ==
  ASSUME NEW n \in Nat, NEW T \in SUBSET (0..n), T # {}
  PROVE  F!Max(T) \in T /\ \A m \in T : m <= F!Max(T)
<1>. DEFINE R == {r \in Nat : n - r \in T}
<1>1. PICK t \in T : TRUE
  OBVIOUS
<1>2. n - t \in R /\ R \in SUBSET Nat /\ R # {}
  <2>1. n - t \in Nat /\ n - (n - t) = t
    BY <1>1
  <2>. QED  BY <1>1, <2>1
<1>3. PICK r \in R : \A s \in R : r <= s
  BY <1>2, LeastNatural
<1>4. n - r \in T
  BY <1>3
<1>5. ASSUME NEW m \in T PROVE n - r >= m
  <2>1. n - m \in Nat /\ n - (n - m) = m
    BY <1>5
  <2>2. n - m \in R
    BY <1>5, <2>1
  <2>3. r <= n - m
    BY <1>3, <2>2
  <2>. QED  BY <1>3, <2>1, <2>3
<1>6. \E x \in T : \A y \in T : x >= y
  BY <1>4, <1>5
<1>7. F!Max(T) \in T /\ \A y \in T : F!Max(T) >= y
  BY <1>6 DEF F!Max
<1>8. \A x \in T : x \in Int
  OBVIOUS
<1>. QED  BY <1>7, <1>8
-----------------------------------------------------------------------------
(* Blanks are cut off *)

\* How much is kept where these characters are cut off at the end.
KeptLen(s, chars) ==
  IF \E k \in DOMAIN s : s[k] \notin chars
    THEN F!Max({k \in DOMAIN s : s[k] \notin chars}) ELSE 0

LEMMA TrimmedIs ==
  ASSUME NEW s \in Text, NEW chars
  PROVE  /\ KeptLen(s, chars) \in 0..Len(s)
         /\ F!Trimmed(s, chars) = SubSeq(s, 1, KeptLen(s, chars))
         /\ \A k \in 1..Len(s) : k > KeptLen(s, chars) => s[k] \in chars
         /\ KeptLen(s, chars) # 0 => s[KeptLen(s, chars)] \notin chars
<1>. DEFINE kept == {k \in DOMAIN s : s[k] \notin chars}
            m == KeptLen(s, chars)
<1>1. Len(s) \in Nat /\ DOMAIN s = 1..Len(s)
  BY TextLen
<1>2. CASE kept = {}
  <2>1. m = 0
    BY <1>2 DEF KeptLen
  <2>2. SubSeq(s, 1, 0) = <<>>
    <3>1. SubSeq(s, 1, 0) \in Text /\ Len(SubSeq(s, 1, 0)) = 0
      <4>. DEFINE z == 0
      <4>1. z \in Nat /\ z + z <= Len(s) /\ z + 1 = 1 /\ z + z = 0
        BY <1>1
      <4>. HIDE DEF z
      <4>2. SubSeq(s, z + 1, z + z) \in Text /\ Len(SubSeq(s, z + 1, z + z)) = z
        BY <4>1, Piece
      <4>. QED  BY <4>1, <4>2 DEF z
    <3>. QED  BY <3>1, NoText
  <2>3. F!Trimmed(s, chars) = <<>>
    BY <1>2 DEF F!Trimmed
  <2>. QED  BY <1>1, <1>2, <2>1, <2>2, <2>3
<1>3. CASE kept # {}
  <2>1. m = F!Max(kept)
    BY <1>3 DEF KeptLen
  <2>2. kept \in SUBSET (0..Len(s))
    BY <1>1
  <2>3. m \in kept /\ \A k \in kept : k <= m
    <3>. HIDE DEF kept, m
    <3>. QED  BY <1>1, <1>3, <2>1, <2>2, MaxIs
  <2>4. F!Trimmed(s, chars) = SubSeq(s, 1, m)
    BY <1>3, <2>1 DEF F!Trimmed
  <2>. HIDE DEF m
  <2>5. m \in 1..Len(s) /\ s[m] \notin chars
    BY <1>1, <2>3
  <2>6. ASSUME NEW k \in 1..Len(s), k > m PROVE s[k] \in chars
    BY <1>1, <2>3, <2>5, <2>6
  <2>. QED  BY <1>1, <2>4, <2>5, <2>6 DEF m
<1>. QED  BY <1>2, <1>3

\* The beginning of a text.
LEMMA Beginning ==
  ASSUME NEW s \in Text, NEW n \in 0..Len(s)
  PROVE  /\ SubSeq(s, 1, n) \in Text /\ Len(SubSeq(s, 1, n)) = n
         /\ \A i \in 1..n : SubSeq(s, 1, n)[i] = s[i]
<1>1. Len(s) \in Nat
  BY TextLen
<1>. DEFINE z == 0
<1>2. z \in Nat /\ n \in Nat /\ z + n <= Len(s) /\ z + 1 = 1 /\ z + n = n
      /\ \A i \in 1..n : z + i = i
  BY <1>1
<1>. DEFINE p == SubSeq(s, z + 1, z + n)
<1>3. p \in Text /\ Len(p) = n /\ \A i \in 1..n : p[i] = s[z + i]
  <2>. HIDE DEF z
  <2>. QED  BY <1>2, Piece
<1>4. p = SubSeq(s, 1, n)
  BY <1>2
<1>. HIDE DEF p, z
<1>. QED  BY <1>2, <1>3, <1>4

LEMMA ReverseIs ==
  ASSUME NEW s \in Text
  PROVE  /\ F!Reverse(s) \in Text /\ Len(F!Reverse(s)) = Len(s)
         /\ \A i \in 1..Len(s) : F!Reverse(s)[i] = s[Len(s) - i + 1]
<1>1. Len(s) \in Nat /\ \A i \in 1..Len(s) : s[i] \in Chars
  BY TextLen
<1>. DEFINE r == [i \in 1..Len(s) |-> s[(Len(s) - i) + 1]]
<1>2. F!Reverse(s) = r
  BY DEF F!Reverse
<1>3. \A i \in 1..Len(s) : (Len(s) - i) + 1 \in 1..Len(s)
  BY <1>1
<1>4. r \in [1..Len(s) -> Chars]
  BY <1>1, <1>3
<1>5. r \in Text
  <2>. HIDE DEF r
  <2>. QED  BY <1>1, <1>4, SeqDef DEF Text
<1>6. Len(r) = Len(s)
  <2>1. DOMAIN r = 1..Len(s)
    OBVIOUS
  <2>. HIDE DEF r
  <2>2. DOMAIN r = 1..Len(r) /\ Len(r) \in Nat
    BY <1>5, TextLen
  <2>. QED  BY <1>1, <2>1, <2>2
<1>. QED  BY <1>2, <1>5, <1>6

\* Ltrim leaves the end of a text.
LEMMA LtrimIs ==
  ASSUME NEW s \in Text
  PROVE  F!Ltrim(s) = SubSeq(s, Len(s) - KeptLen(F!Reverse(s), {F!Blank}) + 1, Len(s))
<1>. DEFINE r == F!Reverse(s)
            m == KeptLen(r, {F!Blank})
            t == SubSeq(r, 1, m)
            n == Len(s) - m
            p == SubSeq(s, n + 1, n + m)
<1>1. Len(s) \in Nat /\ r \in Text /\ Len(r) = Len(s)
      /\ \A i \in 1..Len(s) : r[i] = s[Len(s) - i + 1]
  BY TextLen, ReverseIs
<1>2. m \in 0..Len(s) /\ F!Ltrim(s) = F!Reverse(t)
  <2>1. m \in 0..Len(r) /\ F!Trimmed(r, {F!Blank}) = SubSeq(r, 1, m)
    BY <1>1, TrimmedIs
  <2>. QED  BY <1>1, <2>1 DEF F!Ltrim, F!Rtrim
<1>. HIDE DEF r, m
<1>3. t \in Text /\ Len(t) = m /\ \A i \in 1..m : t[i] = r[i]
  BY <1>1, <1>2, Beginning
<1>. HIDE DEF t
<1>4. /\ F!Reverse(t) \in Text /\ Len(F!Reverse(t)) = m
      /\ \A i \in 1..m : F!Reverse(t)[i] = t[m - i + 1]
  BY <1>3, ReverseIs
<1>5. n \in Nat /\ m \in Nat /\ n + m = Len(s) /\ n + m <= Len(s)
  BY <1>1, <1>2
<1>6. p \in Text /\ Len(p) = m /\ \A i \in 1..m : p[i] = s[n + i]
  <2>. HIDE DEF n
  <2>. QED  BY <1>5, Piece
<1>7. ASSUME NEW i \in 1..m PROVE F!Reverse(t)[i] = p[i]
  <2>1. /\ m - i + 1 \in 1..m /\ m - i + 1 \in 1..Len(s)
        /\ Len(s) - (m - i + 1) + 1 = n + i
    BY <1>1, <1>2
  <2>2. F!Reverse(t)[i] = t[m - i + 1] /\ p[i] = s[n + i]
    BY <1>4, <1>6
  <2>3. t[m - i + 1] = r[m - i + 1]
    BY <1>3, <2>1
  <2>4. r[m - i + 1] = s[Len(s) - (m - i + 1) + 1]
    BY <1>1, <2>1
  <2>. QED  BY <2>1, <2>2, <2>3, <2>4
<1>8. F!Reverse(t) = p
  <2>. DEFINE q == F!Reverse(t)
  <2>. HIDE DEF p, q
  <2>1. q \in Text /\ Len(q) = Len(p) /\ \A i \in 1..Len(q) : q[i] = p[i]
    BY <1>4, <1>6, <1>7 DEF q
  <2>. QED  BY <1>6, <2>1, SameText DEF q
<1>. QED  BY <1>2, <1>5, <1>8 DEF r, m, t, p
-----------------------------------------------------------------------------
(* What is left of a name or a value without the blanks around it *)

Trim(s) == F!Ltrim(F!Rtrim(s))

\* Where the text s stands in t, followed by blanks only, s without blanks is t
\* without blanks.
LEMMA TrimStrips ==
  ASSUME NEW t \in Text, NEW n \in 0..Len(t),
         \A j \in 1..Len(t) : j > n => t[j] = F!Blank
  PROVE  Trim(SubSeq(t, 1, n)) \in Text /\ F!Stripped(t, Trim(SubSeq(t, 1, n)))
<1>. DEFINE s == SubSeq(t, 1, n)
            m == KeptLen(s, {F!Blank})
            r == SubSeq(s, 1, m)
            v == F!Reverse(r)
            c == KeptLen(v, {F!Blank})
            q == m - c
            inner == SubSeq(t, q + 1, m)
            part1 == SubSeq(r, q + 1, m)
<1>1. Len(t) \in Nat /\ n \in Nat
  BY TextLen
<1>2. s \in Text /\ Len(s) = n /\ \A i \in 1..n : s[i] = t[i]
  BY Beginning
<1>. HIDE DEF s
<1>3. /\ m \in 0..n /\ F!Rtrim(s) = r /\ \A k \in 1..n : k > m => s[k] = F!Blank
      /\ m # 0 => s[m] # F!Blank
  BY <1>2, TrimmedIs DEF F!Rtrim
<1>. HIDE DEF m
<1>4. r \in Text /\ Len(r) = m /\ \A i \in 1..m : r[i] = t[i]
  <2>1. r \in Text /\ Len(r) = m /\ \A i \in 1..m : r[i] = s[i]
    BY <1>2, <1>3, Beginning
  <2>2. \A i \in 1..m : i \in 1..n
    BY <1>1, <1>3
  <2>. QED  BY <1>2, <2>1, <2>2
<1>. HIDE DEF r
<1>5. v \in Text /\ Len(v) = m /\ \A i \in 1..m : v[i] = r[m - i + 1]
  BY <1>4, ReverseIs
<1>6. F!Ltrim(r) = part1
  BY <1>4, LtrimIs
<1>. HIDE DEF v
<1>7. /\ c \in 0..m /\ \A k \in 1..m : k > c => v[k] = F!Blank
      /\ c # 0 => v[c] # F!Blank
  BY <1>5, TrimmedIs
<1>. HIDE DEF c
<1>8. /\ q \in Nat /\ c \in Nat /\ m \in Nat /\ q + c = m /\ q + c <= Len(t) /\ q + c <= Len(r)
      /\ m <= Len(t)
  BY <1>1, <1>3, <1>4, <1>7
<1>. HIDE DEF q
<1>9. /\ inner \in Text /\ Len(inner) = c /\ \A i \in 1..c : inner[i] = t[q + i]
  <2>1. SubSeq(t, q + 1, q + c) \in Text /\ Len(SubSeq(t, q + 1, q + c)) = c
        /\ \A i \in 1..c : SubSeq(t, q + 1, q + c)[i] = t[q + i]
    BY <1>8, Piece
  <2>. QED  BY <1>8, <2>1
<1>10. /\ part1 \in Text /\ Len(part1) = c /\ \A i \in 1..c : part1[i] = r[q + i]
  <2>1. SubSeq(r, q + 1, q + c) \in Text /\ Len(SubSeq(r, q + 1, q + c)) = c
        /\ \A i \in 1..c : SubSeq(r, q + 1, q + c)[i] = r[q + i]
    BY <1>4, <1>8, Piece
  <2>. QED  BY <1>8, <2>1
<1>. HIDE DEF inner, part1
<1>11. Trim(s) = inner
  <2>1. \A i \in 1..c : q + i \in 1..m
    BY <1>8
  <2>2. \A i \in 1..c : part1[i] = inner[i]
    BY <1>4, <1>9, <1>10, <2>1
  <2>3. part1 = inner
    BY <1>9, <1>10, <2>2, SameText
  <2>. QED  BY <1>3, <1>6, <2>3 DEF Trim
<1>12. ASSUME NEW j \in 1..Len(t), j <= q \/ j > m PROVE t[j] = F!Blank
  <2>1. CASE j <= q
    <3>1. /\ j \in 1..m /\ m - j + 1 \in 1..m /\ m - j + 1 > c
          /\ m - (m - j + 1) + 1 = j
      BY <1>8, <2>1
    <3>2. v[m - j + 1] = F!Blank
      BY <1>7, <3>1
    <3>3. v[m - j + 1] = r[m - (m - j + 1) + 1]
      BY <1>5, <3>1
    <3>. QED  BY <1>4, <3>1, <3>2, <3>3
  <2>2. CASE j > m /\ j <= n
    <3>1. j \in 1..n
      BY <1>1, <2>2
    <3>. QED  BY <1>2, <1>3, <2>2, <3>1
  <2>3. CASE j > n
    BY <2>3
  <2>. QED  BY <1>1, <1>8, <1>12, <2>1, <2>2, <2>3
<1>13. ASSUME inner # <<>> PROVE Head(inner) # F!Blank /\ F!Last(inner) # F!Blank
  <2>1. c \in 1..m /\ 1 \in 1..c /\ c \in 1..c
    <3>1. c # 0
      BY <1>9, <1>13, NoText
    <3>. QED  BY <1>8, <3>1
  <2>2. Head(inner) = inner[1] /\ F!Last(inner) = inner[c]
    BY <1>9, <1>13 DEF Text, F!Last
  <2>3. q + 1 \in 1..m /\ m - c + 1 = q + 1 /\ m \in 1..m /\ m # 0 /\ m \in 1..n
    BY <1>1, <1>3, <1>8, <2>1
  <2>4. v[c] = r[q + 1] /\ v[c] # F!Blank
    <3>1. v[c] = r[m - c + 1]
      BY <1>5, <2>1
    <3>. QED  BY <1>7, <2>1, <2>3, <3>1
  <2>5. t[q + 1] # F!Blank
    BY <1>4, <2>3, <2>4
  <2>6. t[m] # F!Blank
    BY <1>2, <1>3, <2>3
  <2>. QED  BY <1>8, <1>9, <2>1, <2>2, <2>5, <2>6
<1>14. F!Stripped(t, inner)
  <2>. DEFINE k == Len(t) - m
  <2>1. /\ q \in 0..Len(t) /\ k \in 0..Len(t) /\ q + k <= Len(t) /\ Len(t) - k = m
    BY <1>1, <1>8
  <2>2. inner = SubSeq(t, q + 1, Len(t) - k)
    BY <2>1 DEF inner
  <2>3. DOMAIN t = 1..Len(t)
    BY TextLen
  <2>. HIDE DEF k
  <2>4. \A j \in DOMAIN t : j <= q \/ j > Len(t) - k => t[j] = F!Blank
    BY <1>12, <2>1, <2>3
  <2>. QED  BY <1>13, <2>1, <2>2, <2>4 DEF F!Stripped
<1>. QED  BY <1>9, <1>11, <1>14 DEF s

\* There is one text without the blanks.
LEMMA StrippedOnce ==
  ASSUME NEW t \in Text, NEW x, NEW y, F!Stripped(t, x), F!Stripped(t, y)
  PROVE  x = y
<1>1. Len(t) \in Nat /\ DOMAIN t = 1..Len(t)
  BY TextLen
<1>2. PICK i \in 0..Len(t), k \in 0..Len(t) :
        /\ i + k <= Len(t) /\ x = SubSeq(t, i + 1, Len(t) - k)
        /\ \A j \in DOMAIN t : j <= i \/ j > Len(t) - k => t[j] = F!Blank
  BY DEF F!Stripped
<1>3. PICK a \in 0..Len(t), b \in 0..Len(t) :
        /\ a + b <= Len(t) /\ y = SubSeq(t, a + 1, Len(t) - b)
        /\ \A j \in DOMAIN t : j <= a \/ j > Len(t) - b => t[j] = F!Blank
  BY DEF F!Stripped
<1>4. ASSUME NEW p \in 0..Len(t), NEW o \in 0..Len(t), p + o <= Len(t), NEW z,
             z = SubSeq(t, p + 1, Len(t) - o), z # <<>> => Head(z) # F!Blank /\ F!Last(z) # F!Blank
      PROVE  /\ p + o >= Len(t) => z = <<>>
             /\ p + o < Len(t) => t[p + 1] # F!Blank /\ t[Len(t) - o] # F!Blank
  <2>. DEFINE l == Len(t) - o - p
  <2>1. l \in Nat /\ p \in Nat /\ p + l = Len(t) - o /\ p + l <= Len(t)
    BY <1>1, <1>4
  <2>. HIDE DEF l
  <2>2. z \in Text /\ Len(z) = l /\ \A j \in 1..l : z[j] = t[p + j]
    <3>1. z = SubSeq(t, p + 1, p + l)
      BY <1>4, <2>1
    <3>2. /\ SubSeq(t, p + 1, p + l) \in Text /\ Len(SubSeq(t, p + 1, p + l)) = l
          /\ \A j \in 1..l : SubSeq(t, p + 1, p + l)[j] = t[p + j]
      BY <2>1, Piece
    <3>. QED  BY <3>1, <3>2
  <2>3. ASSUME p + o >= Len(t) PROVE z = <<>>
    <3>1. l = 0
      BY <1>1, <1>4, <2>1, <2>3
    <3>. QED  BY <2>2, <3>1, NoText
  <2>4. ASSUME p + o < Len(t) PROVE t[p + 1] # F!Blank /\ t[Len(t) - o] # F!Blank
    <3>1. l # 0
      BY <1>1, <1>4, <2>1, <2>4
    <3>2. 1 \in 1..l /\ l \in 1..l /\ z # <<>>
      BY <2>1, <2>2, <3>1, NoText
    <3>3. Head(z) = z[1] /\ F!Last(z) = z[l]
      BY <2>2, <3>2 DEF Text, F!Last
    <3>. QED  BY <1>4, <2>1, <2>2, <3>2, <3>3
  <2>. QED  BY <2>3, <2>4
<1>5. /\ i + k >= Len(t) => x = <<>>
      /\ i + k < Len(t) => t[i + 1] # F!Blank /\ t[Len(t) - k] # F!Blank
  <2>1. x # <<>> => Head(x) # F!Blank /\ F!Last(x) # F!Blank
    BY DEF F!Stripped
  <2>. QED  BY <1>2, <1>4, <2>1
<1>6. /\ a + b >= Len(t) => y = <<>>
      /\ a + b < Len(t) => t[a + 1] # F!Blank /\ t[Len(t) - b] # F!Blank
  <2>1. y # <<>> => Head(y) # F!Blank /\ F!Last(y) # F!Blank
    BY DEF F!Stripped
  <2>. QED  BY <1>3, <1>4, <2>1
<1>7. i \in Nat /\ k \in Nat /\ i + k <= Len(t) /\ a \in Nat /\ b \in Nat /\ a + b <= Len(t)
  BY <1>1, <1>2, <1>3
<1>8. CASE i + k >= Len(t)
  <2>1. a + b >= Len(t)
    <3>. SUFFICES ASSUME a + b < Len(t) PROVE FALSE
      OBVIOUS
    <3>1. a + 1 \in 1..Len(t) /\ (a + 1 <= i \/ a + 1 > Len(t) - k)
      BY <1>1, <1>8, <1>7
    <3>. QED  BY <1>1, <1>2, <1>6, <3>1
  <2>. QED  BY <1>5, <1>6, <1>8, <2>1
<1>9. CASE i + k < Len(t)
  <2>1. a + b < Len(t)
    <3>. SUFFICES ASSUME a + b >= Len(t) PROVE FALSE
      OBVIOUS
    <3>1. i + 1 \in 1..Len(t) /\ (i + 1 <= a \/ i + 1 > Len(t) - b)
      BY <1>1, <1>9, <1>7
    <3>. QED  BY <1>1, <1>3, <1>5, <1>9, <3>1
  <2>2. /\ i + 1 \in 1..Len(t) /\ a + 1 \in 1..Len(t)
        /\ Len(t) - k \in 1..Len(t) /\ Len(t) - b \in 1..Len(t)
    BY <1>1, <1>9, <1>7, <2>1
  <2>3. ~(i + 1 <= a) /\ ~(Len(t) - k > Len(t) - b)
    BY <1>1, <1>3, <1>5, <1>9, <2>2
  <2>4. ~(a + 1 <= i) /\ ~(Len(t) - b > Len(t) - k)
    BY <1>1, <1>2, <1>6, <2>1, <2>2
  <2>5. i = a /\ k = b
    BY <1>1, <1>7, <2>2, <2>3, <2>4
  <2>. QED  BY <1>2, <1>3, <2>5
<1>. QED  BY <1>8, <1>9
-----------------------------------------------------------------------------
(* What a line says *)

Items == [ItemName : Text, ItemContent : Text]

\* The item that a line with an = becomes.
ItemAt(text) ==
  [ItemName |-> Trim(SubSeq(text, 1, F!Separator(text) - 1)),
   ItemContent |-> Trim(SubSeq(text, F!Separator(text) + 1, Len(text)))]

LEMMA SeparatorIs ==
  ASSUME NEW s \in Text, \E k \in 1..Len(s) : s[k] = "="
  PROVE  /\ F!Separator(s) \in 1..Len(s) /\ s[F!Separator(s)] = "="
         /\ \A j \in 1..Len(s) : s[j] = "=" => F!Separator(s) <= j
<1>. DEFINE T == {k \in DOMAIN s : s[k] = "="}
<1>1. Len(s) \in Nat /\ DOMAIN s = 1..Len(s)
  BY TextLen
<1>2. T \in SUBSET Nat /\ T # {}
  BY <1>1
<1>3. F!Separator(s) = F!Min(T)
  BY DEF F!Separator
<1>4. F!Min(T) \in T /\ \A m \in T : F!Min(T) <= m
  <2>. HIDE DEF T
  <2>. QED  BY <1>2, MinIs
<1>. QED  BY <1>1, <1>3, <1>4

\* A text that is there wholly.
LEMMA WholePiece ==
  ASSUME NEW s \in Text
  PROVE  SubSeq(s, 1, Len(s)) = s
<1>1. Len(s) \in 0..Len(s)
  BY TextLen
<1>2. /\ SubSeq(s, 1, Len(s)) \in Text /\ Len(SubSeq(s, 1, Len(s))) = Len(s)
      /\ \A i \in 1..Len(s) : SubSeq(s, 1, Len(s))[i] = s[i]
  BY <1>1, Beginning
<1>. QED  BY <1>2, SameText

\* The item of the line, of which text is all but the blanks at the end.
LEMMA ItemSays ==
  ASSUME NEW line \in Text, NEW m \in 1..Len(line),
         \A j \in 1..Len(line) : j > m => line[j] = F!Blank,
         \E k \in 1..m : line[k] = "="
  PROVE  /\ ItemAt(SubSeq(line, 1, m)) \in Items
         /\ F!Says(line, ItemAt(SubSeq(line, 1, m)))
<1>. DEFINE text == SubSeq(line, 1, m)
            k == F!Separator(text)
            name == SubSeq(line, 1, k - 1)
            rest == SubSeq(line, k + 1, Len(line))
            value == SubSeq(text, k + 1, m)
            item == ItemAt(text)
<1>1. Len(line) \in Nat /\ m \in Nat /\ DOMAIN line = 1..Len(line) /\ m \in 0..Len(line)
  BY TextLen
<1>2. text \in Text /\ Len(text) = m /\ \A i \in 1..m : text[i] = line[i]
  BY <1>1, Beginning
<1>. HIDE DEF text
<1>3. k \in 1..m /\ text[k] = "=" /\ \A j \in 1..m : text[j] = "=" => k <= j
  <2>1. \E j \in 1..Len(text) : text[j] = "="
    BY <1>2
  <2>. QED  BY <1>2, <2>1, SeparatorIs
<1>. HIDE DEF k
<1>4. k \in DOMAIN line /\ line[k] = "=" /\ \A j \in 1..(k - 1) : line[j] # "="
  <2>1. k \in 1..Len(line)
    BY <1>1, <1>3
  <2>2. ASSUME NEW j \in 1..(k - 1) PROVE line[j] # "="
    <3>1. j \in 1..m /\ ~(k <= j)
      BY <1>1, <1>3
    <3>. QED  BY <1>2, <1>3, <3>1
  <2>. QED  BY <1>1, <1>2, <1>3, <2>1, <2>2
<1>5. k - 1 \in 0..Len(line) /\ k - 1 \in 0..m /\ k - 1 \in Nat
  BY <1>1, <1>3
<1>6. name \in Text /\ Len(name) = k - 1 /\ \A i \in 1..(k - 1) : name[i] = line[i]
  BY <1>5, Beginning
<1>7. SubSeq(text, 1, k - 1) = name
  <2>1. /\ SubSeq(text, 1, k - 1) \in Text /\ Len(SubSeq(text, 1, k - 1)) = k - 1
        /\ \A i \in 1..(k - 1) : SubSeq(text, 1, k - 1)[i] = text[i]
    BY <1>2, <1>5, Beginning
  <2>2. \A i \in 1..(k - 1) : i \in 1..m
    BY <1>1, <1>3
  <2>. HIDE DEF name
  <2>. QED  BY <1>2, <1>6, <2>1, <2>2, SameText
<1>8. Trim(name) \in Text /\ F!Stripped(name, Trim(name))
  <2>. HIDE DEF name
  <2>1. Len(name) \in 0..Len(name) /\ \A j \in 1..Len(name) : j > Len(name) => name[j] = F!Blank
    BY <1>5, <1>6
  <2>2. SubSeq(name, 1, Len(name)) = name
    BY <1>6, WholePiece
  <2>3. /\ Trim(SubSeq(name, 1, Len(name))) \in Text
        /\ F!Stripped(name, Trim(SubSeq(name, 1, Len(name))))
    BY <1>6, <2>1, TrimStrips
  <2>. QED  BY <2>2, <2>3
<1>. DEFINE c == Len(line) - k
            d == m - k
<1>9. /\ k \in Nat /\ c \in Nat /\ k + c = Len(line) /\ k + c <= Len(line)
      /\ d \in Nat /\ k + d = m /\ k + d <= Len(text) /\ d <= c /\ d \in 0..c
  BY <1>1, <1>2, <1>3
<1>. HIDE DEF c, d
<1>10. rest \in Text /\ Len(rest) = c /\ \A i \in 1..c : rest[i] = line[k + i]
  <2>1. /\ SubSeq(line, k + 1, k + c) \in Text /\ Len(SubSeq(line, k + 1, k + c)) = c
        /\ \A i \in 1..c : SubSeq(line, k + 1, k + c)[i] = line[k + i]
    BY <1>9, Piece
  <2>2. rest = SubSeq(line, k + 1, k + c)
    BY <1>9
  <2>. HIDE DEF rest
  <2>. QED  BY <2>1, <2>2
<1>11. value \in Text /\ Len(value) = d /\ \A i \in 1..d : value[i] = text[k + i]
  <2>1. /\ SubSeq(text, k + 1, k + d) \in Text /\ Len(SubSeq(text, k + 1, k + d)) = d
        /\ \A i \in 1..d : SubSeq(text, k + 1, k + d)[i] = text[k + i]
    BY <1>2, <1>9, Piece
  <2>2. value = SubSeq(text, k + 1, k + d)
    BY <1>9
  <2>. HIDE DEF value
  <2>. QED  BY <2>1, <2>2
<1>. HIDE DEF rest, value
<1>12. SubSeq(rest, 1, d) = value
  <2>1. /\ SubSeq(rest, 1, d) \in Text /\ Len(SubSeq(rest, 1, d)) = d
        /\ \A i \in 1..d : SubSeq(rest, 1, d)[i] = rest[i]
    BY <1>9, <1>10, Beginning
  <2>2. \A i \in 1..d : i \in 1..c /\ k + i \in 1..m
    BY <1>9
  <2>3. \A i \in 1..d : SubSeq(rest, 1, d)[i] = value[i]
    BY <1>2, <1>10, <1>11, <2>1, <2>2
  <2>. QED  BY <1>11, <2>1, <2>3, SameText
<1>13. Trim(value) \in Text /\ F!Stripped(rest, Trim(value))
  <2>1. ASSUME NEW j \in 1..Len(rest), j > d PROVE rest[j] = F!Blank
    <3>1. j \in 1..c /\ k + j \in 1..Len(line) /\ k + j > m
      BY <1>1, <1>9, <1>10, <2>1
    <3>. QED  BY <1>10, <3>1
  <2>2. d \in 0..Len(rest)
    BY <1>9, <1>10
  <2>3. Trim(SubSeq(rest, 1, d)) \in Text /\ F!Stripped(rest, Trim(SubSeq(rest, 1, d)))
    BY <1>10, <2>1, <2>2, TrimStrips
  <2>. QED  BY <1>12, <2>3
<1>14. item = [ItemName |-> Trim(name), ItemContent |-> Trim(value)]
  BY <1>2, <1>7 DEF ItemAt, k, value
<1>. HIDE DEF item, name
<1>15. item \in Items /\ item.ItemName = Trim(name) /\ item.ItemContent = Trim(value)
  BY <1>8, <1>13, <1>14 DEF Items
<1>16. F!Says(line, item)
  BY <1>4, <1>8, <1>13, <1>15 DEF F!Says, name, rest
<1>. QED  BY <1>15, <1>16 DEF item, text

\* What a round of the loop appends.
LEMMA ItemsShape ==
  ASSUME NEW line \in Text, NEW m, m = KeptLen(line, {F!Newline, F!Blank}), Len(line) # 0
  PROVE  /\ m \in 0..Len(line)
         /\ \A k \in 1..Len(line) : k > m => line[k] \in {F!Newline, F!Blank}
         /\ m # 0 => line[m] \notin {F!Newline, F!Blank}
         /\ (\/ line[1] \in {"#", "[", F!Blank, F!Newline} \/ m = 0
             \/ \A k \in 1..m : line[k] # "=") => F!ItemsOf(line) = <<>>
         /\ (/\ line[1] \notin {"#", "[", F!Blank, F!Newline} /\ m # 0
             /\ \E k \in 1..m : line[k] = "=") => F!ItemsOf(line) = <<ItemAt(SubSeq(line, 1, m))>>
<1>. DEFINE text == SubSeq(line, 1, m)
<1>1. /\ m \in 0..Len(line) /\ F!Trimmed(line, {F!Newline, F!Blank}) = text
      /\ \A k \in 1..Len(line) : k > m => line[k] \in {F!Newline, F!Blank}
      /\ m # 0 => line[m] \notin {F!Newline, F!Blank}
  BY TrimmedIs
<1>2. text \in Text /\ Len(text) = m /\ \A i \in 1..m : text[i] = line[i]
  BY <1>1, Beginning
<1>. HIDE DEF text
<1>3. Len(line) \in Nat /\ line # <<>> /\ Head(line) = line[1] /\ DOMAIN text = 1..m
  BY <1>2, TextLen, NoText DEF Text
<1>4. text = <<>> <=> m = 0
  BY <1>2, NoText
<1>5. m # 0 => Head(text) = line[1]
  <2>. SUFFICES ASSUME m # 0 PROVE Head(text) = line[1]
    OBVIOUS
  <2>1. 1 \in 1..m /\ text # <<>>
    BY <1>1, <1>3, <1>4
  <2>2. Head(text) = text[1]
    BY <1>2, <2>1 DEF Text
  <2>. QED  BY <1>2, <2>1, <2>2
<1>6. "=" \in F!Range(text) <=> \E k \in 1..m : line[k] = "="
  BY <1>2, <1>3 DEF F!Range
<1>. DEFINE none == \/ F!Skipped(line) \/ text = <<>> \/ Head(text) = "["
                    \/ "=" \notin F!Range(text)
<1>7. F!ItemsOf(line) = IF none THEN <<>> ELSE <<ItemAt(text)>>
  BY <1>1 DEF F!ItemsOf, ItemAt, Trim
<1>8. F!Skipped(line) <=> line[1] \in {"#", F!Blank, F!Newline}
  BY <1>3 DEF F!Skipped
<1>9. none <=> \/ line[1] \in {"#", "[", F!Blank, F!Newline} \/ m = 0
               \/ \A k \in 1..m : line[k] # "="
  BY <1>4, <1>5, <1>6, <1>8
<1>. HIDE DEF none
<1>. QED  BY <1>1, <1>7, <1>9 DEF text

\* A round of the loop with a line, whether or not a newline follows it.
LEMMA LineItems ==
  ASSUME NEW line \in Text, \A k \in 1..Len(line) : line[k] # F!Newline,
         NEW w \in Text, Len(w) # 0,
         Len(w) = Len(line) \/ (Len(w) = Len(line) + 1 /\ w[Len(w)] = F!Newline),
         \A k \in 1..Len(line) : w[k] = line[k]
  PROVE  /\ F!IsItem(line) => \E x \in Items : F!ItemsOf(w) = <<x>> /\ F!Says(line, x)
         /\ ~F!IsItem(line) => F!ItemsOf(w) = <<>>
<1>. DEFINE m == KeptLen(w, {F!Newline, F!Blank})
            wt == SubSeq(w, 1, m)
            lt == SubSeq(line, 1, m)
<1>1. Len(line) \in Nat /\ Len(w) \in Nat /\ 1 \in 1..Len(w) /\ DOMAIN line = 1..Len(line)
  BY TextLen
<1>2. /\ m \in 0..Len(w)
      /\ \A k \in 1..Len(w) : k > m => w[k] \in {F!Newline, F!Blank}
      /\ m # 0 => w[m] \notin {F!Newline, F!Blank}
      /\ (\/ w[1] \in {"#", "[", F!Blank, F!Newline} \/ m = 0
          \/ \A k \in 1..m : w[k] # "=") => F!ItemsOf(w) = <<>>
      /\ (/\ w[1] \notin {"#", "[", F!Blank, F!Newline} /\ m # 0
          /\ \E k \in 1..m : w[k] = "=") => F!ItemsOf(w) = <<ItemAt(wt)>>
  BY ItemsShape
<1>. HIDE DEF m
<1>3. m \in 0..Len(line)
  BY <1>1, <1>2
<1>4. \A k \in 1..Len(line) : k > m => line[k] = F!Blank
  BY <1>1, <1>2
<1>5. wt = lt
  <2>1. wt \in Text /\ Len(wt) = m /\ \A i \in 1..m : wt[i] = w[i]
    BY <1>2, Beginning
  <2>2. lt \in Text /\ Len(lt) = m /\ \A i \in 1..m : lt[i] = line[i]
    BY <1>3, Beginning
  <2>3. \A i \in 1..m : i \in 1..Len(line)
    BY <1>1, <1>3
  <2>. HIDE DEF wt, lt
  <2>. QED  BY <2>1, <2>2, <2>3, SameText
<1>6. F!IsItem(line) <=> /\ Len(line) # 0 /\ line[1] \notin {"#", "[", F!Blank}
                         /\ \E k \in 1..Len(line) : line[k] = "="
  <2>1. CASE Len(line) = 0
    BY <2>1, NoText DEF F!IsItem
  <2>2. CASE Len(line) # 0
    <3>1. line # <<>> /\ Head(line) = line[1]
      BY <2>2, NoText DEF Text
    <3>2. "=" \in F!Range(line) <=> \E k \in 1..Len(line) : line[k] = "="
      BY <1>1 DEF F!Range
    <3>. QED  BY <2>2, <3>1, <3>2 DEF F!IsItem
  <2>. QED  BY <2>1, <2>2
<1>. HIDE DEF wt, lt
<1>7. ASSUME F!IsItem(line)
      PROVE  \E x \in Items : F!ItemsOf(w) = <<x>> /\ F!Says(line, x)
  <2>1. 1 \in 1..Len(line) /\ w[1] = line[1] /\ line[1] # F!Newline
    BY <1>1, <1>6, <1>7
  <2>2. PICK k \in 1..Len(line) : line[k] = "="
    BY <1>6, <1>7
  <2>3. k \in 1..m
    <3>1. "=" # F!Blank
      BY DEF F!Blank
    <3>2. ~(k > m)
      BY <1>4, <2>2, <3>1
    <3>. QED  BY <1>1, <1>3, <3>2
  <2>4. m \in 1..Len(line) /\ m # 0
    BY <1>1, <1>3, <2>3
  <2>5. F!ItemsOf(w) = <<ItemAt(lt)>>
    <3>1. w[k] = "="
      BY <2>2
    <3>2. \E i \in 1..m : w[i] = "="
      BY <2>3, <3>1
    <3>3. w[1] \notin {"#", "[", F!Blank, F!Newline}
      BY <1>6, <1>7, <2>1
    <3>. QED  BY <1>2, <1>5, <2>4, <3>2, <3>3
  <2>6. ItemAt(lt) \in Items /\ F!Says(line, ItemAt(lt))
    BY <1>4, <2>2, <2>3, <2>4, ItemSays DEF lt
  <2>. QED  BY <2>5, <2>6
<1>8. ASSUME ~F!IsItem(line) PROVE F!ItemsOf(w) = <<>>
  <2>1. CASE Len(line) = 0
    <3>1. m = 0
      BY <1>3, <2>1
    <3>. QED  BY <1>2, <3>1
  <2>2. CASE Len(line) # 0
    <3>1. 1 \in 1..Len(line) /\ w[1] = line[1]
      BY <1>1, <2>2
    <3>2. CASE line[1] \in {"#", "[", F!Blank}
      BY <1>2, <3>1, <3>2
    <3>3. CASE line[1] \notin {"#", "[", F!Blank}
      <4>1. \A k \in 1..Len(line) : line[k] # "="
        BY <1>6, <1>8, <2>2, <3>3
      <4>2. \A k \in 1..m : k \in 1..Len(line)
        BY <1>1, <1>3
      <4>3. \A k \in 1..m : w[k] # "="
        BY <4>1, <4>2
      <4>. QED  BY <1>2, <4>3
    <3>. QED  BY <3>2, <3>3
  <2>. QED  BY <2>1, <2>2
<1>. QED  BY <1>7, <1>8

\* Whatever a line is, one item comes of it at most, and only where there is an =.
LEMMA ItemsType ==
  ASSUME NEW w \in Text, Len(w) # 0
  PROVE  \/ F!ItemsOf(w) = <<>>
         \/ /\ \E x \in Items : F!ItemsOf(w) = <<x>>
            /\ \E k \in 1..Len(w) : w[k] = "="
<1>. DEFINE m == KeptLen(w, {F!Newline, F!Blank})
            wt == SubSeq(w, 1, m)
<1>1. Len(w) \in Nat
  BY TextLen
<1>2. /\ m \in 0..Len(w)
      /\ (\/ w[1] \in {"#", "[", F!Blank, F!Newline} \/ m = 0
          \/ \A k \in 1..m : w[k] # "=") => F!ItemsOf(w) = <<>>
      /\ (/\ w[1] \notin {"#", "[", F!Blank, F!Newline} /\ m # 0
          /\ \E k \in 1..m : w[k] = "=") => F!ItemsOf(w) = <<ItemAt(wt)>>
  BY ItemsShape
<1>. HIDE DEF m
<1>3. wt \in Text /\ Len(wt) = m /\ \A i \in 1..m : wt[i] = w[i]
  BY <1>2, Beginning
<1>. HIDE DEF wt
<1>4. ASSUME m # 0, NEW k \in 1..m, w[k] = "="
      PROVE  ItemAt(wt) \in Items /\ k \in 1..Len(w)
  <2>1. m \in 1..Len(wt) /\ k \in 1..Len(w) /\ \A j \in 1..Len(wt) : j > m => wt[j] = F!Blank
    BY <1>1, <1>2, <1>3, <1>4
  <2>2. \E j \in 1..m : wt[j] = "="
    BY <1>3, <1>4
  <2>3. ItemAt(SubSeq(wt, 1, m)) \in Items
    BY <1>3, <2>1, <2>2, ItemSays
  <2>. QED  BY <1>3, <2>1, <2>3, WholePiece
<1>. QED  BY <1>2, <1>4

\* What a line says is one item.
LEMMA SaysOnce ==
  ASSUME NEW line \in Text, NEW x, NEW y, F!Says(line, x), F!Says(line, y)
  PROVE  x.ItemName = y.ItemName /\ x.ItemContent = y.ItemContent
<1>1. Len(line) \in Nat /\ DOMAIN line = 1..Len(line)
  BY TextLen
<1>2. PICK k \in DOMAIN line :
        /\ line[k] = "=" /\ \A j \in 1..(k - 1) : line[j] # "="
        /\ F!Stripped(SubSeq(line, 1, k - 1), x.ItemName)
        /\ F!Stripped(SubSeq(line, k + 1, Len(line)), x.ItemContent)
  BY DEF F!Says
<1>3. PICK l \in DOMAIN line :
        /\ line[l] = "=" /\ \A j \in 1..(l - 1) : line[j] # "="
        /\ F!Stripped(SubSeq(line, 1, l - 1), y.ItemName)
        /\ F!Stripped(SubSeq(line, l + 1, Len(line)), y.ItemContent)
  BY DEF F!Says
<1>4. k = l
  <2>1. k \in 1..Len(line) /\ l \in 1..Len(line)
    BY <1>1, <1>2, <1>3
  <2>2. ~(l < k)
    <3>1. l < k => l \in 1..(k - 1)
      BY <1>1, <2>1
    <3>. QED  BY <1>2, <1>3, <3>1
  <2>3. ~(k < l)
    <3>1. k < l => k \in 1..(l - 1)
      BY <1>1, <2>1
    <3>. QED  BY <1>2, <1>3, <3>1
  <2>. QED  BY <1>1, <2>1, <2>2, <2>3
<1>5. SubSeq(line, 1, k - 1) \in Text
  <2>1. k - 1 \in 0..Len(line)
    BY <1>1, <1>2
  <2>. QED  BY <2>1, Beginning
<1>6. SubSeq(line, k + 1, Len(line)) \in Text
  <2>1. k \in Nat /\ Len(line) - k \in Nat /\ k + (Len(line) - k) = Len(line)
    BY <1>1, <1>2
  <2>2. SubSeq(line, k + 1, k + (Len(line) - k)) \in Text
    BY <1>1, <2>1, Piece
  <2>. QED  BY <2>1, <2>2
<1>. QED  BY <1>2, <1>3, <1>4, <1>5, <1>6, StrippedOnce
-----------------------------------------------------------------------------
(* The lines of a file: as it says them itself, and as fgets reads them *)

EndsOf(f) == {k \in DOMAIN f : f[k] = F!Newline} \cup {Len(f) + 1}
LineOf(f, end) ==
  SubSeq(f, F!Max({k \in EndsOf(f) \cup {0} : k < end}) + 1, end - 1)
ShortOf(f) == \A end \in EndsOf(f) : Len(LineOf(f, end)) < LineSize - 1
ItemEndsOf(f) == {end \in EndsOf(f) : F!IsItem(LineOf(f, end))}

\* Where fgets stops that starts after n characters.
LineEndOf(f, n) ==
  LET room == F!Min({n + LineSize - 1, Len(f)})
      after == {k \in DOMAIN f : k > n /\ f[k] = F!Newline}
  IN  IF after = {} THEN room ELSE F!Min({room, F!Min(after)})

LEMMA OfFile ==
  /\ F!Ends = EndsOf(file) /\ F!ItemEnds = ItemEndsOf(file)
  /\ \A end : F!LineTo(end) = LineOf(file, end)
  /\ F!ShortLines <=> ShortOf(file)
  /\ F!LineEnd = LineEndOf(file, at)
<1>1. F!Ends = EndsOf(file)
  BY DEF F!Ends, EndsOf
<1>2. \A end : F!LineTo(end) = LineOf(file, end)
  BY <1>1 DEF F!LineTo, LineOf
<1>3. F!ItemEnds = ItemEndsOf(file)
  BY <1>1, <1>2 DEF F!ItemEnds, ItemEndsOf
<1>4. F!ShortLines <=> ShortOf(file)
  BY <1>1, <1>2 DEF F!ShortLines, ShortOf
<1>5. F!LineEnd = LineEndOf(file, at)
  BY DEF F!LineEnd, F!NewlinesAfter, LineEndOf
<1>. QED  BY <1>1, <1>2, <1>3, <1>4, <1>5

LEMMA LineSizeIs == LineSize \in Nat /\ LineSize > 1
BY PartsAssumption DEF F!ConfAssumption

\* The smaller of two numbers.
LEMMA MinOfTwo ==
  ASSUME NEW a \in Nat, NEW b \in Nat
  PROVE  F!Min({a, b}) = IF a <= b THEN a ELSE b
<1>. DEFINE T == {a, b}
<1>1. T \in SUBSET Nat /\ T # {}
  OBVIOUS
<1>2. F!Min(T) \in T /\ \A m \in T : F!Min(T) <= m
  <2>. HIDE DEF T
  <2>. QED  BY <1>1, MinIs
<1>. QED  BY <1>2

LEMMA LineEndIs ==
  ASSUME NEW f \in Text, NEW n \in Nat, n < Len(f), NEW e, e = LineEndOf(f, n)
  PROVE  /\ e \in (n + 1)..Len(f) /\ e - n <= LineSize - 1
         /\ \A k \in (n + 1)..(e - 1) : f[k] # F!Newline
         /\ e = Len(f) \/ f[e] = F!Newline \/ e - n = LineSize - 1
<1>. DEFINE z == Len(f)
            c == n + LineSize - 1
            after == {k \in DOMAIN f : k > n /\ f[k] = F!Newline}
            room == F!Min({c, z})
<1>1. z \in Nat /\ DOMAIN f = 1..z /\ LineSize \in Nat /\ LineSize > 1
  BY TextLen, LineSizeIs
<1>2. c \in Nat /\ c > n /\ c - n = LineSize - 1 /\ n < z
  BY <1>1
<1>3. e = IF after = {} THEN room ELSE F!Min({room, F!Min(after)})
  BY DEF LineEndOf
<1>. HIDE DEF z, c
<1>4. room = IF c <= z THEN c ELSE z
  BY <1>1, <1>2, MinOfTwo
<1>. HIDE DEF room
<1>5. room \in (n + 1)..z /\ room - n <= c - n /\ (room = z \/ room = c)
  BY <1>1, <1>2, <1>4
<1>6. CASE after = {}
  <2>1. e = room
    BY <1>3, <1>6
  <2>2. \A k \in (n + 1)..(e - 1) : f[k] # F!Newline
    <3>. SUFFICES ASSUME NEW k \in (n + 1)..(e - 1), f[k] = F!Newline PROVE FALSE
      OBVIOUS
    <3>1. k \in 1..z /\ k > n
      BY <1>1, <1>5, <2>1
    <3>. QED  BY <1>1, <1>6, <3>1
  <2>3. e \in (n + 1)..z /\ e - n <= c - n /\ (e = z \/ e - n = c - n)
    BY <1>5, <2>1
  <2>. QED  BY <1>2, <2>2, <2>3 DEF z
<1>7. CASE after # {}
  <2>. DEFINE a == F!Min(after)
  <2>1. after \in SUBSET Nat
    BY <1>1
  <2>2. a \in after /\ \A m \in after : a <= m
    <3>. HIDE DEF after
    <3>. QED  BY <1>7, <2>1, MinIs
  <2>3. e = F!Min({room, a})
    BY <1>3, <1>7
  <2>. HIDE DEF a
  <2>4. a \in 1..z /\ a > n /\ f[a] = F!Newline
    BY <1>1, <2>2
  <2>5. e = IF room <= a THEN room ELSE a
    <3>1. room \in Nat /\ a \in Nat
      BY <1>1, <1>5, <2>4
    <3>. QED  BY <2>3, <3>1, MinOfTwo
  <2>6. \A k \in (n + 1)..(e - 1) : f[k] # F!Newline
    <3>. SUFFICES ASSUME NEW k \in (n + 1)..(e - 1), f[k] = F!Newline PROVE FALSE
      OBVIOUS
    <3>1. k \in 1..z /\ k > n /\ k < a
      BY <1>1, <1>5, <2>4, <2>5
    <3>2. k \in after
      BY <1>1, <3>1
    <3>. QED  BY <1>1, <2>2, <2>4, <3>1, <3>2
  <2>7. e \in (n + 1)..z /\ e - n <= c - n /\ (e = z \/ e = a \/ e - n = c - n)
    BY <1>1, <1>2, <1>5, <2>4, <2>5
  <2>. QED  BY <1>2, <2>4, <2>6, <2>7 DEF z
<1>. QED  BY <1>6, <1>7 DEF z

LEMMA EndsAre ==
  ASSUME NEW f \in Text
  PROVE  /\ Len(f) \in Nat /\ Len(f) + 1 \in EndsOf(f)
         /\ \A k : k \in EndsOf(f) <=> k \in 1..(Len(f) + 1) /\ (k <= Len(f) => f[k] = F!Newline)
<1>1. Len(f) \in Nat /\ DOMAIN f = 1..Len(f)
  BY TextLen
<1>2. ASSUME NEW k PROVE k \in EndsOf(f) <=> k \in 1..(Len(f) + 1) /\ (k <= Len(f) => f[k] = F!Newline)
  BY <1>1 DEF EndsOf
<1>. QED  BY <1>1, <1>2 DEF EndsOf

\* The line between two ends.
LEMMA LineIs ==
  ASSUME NEW f \in Text, NEW n \in Nat, n = 0 \/ n \in EndsOf(f),
         NEW e \in EndsOf(f), n < e, \A k \in EndsOf(f) : ~(n < k /\ k < e)
  PROVE  /\ LineOf(f, e) \in Text /\ Len(LineOf(f, e)) = e - 1 - n
         /\ \A i \in 1..(e - 1 - n) : LineOf(f, e)[i] = f[n + i]
         /\ \A i \in 1..(e - 1 - n) : LineOf(f, e)[i] # F!Newline
<1>1. /\ Len(f) \in Nat
      /\ \A k : k \in EndsOf(f) <=> k \in 1..(Len(f) + 1) /\ (k <= Len(f) => f[k] = F!Newline)
  BY EndsAre
<1>. DEFINE before == {k \in EndsOf(f) \cup {0} : k < e}
            l == e - 1 - n
<1>2. e \in 1..(Len(f) + 1)
  BY <1>1
<1>3. before \in SUBSET (0..e) /\ n \in before /\ e \in Nat
  BY <1>1, <1>2
<1>4. F!Max(before) = n
  <2>1. F!Max(before) \in before /\ \A m \in before : m <= F!Max(before)
    <3>. HIDE DEF before
    <3>. QED  BY <1>3, MaxIs
  <2>2. F!Max(before) \in Nat /\ n <= F!Max(before) /\ F!Max(before) < e
    BY <1>3, <2>1
  <2>3. F!Max(before) \in EndsOf(f) \/ F!Max(before) = 0
    BY <2>1
  <2>. HIDE DEF before
  <2>. QED  BY <2>2, <2>3
<1>5. l \in Nat /\ n + l = e - 1 /\ n + l <= Len(f)
  BY <1>2
<1>6. LineOf(f, e) = SubSeq(f, n + 1, n + l)
  <2>1. LineOf(f, e) = SubSeq(f, F!Max(before) + 1, e - 1)
    BY DEF LineOf
  <2>. HIDE DEF before, l
  <2>. QED  BY <1>4, <1>5, <2>1
<1>. HIDE DEF l
<1>7. /\ LineOf(f, e) \in Text /\ Len(LineOf(f, e)) = l
      /\ \A i \in 1..l : LineOf(f, e)[i] = f[n + i]
  <2>1. /\ SubSeq(f, n + 1, n + l) \in Text /\ Len(SubSeq(f, n + 1, n + l)) = l
        /\ \A i \in 1..l : SubSeq(f, n + 1, n + l)[i] = f[n + i]
    BY <1>5, Piece
  <2>. QED  BY <1>6, <2>1
<1>8. ASSUME NEW i \in 1..l PROVE f[n + i] # F!Newline
  <2>1. n + i \in 1..Len(f) /\ n < n + i /\ n + i < e
    BY <1>2, <1>5
  <2>2. n + i \notin EndsOf(f)
    BY <2>1
  <2>3. n + i \in 1..(Len(f) + 1)
    BY <1>1, <2>1
  <2>. QED  BY <1>1, <2>1, <2>2, <2>3
<1>. QED  BY <1>7, <1>8 DEF l

\* The next end of a line, from the beginning of one.
NextEnd(f, n) == F!Min({k \in EndsOf(f) : k > n})

LEMMA NextEndIs ==
  ASSUME NEW f \in Text, NEW n \in Nat, n <= Len(f)
  PROVE  /\ NextEnd(f, n) \in EndsOf(f) /\ n < NextEnd(f, n)
         /\ NextEnd(f, n) \in 1..(Len(f) + 1)
         /\ \A k \in EndsOf(f) : ~(n < k /\ k < NextEnd(f, n))
<1>. DEFINE T == {k \in EndsOf(f) : k > n}
<1>1. /\ Len(f) \in Nat /\ Len(f) + 1 \in EndsOf(f)
      /\ \A k : k \in EndsOf(f) <=> k \in 1..(Len(f) + 1) /\ (k <= Len(f) => f[k] = F!Newline)
  BY EndsAre
<1>2. T \in SUBSET Nat /\ Len(f) + 1 \in T
  BY <1>1
<1>3. F!Min(T) \in T /\ \A m \in T : F!Min(T) <= m
  <2>. HIDE DEF T
  <2>. QED  BY <1>2, MinIs
<1>4. NextEnd(f, n) = F!Min(T)
  BY DEF NextEnd
<1>5. F!Min(T) \in 1..(Len(f) + 1) /\ n < F!Min(T)
  BY <1>1, <1>3
<1>6. ASSUME NEW k \in EndsOf(f), n < k, k < F!Min(T) PROVE FALSE
  <2>1. k \in 1..(Len(f) + 1)
    BY <1>1, <1>6
  <2>2. k \in T
    BY <1>6, <2>1
  <2>. HIDE DEF T
  <2>. QED  BY <1>3, <1>5, <1>6, <2>1, <2>2
<1>. QED  BY <1>3, <1>4, <1>5, <1>6

\* Short lines are read wholly, with the newline if there is one.
LEMMA ReadsLine ==
  ASSUME NEW f \in Text, NEW n \in Nat, n < Len(f), n = 0 \/ n \in EndsOf(f), ShortOf(f)
  PROVE  LineEndOf(f, n) = IF NextEnd(f, n) <= Len(f) THEN NextEnd(f, n) ELSE Len(f)
<1>. DEFINE e == NextEnd(f, n)
            b == LineEndOf(f, n)
<1>1. /\ Len(f) \in Nat
      /\ \A k : k \in EndsOf(f) <=> k \in 1..(Len(f) + 1) /\ (k <= Len(f) => f[k] = F!Newline)
  BY EndsAre
<1>2. /\ e \in EndsOf(f) /\ n < e /\ e \in 1..(Len(f) + 1)
      /\ \A k \in EndsOf(f) : ~(n < k /\ k < e)
  BY <1>1, NextEndIs
<1>3. /\ b \in (n + 1)..Len(f) /\ b - n <= LineSize - 1
      /\ \A k \in (n + 1)..(b - 1) : f[k] # F!Newline
      /\ b = Len(f) \/ f[b] = F!Newline \/ b - n = LineSize - 1
  BY LineEndIs
<1>. HIDE DEF e, b
<1>4. e - 1 - n < LineSize - 1 /\ LineSize \in Nat
  <2>1. Len(LineOf(f, e)) = e - 1 - n
    BY <1>2, LineIs
  <2>. QED  BY <1>2, <2>1, LineSizeIs DEF ShortOf
<1>5. b < Len(f) /\ b < e => FALSE
  <2>. SUFFICES ASSUME b < Len(f), b < e PROVE FALSE
    OBVIOUS
  <2>1. b \in 1..(Len(f) + 1) /\ n < b /\ b # Len(f)
    BY <1>1, <1>3
  <2>2. f[b] # F!Newline
    BY <1>1, <1>2, <2>1
  <2>3. b - n = LineSize - 1
    BY <1>3, <2>1, <2>2
  <2>. QED  BY <1>2, <1>3, <1>4, <2>3
<1>6. ~(e <= Len(f) /\ e < b)
  <2>. SUFFICES ASSUME e <= Len(f), e < b PROVE FALSE
    OBVIOUS
  <2>1. e \in (n + 1)..(b - 1) /\ f[e] = F!Newline
    BY <1>1, <1>2, <1>3
  <2>. QED  BY <1>3, <2>1
<1>. QED  BY <1>1, <1>2, <1>3, <1>5, <1>6 DEF e, b
-----------------------------------------------------------------------------
(* Loading: the items are those of the lines that have been read *)

\* The ends of the items' lines among the first n characters.
DoneEnds(f, n) == {end \in ItemEndsOf(f) : end <= n \/ n = Len(f)}

\* The ends of the lines of the items l, in their order.
Follow(f, D, l, ends) ==
  /\ ends \in [1..Len(l) -> D]
  /\ \A e \in D : \E k \in 1..Len(l) : ends[k] = e
  /\ \A j, k \in 1..Len(l) : j < k => ends[j] < ends[k]
  /\ \A k \in 1..Len(l) : F!Says(LineOf(f, ends[k]), l[k])

Matched(f, n, l) ==
  /\ n = 0 \/ n = Len(f) \/ n \in EndsOf(f)
  /\ \E ends : Follow(f, DoneEnds(f, n), l, ends)

\* The line after the last newline, where it is the last character, is no item.
LEMMA LastLine ==
  ASSUME NEW f \in Text, Len(f) = 0 \/ Len(f) \in EndsOf(f)
  PROVE  ~F!IsItem(LineOf(f, Len(f) + 1))
<1>. DEFINE n == Len(f)
            e == n + 1
<1>1. n \in Nat /\ e \in EndsOf(f) /\ n < e /\ e - 1 - n = 0 /\ (n = 0 \/ n \in EndsOf(f))
  BY EndsAre
<1>2. ASSUME NEW k \in EndsOf(f) PROVE ~(n < k /\ k < e)
  <2>1. k \in Nat
    BY EndsAre
  <2>. QED  BY <1>1, <2>1
<1>3. LineOf(f, e) \in Text /\ Len(LineOf(f, e)) = e - 1 - n
  <2>. HIDE DEF n, e
  <2>. QED  BY <1>1, <1>2, LineIs
<1>. HIDE DEF n, e
<1>4. LineOf(f, e) = <<>>
  BY <1>1, <1>3, NoText
<1>5. ~F!IsItem(LineOf(f, e))
  BY <1>4 DEF F!IsItem
<1>. QED  BY <1>5 DEF n, e

LEMMA NothingMatched ==
  ASSUME NEW f \in Text
  PROVE  Matched(f, 0, <<>>)
<1>1. DoneEnds(f, 0) = {}
  <2>. SUFFICES ASSUME NEW e \in DoneEnds(f, 0) PROVE FALSE
    OBVIOUS
  <2>1. e \in EndsOf(f) /\ F!IsItem(LineOf(f, e)) /\ (e <= 0 \/ 0 = Len(f))
    BY DEF DoneEnds, ItemEndsOf
  <2>2. e \in 1..(Len(f) + 1) /\ Len(f) \in Nat
    BY <2>1, EndsAre
  <2>3. Len(f) = 0 /\ e = Len(f) + 1
    BY <2>1, <2>2
  <2>. QED  BY <2>1, <2>3, LastLine
<1>. DEFINE ends == [k \in 1..0 |-> k]
<1>2. Len(<<>>) = 0 /\ 1..0 = {}
  BY NoText
<1>3. ends \in [1..0 -> {}]
  BY <1>2
<1>. HIDE DEF ends
<1>4. Follow(f, {}, <<>>, ends)
  BY <1>2, <1>3 DEF Follow
<1>5. \E en : Follow(f, DoneEnds(f, 0), <<>>, en)
  BY <1>1, <1>4
<1>. QED  BY <1>5 DEF Matched

\* The next line's item is added.
LEMMA FollowOne ==
  ASSUME NEW f, NEW D \in SUBSET Nat, NEW l \in Seq(Items), NEW ends, Follow(f, D, l, ends),
         NEW e \in Nat, \A d \in D : d < e, NEW x \in Items, F!Says(LineOf(f, e), x)
  PROVE  \E more : Follow(f, D \cup {e}, l \o <<x>>, more)
<1>. DEFINE n == Len(l)
            more == [k \in 1..(n + 1) |-> IF k <= n THEN ends[k] ELSE e]
            b == l \o <<x>>
            E == D \cup {e}
<1>1. n \in Nat
  BY LenProperties
<1>2. Len(b) = n + 1 /\ (\A k \in 1..n : b[k] = l[k]) /\ b[n + 1] = x
  <2>1. <<x>> \in Seq(Items) /\ Len(<<x>>) = 1 /\ <<x>>[1] = x
    OBVIOUS
  <2>. DEFINE t == <<x>>
  <2>. HIDE DEF t
  <2>2. t \in Seq(Items) /\ Len(t) = 1 /\ t[1] = x
    BY <2>1 DEF t
  <2>3. /\ Len(l \o t) = n + Len(t)
        /\ \A k \in 1..(n + Len(t)) : (l \o t)[k] = IF k <= n THEN l[k] ELSE t[k - n]
    BY <2>2, ConcatProperties
  <2>4. /\ \A k \in 1..n : k \in 1..(n + Len(t)) /\ k <= n
        /\ n + 1 \in 1..(n + Len(t)) /\ ~(n + 1 <= n) /\ (n + 1) - n = 1
    BY <1>1, <2>2
  <2>5. b = l \o t
    BY DEF t
  <2>. HIDE DEF b
  <2>. QED  BY <2>2, <2>3, <2>4, <2>5
<1>3. /\ ends \in [1..n -> D]
      /\ \A d \in D : \E k \in 1..n : ends[k] = d
      /\ \A j, k \in 1..n : j < k => ends[j] < ends[k]
      /\ \A k \in 1..n : F!Says(LineOf(f, ends[k]), l[k])
  BY DEF Follow
<1>. HIDE DEF n, b
<1>4. \A k \in 1..(n + 1) : (k \in 1..n /\ k <= n) \/ (k = n + 1 /\ ~(k <= n))
  BY <1>1
<1>5. (\A k \in 1..n : k \in 1..(n + 1) /\ more[k] = ends[k]) /\ more[n + 1] = e /\ n + 1 \in 1..(n + 1)
  BY <1>1
<1>6. more \in [1..(n + 1) -> E]
  BY <1>3, <1>4
<1>. HIDE DEF more
<1>7. \A d \in E : \E k \in 1..(n + 1) : more[k] = d
  BY <1>3, <1>5
<1>8. ASSUME NEW j \in 1..(n + 1), NEW k \in 1..(n + 1), j < k PROVE more[j] < more[k]
  <2>1. j \in 1..n
    BY <1>1, <1>8
  <2>2. ends[j] \in D
    BY <1>3, <2>1
  <2>3. CASE k \in 1..n
    BY <1>3, <1>5, <1>8, <2>1, <2>3
  <2>4. CASE k = n + 1
    BY <1>5, <2>1, <2>2, <2>4
  <2>. QED  BY <1>4, <2>3, <2>4
<1>9. ASSUME NEW k \in 1..(n + 1) PROVE F!Says(LineOf(f, more[k]), b[k])
  <2>1. CASE k \in 1..n
    BY <1>2, <1>3, <1>5, <2>1
  <2>2. CASE k = n + 1
    BY <1>2, <1>5, <2>2
  <2>. QED  BY <1>4, <2>1, <2>2
<1>10. Follow(f, E, b, more)
  <2>. HIDE DEF E
  <2>. QED  BY <1>2, <1>6, <1>7, <1>8, <1>9 DEF Follow
<1>. QED  BY <1>10 DEF b

\* What fgets returns next, and what a round of the loop makes of it.
NextLine(f, n) == SubSeq(f, n + 1, LineEndOf(f, n))

LEMMA NextLineIs ==
  ASSUME NEW f \in Text, NEW n \in Nat, n < Len(f)
  PROVE  /\ LineEndOf(f, n) \in (n + 1)..Len(f)
         /\ NextLine(f, n) \in Text /\ Len(NextLine(f, n)) = LineEndOf(f, n) - n
         /\ Len(NextLine(f, n)) # 0
         /\ \A i \in 1..(LineEndOf(f, n) - n) : NextLine(f, n)[i] = f[n + i]
<1>. DEFINE b == LineEndOf(f, n)
            l == b - n
<1>1. b \in (n + 1)..Len(f) /\ Len(f) \in Nat
  BY LineEndIs, TextLen
<1>. HIDE DEF b
<1>2. l \in Nat /\ n + l = b /\ n + l <= Len(f) /\ l # 0
  BY <1>1
<1>. HIDE DEF l
<1>3. /\ SubSeq(f, n + 1, n + l) \in Text /\ Len(SubSeq(f, n + 1, n + l)) = l
      /\ \A i \in 1..l : SubSeq(f, n + 1, n + l)[i] = f[n + i]
  BY <1>2, Piece
<1>4. NextLine(f, n) = SubSeq(f, n + 1, n + l)
  BY <1>2 DEF NextLine, b
<1>. QED  BY <1>1, <1>2, <1>3, <1>4 DEF b, l

\* Where the lines are short, the loop makes items of them one after the other.
LEMMA MatchedStep ==
  ASSUME NEW f \in Text, NEW n \in Nat, n < Len(f), ShortOf(f),
         NEW l \in Seq(Items), Matched(f, n, l)
  PROVE  Matched(f, LineEndOf(f, n), l \o F!ItemsOf(NextLine(f, n)))
<1>. DEFINE e == NextEnd(f, n)
            b == LineEndOf(f, n)
            w == NextLine(f, n)
            line == LineOf(f, e)
            D == DoneEnds(f, n)
            E == DoneEnds(f, b)
<1>1. /\ Len(f) \in Nat
      /\ \A k : k \in EndsOf(f) <=> k \in 1..(Len(f) + 1) /\ (k <= Len(f) => f[k] = F!Newline)
  BY EndsAre
<1>2. n = 0 \/ n \in EndsOf(f)
  BY <1>1 DEF Matched
<1>3. /\ e \in EndsOf(f) /\ n < e /\ e \in 1..(Len(f) + 1)
      /\ \A k \in EndsOf(f) : ~(n < k /\ k < e)
  BY <1>1, NextEndIs
<1>4. b = IF e <= Len(f) THEN e ELSE Len(f)
  BY <1>2, ReadsLine
<1>5. /\ w \in Text /\ Len(w) = b - n /\ Len(w) # 0
      /\ \A i \in 1..(b - n) : w[i] = f[n + i]
  BY NextLineIs
<1>. HIDE DEF e
<1>6. /\ line \in Text /\ Len(line) = e - 1 - n
      /\ \A i \in 1..(e - 1 - n) : line[i] = f[n + i]
      /\ \A i \in 1..(e - 1 - n) : line[i] # F!Newline
  BY <1>2, <1>3, LineIs
<1>. HIDE DEF b, w, line
<1>7. Len(w) = Len(line) \/ (Len(w) = Len(line) + 1 /\ w[Len(w)] = F!Newline)
  <2>1. CASE e <= Len(f)
    <3>1. b = e /\ f[e] = F!Newline
      BY <1>1, <1>3, <1>4, <2>1
    <3>2. Len(w) = Len(line) + 1 /\ b - n \in 1..(b - n) /\ n + (b - n) = e
      BY <1>3, <1>5, <1>6, <3>1
    <3>. QED  BY <1>5, <3>1, <3>2
  <2>2. CASE ~(e <= Len(f))
    <3>1. b = Len(f) /\ e = Len(f) + 1
      BY <1>1, <1>3, <1>4, <2>2
    <3>. QED  BY <1>1, <1>5, <1>6, <3>1
  <2>. QED  BY <2>1, <2>2
<1>8. \A k \in 1..Len(line) : w[k] = line[k] /\ line[k] # F!Newline
  <2>1. \A k \in 1..(e - 1 - n) : k \in 1..(b - n)
    BY <1>1, <1>3, <1>4
  <2>. QED  BY <1>5, <1>6, <2>1
<1>9. /\ F!IsItem(line) => \E x \in Items : F!ItemsOf(w) = <<x>> /\ F!Says(line, x)
      /\ ~F!IsItem(line) => F!ItemsOf(w) = <<>>
  BY <1>5, <1>6, <1>7, <1>8, LineItems
<1>10. ASSUME NEW d \in D PROVE d \in ItemEndsOf(f) /\ d <= n /\ d \in Nat /\ d < e
  <2>1. d \in ItemEndsOf(f) /\ d <= n /\ d \in EndsOf(f)
    BY <1>1, <1>10 DEF DoneEnds, ItemEndsOf
  <2>2. d \in Nat
    BY <1>1, <2>1
  <2>. QED  BY <1>1, <1>3, <2>1, <2>2
<1>11. ASSUME NEW d \in E PROVE d \in D \/ (d = e /\ F!IsItem(line))
  <2>1. /\ d \in ItemEndsOf(f) /\ d \in EndsOf(f) /\ F!IsItem(LineOf(f, d))
        /\ d <= b \/ b = Len(f)
    BY <1>11 DEF DoneEnds, ItemEndsOf
  <2>2. d \in 1..(Len(f) + 1)
    BY <1>1, <2>1
  <2>3. CASE d <= n
    BY <2>1, <2>3 DEF DoneEnds
  <2>4. CASE n < d /\ d <= e
    <3>1. d = e
      BY <1>1, <1>3, <2>1, <2>2, <2>4
    <3>. QED  BY <2>1, <3>1 DEF line
  <2>5. CASE e < d
    <3>1. e <= Len(f) /\ b = e
      BY <1>1, <1>3, <1>4, <2>2, <2>5
    <3>2. b = Len(f) /\ d = Len(f) + 1
      BY <1>1, <1>3, <2>1, <2>2, <2>5, <3>1
    <3>3. ~F!IsItem(LineOf(f, Len(f) + 1))
      BY <1>3, <3>1, <3>2, LastLine
    <3>. QED  BY <2>1, <3>2, <3>3
  <2>. QED  BY <1>1, <1>3, <2>2, <2>3, <2>4, <2>5
<1>12. ASSUME NEW d \in D PROVE d \in E
  <2>1. d <= b
    BY <1>1, <1>3, <1>4, <1>10
  <2>. QED  BY <1>10, <2>1 DEF DoneEnds
<1>13. F!IsItem(line) => e \in E
  <2>. SUFFICES ASSUME F!IsItem(line) PROVE e \in E
    OBVIOUS
  <2>1. e \in ItemEndsOf(f)
    BY <1>3 DEF ItemEndsOf, line
  <2>2. e <= b \/ b = Len(f)
    BY <1>1, <1>3, <1>4
  <2>. QED  BY <2>1, <2>2 DEF DoneEnds
<1>14. PICK ends : Follow(f, D, l, ends)
  BY DEF Matched
<1>15. D \in SUBSET Nat /\ e \in Nat /\ \A d \in D : d < e
  BY <1>3, <1>10
<1>. HIDE DEF D, E
<1>16. \E more : Follow(f, E, l \o F!ItemsOf(w), more)
  <2>1. CASE F!IsItem(line)
    <3>1. E = D \cup {e}
      BY <1>11, <1>12, <1>13, <2>1
    <3>2. PICK x \in Items : F!ItemsOf(w) = <<x>> /\ F!Says(line, x)
      BY <1>9, <2>1
    <3>3. F!Says(LineOf(f, e), x)
      BY <3>2 DEF line
    <3>4. \E more : Follow(f, D \cup {e}, l \o <<x>>, more)
      BY <1>14, <1>15, <3>3, FollowOne
    <3>. QED  BY <3>1, <3>2, <3>4
  <2>2. CASE ~F!IsItem(line)
    <3>1. E = D
      BY <1>11, <1>12, <2>2
    <3>2. l \o F!ItemsOf(w) = l
      BY <1>9, <2>2, ConcatEmptySeq
    <3>. QED  BY <1>14, <3>1, <3>2
  <2>. QED  BY <2>1, <2>2
<1>17. b = 0 \/ b = Len(f) \/ b \in EndsOf(f)
  BY <1>3, <1>4
<1>. QED  BY <1>16, <1>17 DEF Matched, b, w, E

\* The invariant of loading a configuration.  (The items are known, line by line,
\* only where no line is longer than the buffer.)
ConfInv ==
  /\ part # "conf" => NoFile
  /\ part = "conf" =>
       /\ file \in Files /\ at \in 0..Len(file)
       /\ eof \in BOOLEAN /\ error \in BOOLEAN /\ loaded \in BOOLEAN
       /\ eof => at = Len(file)
       /\ loaded => eof
       /\ items \in Seq(Items)
       /\ Len(items) <= Cardinality({k \in 1..at : file[k] = "="})
       /\ ShortOf(file) => Matched(file, at, items)

LEMMA FilesAre == Files \subseteq Text
BY PartsAssumption DEF F!ConfAssumption, Text

LEMMA ConfInit ==
  ASSUME PartsInit
  PROVE  ConfInv
<1>1. CASE part # "conf"
  BY <1>1 DEF PartsInit, ConfInv
<1>2. CASE part = "conf"
  <2>1. /\ file \in Files /\ at = 0 /\ eof = FALSE /\ error = FALSE /\ items = <<>>
        /\ loaded = FALSE
    BY <1>2 DEF PartsInit, F!Init
  <2>2. file \in Text /\ Len(file) \in Nat
    BY <2>1, FilesAre, TextLen
  <2>3. Matched(file, 0, <<>>)
    BY <2>2, NothingMatched
  <2>4. <<>> \in Seq(Items) /\ Len(<<>>) = 0
    BY EmptySeq
  <2>5. Cardinality({k \in 1..0 : file[k] = "="}) = 0
    <3>1. {k \in 1..0 : file[k] = "="} = {}
      OBVIOUS
    <3>. QED  BY <3>1, FS_EmptySet
  <2>6. /\ at \in 0..Len(file) /\ eof \in BOOLEAN /\ error \in BOOLEAN /\ loaded \in BOOLEAN
        /\ items \in Seq(Items) /\ (eof => at = Len(file)) /\ (loaded => eof)
    <3>1. at \in 0..Len(file)
      BY <2>1, <2>2
    <3>. QED  BY <2>1, <2>4, <3>1, Zenon
  <2>7. Len(items) <= Cardinality({k \in 1..at : file[k] = "="})
    BY <2>1, <2>4, <2>5
  <2>. QED  BY <1>2, <2>1, <2>3, <2>6, <2>7 DEF ConfInv
<1>. QED  BY <1>1, <1>2

\* An item more needs an = more.
LEMMA EqualsGrow ==
  ASSUME NEW f, NEW n \in Nat, NEW b \in Nat, n < b
  PROVE  /\ Cardinality({k \in 1..n : f[k] = "="}) \in Nat
         /\ Cardinality({k \in 1..n : f[k] = "="}) <= Cardinality({k \in 1..b : f[k] = "="})
         /\ (\E i \in 1..(b - n) : f[n + i] = "=") =>
              Cardinality({k \in 1..n : f[k] = "="}) + 1 <= Cardinality({k \in 1..b : f[k] = "="})
<1>. DEFINE A == {k \in 1..n : f[k] = "="}
            B == {k \in 1..b : f[k] = "="}
<1>1. IsFiniteSet(A) /\ IsFiniteSet(B)
  <2>1. IsFiniteSet(1..n) /\ IsFiniteSet(1..b)
    BY FS_Interval
  <2>2. A \subseteq 1..n /\ B \subseteq 1..b
    OBVIOUS
  <2>. HIDE DEF A, B
  <2>. QED  BY <2>1, <2>2, FS_Subset
<1>2. A \subseteq B
  OBVIOUS
<1>3. Cardinality(A) \in Nat /\ Cardinality(B) \in Nat /\ Cardinality(A) <= Cardinality(B)
  <2>. HIDE DEF A, B
  <2>. QED  BY <1>1, <1>2, FS_Subset, FS_CardinalityType
<1>4. ASSUME NEW i \in 1..(b - n), f[n + i] = "=" PROVE Cardinality(A) + 1 <= Cardinality(B)
  <2>. DEFINE c == n + i
  <2>1. c \in B /\ c \notin A
    BY <1>4
  <2>. HIDE DEF A, B, c
  <2>2. Cardinality(A \cup {c}) = Cardinality(A) + 1 /\ IsFiniteSet(A \cup {c})
    BY <1>1, <2>1, FS_AddElement
  <2>3. A \cup {c} \subseteq B
    BY <1>2, <2>1
  <2>4. Cardinality(A \cup {c}) <= Cardinality(B)
    BY <1>1, <2>3, FS_Subset
  <2>. QED  BY <2>2, <2>4
<1>. QED  BY <1>3, <1>4

\* One round of the loop of CConfig::Load.
LEMMA ReadLineKeeps ==
  ASSUME ConfInv, part = "conf", part' = part, F!ReadLine
  PROVE  ConfInv'
<1>. DEFINE b == F!LineEnd
            w == SubSeq(file, at + 1, F!LineEnd)
            A == {k \in 1..at : file[k] = "="}
            B == {k \in 1..b : file[k] = "="}
            more == F!ItemsOf(w)
<1>1. /\ ~loaded /\ ~eof /\ ~error /\ at < Len(file)
      /\ items' = items \o more /\ at' = b
      /\ eof' = (F!Last(w) # F!Newline /\ Len(w) < LineSize - 1)
      /\ file' = file /\ error' = error /\ loaded' = loaded
  BY DEF F!ReadLine
<1>2. /\ file \in Files /\ at \in 0..Len(file)
      /\ eof \in BOOLEAN /\ error \in BOOLEAN /\ loaded \in BOOLEAN
      /\ items \in Seq(Items) /\ Len(items) <= Cardinality(A)
      /\ ShortOf(file) => Matched(file, at, items)
  BY DEF ConfInv
<1>3. file \in Text /\ Len(file) \in Nat /\ at \in Nat
  <2>1. file \in Text /\ Len(file) \in Nat
    BY <1>2, FilesAre, TextLen
  <2>. QED  BY <1>2, <2>1
<1>4. b = LineEndOf(file, at) /\ w = NextLine(file, at)
  BY OfFile DEF NextLine
<1>5. /\ b \in (at + 1)..Len(file) /\ b - at <= LineSize - 1
      /\ b = Len(file) \/ file[b] = F!Newline \/ b - at = LineSize - 1
  BY <1>1, <1>3, <1>4, LineEndIs
<1>6. /\ w \in Text /\ Len(w) = b - at /\ Len(w) # 0
      /\ \A i \in 1..(b - at) : w[i] = file[at + i]
  BY <1>1, <1>3, <1>4, NextLineIs
<1>7. \/ more = <<>>
      \/ (\E x \in Items : more = <<x>>) /\ \E k \in 1..Len(w) : w[k] = "="
  <2>. HIDE DEF w
  <2>. QED  BY <1>6, ItemsType
<1>8. eof' => at' = Len(file)
  <2>. SUFFICES ASSUME F!Last(w) # F!Newline, Len(w) < LineSize - 1 PROVE b = Len(file)
    BY <1>1
  <2>1. F!Last(w) = file[b]
    <3>1. b - at \in 1..(b - at) /\ at + (b - at) = b
      BY <1>3, <1>5
    <3>2. w[Len(w)] = file[b]
      BY <1>6, <3>1
    <3>. QED  BY <3>2 DEF F!Last
  <2>. HIDE DEF b, w
  <2>. QED  BY <1>5, <1>6, <2>1, LineSizeIs
<1>9. Matched(file, at, items) /\ ShortOf(file) => Matched(file, b, items \o more)
  <2>. SUFFICES ASSUME Matched(file, at, items), ShortOf(file)
                PROVE  Matched(file, b, items \o more)
    OBVIOUS
  <2>1. Matched(file, LineEndOf(file, at), items \o F!ItemsOf(NextLine(file, at)))
    BY <1>1, <1>2, <1>3, MatchedStep
  <2>. QED  BY <1>4, <2>1
<1>. HIDE DEF b, w, more
<1>10. at < b /\ b \in Nat /\ b \in 0..Len(file)
  BY <1>3, <1>5
<1>11. /\ Cardinality(A) \in Nat /\ Cardinality(A) <= Cardinality(B)
       /\ (\E i \in 1..(b - at) : file[at + i] = "=") => Cardinality(A) + 1 <= Cardinality(B)
  BY <1>3, <1>10, EqualsGrow
<1>12. Cardinality(B) \in Nat
  <2>1. IsFiniteSet(1..b) /\ B \subseteq 1..b
    BY <1>10, FS_Interval
  <2>. HIDE DEF B
  <2>2. IsFiniteSet(B)
    BY <2>1, FS_Subset
  <2>. QED  BY <2>2, FS_CardinalityType
<1>. HIDE DEF A, B
<1>13. items \o more \in Seq(Items) /\ Len(items \o more) <= Cardinality(B)
  <2>0. Len(items) \in Nat
    BY <1>2, LenProperties
  <2>1. CASE more = <<>>
    <3>1. items \o more = items
      BY <1>2, <2>1, ConcatEmptySeq
    <3>. QED  BY <1>2, <1>11, <1>12, <2>0, <3>1
  <2>2. CASE (\E x \in Items : more = <<x>>) /\ \E k \in 1..Len(w) : w[k] = "="
    <3>1. PICK x \in Items : more = <<x>>
      BY <2>2
    <3>2. <<x>> \in Seq(Items) /\ Len(<<x>>) = 1
      OBVIOUS
    <3>3. more \in Seq(Items) /\ Len(more) = 1
      BY <3>1, <3>2
    <3>4. items \o more \in Seq(Items) /\ Len(items \o more) = Len(items) + Len(more)
      BY <1>2, <3>3, ConcatProperties
    <3>5. \E i \in 1..(b - at) : file[at + i] = "="
      BY <1>6, <2>2
    <3>. QED  BY <1>2, <1>11, <1>12, <2>0, <3>3, <3>4, <3>5
  <2>. QED  BY <1>7, <2>1, <2>2
<1>14. /\ part' = "conf" /\ file' \in Files /\ at' \in 0..Len(file')
       /\ error' \in BOOLEAN /\ loaded' \in BOOLEAN
       /\ items' \in Seq(Items)
       /\ ShortOf(file') => Matched(file', at', items')
  BY <1>1, <1>2, <1>9, <1>10, <1>13, Zenon
<1>15. eof' \in BOOLEAN
  BY <1>1, Zenon
<1>16. (eof' => at' = Len(file')) /\ (loaded' => eof')
  BY <1>1, <1>8
<1>17. Len(items') <= Cardinality({k \in 1..at' : file'[k] = "="})
  BY <1>1, <1>13 DEF B
<1>. QED  BY <1>14, <1>15, <1>16, <1>17 DEF ConfInv, ShortOf, Matched, DoneEnds, ItemEndsOf, EndsOf, LineOf, Follow

LEMMA ConfStep ==
  ASSUME ConfInv, [PartsNext]_partsVars
  PROVE  ConfInv'
<1>1. CASE part = "conf" /\ part' = part /\ F!ReadLine
  BY <1>1, ReadLineKeeps
<1>2. CASE /\ part = "conf" /\ part' = part
           /\ F!ReadNothing \/ F!ReadFails \/ F!Close
  <2>. DEFINE Flags == /\ file' = file /\ at' = at /\ items' = items
                       /\ eof' \in BOOLEAN /\ error' \in BOOLEAN /\ loaded' \in BOOLEAN
                       /\ eof' => at = Len(file)
                       /\ loaded' => eof'
  <2>1. /\ eof \in BOOLEAN /\ error \in BOOLEAN /\ loaded \in BOOLEAN
        /\ eof => at = Len(file)
        /\ loaded => eof
    BY <1>2 DEF ConfInv
  <2>2. ASSUME F!ReadNothing PROVE Flags
    BY <2>1, <2>2, Zenon DEF F!ReadNothing
  <2>3. ASSUME F!ReadFails PROVE Flags
    BY <2>1, <2>3, Zenon DEF F!ReadFails
  <2>4. ASSUME F!Close PROVE Flags
    BY <2>1, <2>4, Zenon DEF F!Close
  <2>5. Flags
    <3>. HIDE DEF Flags
    <3>. QED  BY <1>2, <2>2, <2>3, <2>4
  <2>. QED  BY <1>2, <2>5, Zenon DEF ConfInv
<1>3. CASE part' = part /\ UNCHANGED confVars
  BY <1>3 DEF ConfInv, confVars, NoFile
<1>4. \/ part = "conf" /\ part' = part /\ F!Next
      \/ part' = part /\ UNCHANGED confVars
  BY DEF PartsNext, LogicRuns, CrcRuns, ConfRuns, PrintfRuns, LogRuns, StartupRuns, partsVars
<1>. QED  BY <1>1, <1>2, <1>3, <1>4 DEF F!Next, F!Load

LEMMA ConfInductive == PartsSpec => []ConfInv
<1>1. PartsInit => ConfInv
  BY ConfInit
<1>2. ConfInv /\ [PartsNext]_partsVars => ConfInv'
  BY ConfStep
<1>. QED  BY <1>1, <1>2, PTL DEF PartsSpec
-----------------------------------------------------------------------------
(* What has been loaded, and what is looked up *)

\* The items that have been loaded are those of the file's lines.
LEMMA Loaded ==
  ASSUME ConfInv, loaded, F!ShortLines
  PROVE  /\ part = "conf" /\ file \in Text /\ Len(items) \in Nat /\ DOMAIN items = 1..Len(items)
         /\ ItemEndsOf(file) \in SUBSET Nat
         /\ \A e \in ItemEndsOf(file) : LineOf(file, e) \in Text
         /\ \E ends : Follow(file, ItemEndsOf(file), items, ends)
<1>1. part = "conf"
  BY DEF ConfInv, NoFile
<1>2. /\ file \in Files /\ at = Len(file) /\ items \in Seq(Items)
      /\ Matched(file, at, items)
  BY <1>1, OfFile DEF ConfInv
<1>3. file \in Text
  BY <1>2, FilesAre
<1>4. DoneEnds(file, at) = ItemEndsOf(file)
  BY <1>2 DEF DoneEnds
<1>5. \E ends : Follow(file, ItemEndsOf(file), items, ends)
  BY <1>2, <1>4 DEF Matched
<1>6. ASSUME NEW e \in ItemEndsOf(file) PROVE e \in Nat /\ LineOf(file, e) \in Text
  <2>1. e \in EndsOf(file) /\ e \in 1..(Len(file) + 1) /\ Len(file) \in Nat
    BY <1>3, <1>6, EndsAre DEF ItemEndsOf
  <2>. DEFINE T == {k \in EndsOf(file) \cup {0} : k < e}
              n == F!Max(T)
  <2>2. T \in SUBSET (0..e) /\ T # {} /\ e \in Nat
    <3>1. 0 \in T /\ e \in Nat
      BY <2>1
    <3>2. \A k \in T : k \in 0..e
      BY <1>3, <2>1, EndsAre
    <3>. QED  BY <3>1, <3>2
  <2>3. n \in T /\ \A m \in T : m <= n
    <3>. HIDE DEF T
    <3>. QED  BY <2>1, <2>2, MaxIs
  <2>. HIDE DEF n
  <2>4. n \in Nat /\ (n = 0 \/ n \in EndsOf(file)) /\ n < e
    BY <2>2, <2>3
  <2>5. ASSUME NEW k \in EndsOf(file), n < k, k < e PROVE FALSE
    <3>1. k \in T /\ k \in Nat
      BY <1>3, <2>5, EndsAre
    <3>. HIDE DEF T
    <3>. QED  BY <2>3, <2>4, <2>5, <3>1
  <2>. QED  BY <1>3, <2>1, <2>4, <2>5, LineIs
<1>. QED  BY <1>1, <1>2, <1>3, <1>5, <1>6, LenProperties

LEMMA ItemsAreRight == ConfInv => F!ItemsRight
<1>. SUFFICES ASSUME ConfInv, loaded, F!ShortLines
              PROVE  \E ends \in [DOMAIN items -> F!ItemEnds] :
                       /\ F!ItemEnds = F!Range(ends)
                       /\ \A j, k \in DOMAIN items : j < k => ends[j] < ends[k]
                       /\ \A k \in DOMAIN items : F!Says(F!LineTo(ends[k]), items[k])
  BY DEF F!ItemsRight
<1>1. DOMAIN items = 1..Len(items)
  BY Loaded
<1>2. PICK ends : Follow(file, ItemEndsOf(file), items, ends)
  BY Loaded
<1>3. /\ F!ItemEnds = ItemEndsOf(file)
      /\ \A end : F!LineTo(end) = LineOf(file, end)
  BY OfFile
<1>4. /\ ends \in [DOMAIN items -> F!ItemEnds]
      /\ \A e \in F!ItemEnds : \E k \in DOMAIN items : ends[k] = e
      /\ \A j, k \in DOMAIN items : j < k => ends[j] < ends[k]
      /\ \A k \in DOMAIN items : F!Says(F!LineTo(ends[k]), items[k])
  BY <1>1, <1>2, <1>3 DEF Follow
<1>5. F!ItemEnds = F!Range(ends)
  BY <1>4 DEF F!Range
<1>. QED  BY <1>4, <1>5

LEMMA FirstLinesCount == ConfInv => F!FirstLineCounts
<1>. SUFFICES ASSUME ConfInv, loaded, F!ShortLines, NEW name \in Names
              PROVE  LET named == {end \in F!ItemEnds : \E item \in F!Range(items) :
                                     /\ F!Says(F!LineTo(end), item)
                                     /\ F!Lower(item.ItemName) = F!Lower(name)}
                         content == F!GetString(items, name)
                     IN  IF named = {} THEN content = F!NULL
                         ELSE \E item \in F!Range(items) :
                                /\ F!Says(F!LineTo(F!Min(named)), item)
                                /\ item.ItemContent = content
  BY DEF F!FirstLineCounts
<1>. DEFINE I == ItemEndsOf(file)
            c == F!Lower(name)
            named == {end \in F!ItemEnds : \E item \in F!Range(items) :
                        F!Says(F!LineTo(end), item) /\ F!Lower(item.ItemName) = c}
            same == {k \in DOMAIN items : F!Lower(items[k].ItemName) = c}
            content == F!GetString(items, name)
<1>1. /\ Len(items) \in Nat /\ DOMAIN items = 1..Len(items)
      /\ I \in SUBSET Nat /\ \A e \in I : LineOf(file, e) \in Text
  BY Loaded
<1>2. PICK ends : Follow(file, ItemEndsOf(file), items, ends)
  BY Loaded
<1>3. /\ ends \in [1..Len(items) -> I]
      /\ \A e \in I : \E k \in 1..Len(items) : ends[k] = e
      /\ \A j, k \in 1..Len(items) : j < k => ends[j] < ends[k]
      /\ \A k \in 1..Len(items) : F!Says(LineOf(file, ends[k]), items[k])
  BY <1>2 DEF Follow
<1>4. F!ItemEnds = I /\ \A end : F!LineTo(end) = LineOf(file, end)
  BY OfFile
<1>5. content = IF same = {} THEN F!NULL ELSE items[F!Min(same)].ItemContent
  BY DEF F!GetString, F!Found
<1>. HIDE DEF I, c, content
\* Where a line stands by its item.
<1>6. ASSUME NEW k \in 1..Len(items)
      PROVE  ends[k] \in named <=> k \in same
  <2>1. ends[k] \in I /\ F!Says(LineOf(file, ends[k]), items[k])
        /\ items[k] \in F!Range(items) /\ LineOf(file, ends[k]) \in Text
    BY <1>1, <1>3 DEF F!Range
  <2>2. ASSUME k \in same PROVE ends[k] \in named
    BY <1>4, <2>1, <2>2
  <2>3. ASSUME ends[k] \in named PROVE k \in same
    <3>1. PICK item \in F!Range(items) :
            F!Says(LineOf(file, ends[k]), item) /\ F!Lower(item.ItemName) = c
      BY <1>4, <2>3
    <3>2. item.ItemName = items[k].ItemName
      BY <2>1, <3>1, SaysOnce
    <3>. QED  BY <1>1, <3>1, <3>2
  <2>. QED  BY <2>2, <2>3
<1>7. named \in SUBSET I
  BY <1>4
<1>8. same \in SUBSET (1..Len(items)) /\ same \in SUBSET Nat
  BY <1>1
<1>. HIDE DEF named, same
<1>9. CASE named = {}
  <2>1. same = {}
    BY <1>6, <1>8, <1>9
  <2>2. content = F!NULL
    BY <1>5, <2>1
  <2>. QED  BY <1>9, <2>2 DEF named, content, c
<1>10. CASE named # {}
  <2>. DEFINE e == F!Min(named)
  <2>1. named \in SUBSET Nat
    BY <1>1, <1>7
  <2>2. e \in named /\ \A m \in named : e <= m
    BY <1>10, <2>1, MinIs
  <2>. HIDE DEF e
  <2>3. PICK k \in 1..Len(items) : ends[k] = e
    BY <1>3, <1>7, <2>2
  <2>4. k \in same
    BY <1>6, <2>2, <2>3
  <2>5. ASSUME NEW j \in same PROVE k <= j
    <3>1. j \in 1..Len(items) /\ ends[j] \in named /\ e <= ends[j]
      BY <1>6, <1>8, <2>2, <2>5
    <3>2. ~(j < k)
      <4>. SUFFICES ASSUME j < k PROVE FALSE
        OBVIOUS
      <4>1. ends[j] < ends[k]
        BY <1>3, <3>1
      <4>2. ends[j] \in Nat /\ e \in Nat
        BY <2>1, <2>2, <3>1
      <4>. QED  BY <2>3, <3>1, <4>1, <4>2
    <3>. QED  BY <1>1, <3>1, <3>2
  <2>6. F!Min(same) = k
    <3>1. F!Min(same) \in same /\ F!Min(same) <= k
      BY <1>8, <2>4, MinIs
    <3>2. k <= F!Min(same)
      BY <2>5, <3>1
    <3>3. F!Min(same) \in Nat
      BY <1>8, <3>1
    <3>4. k \in Nat
      BY <1>1, <2>3
    <3>. QED  BY <3>1, <3>2, <3>3, <3>4
  <2>7. content = items[k].ItemContent
    BY <1>5, <2>4, <2>6
  <2>8. items[k] \in F!Range(items) /\ F!Says(F!LineTo(e), items[k])
    BY <1>1, <1>3, <1>4, <2>3 DEF F!Range
  <2>9. \E item \in F!Range(items) : F!Says(F!LineTo(e), item) /\ item.ItemContent = content
    BY <2>7, <2>8
  <2>. QED  BY <1>10, <2>9 DEF named, content, e, c
<1>. QED  BY <1>9, <1>10

LEMMA LoadTypes == ConfInv /\ part = "conf" => F!TypeOK
<1>1. \A T : F!Cardinality(T) = Cardinality(T)
  BY DEF F!Cardinality, Cardinality
<1>. QED  BY <1>1 DEF ConfInv, F!TypeOK

\* For any files, names and sizes of the buffer, CConfig::Load makes of a file the
\* items of its lines, and CConfig::GetString finds what the first line with a
\* name says, where no line is longer than the buffer.
THEOREM ConfigurationsRight == PartsSpec => []ConfigurationRight
<1>1. ConfInv => ConfigurationRight
  BY ItemsAreRight, FirstLinesCount, LoadTypes DEF ConfigurationRight
<1>. QED  BY <1>1, ConfInductive, PTL
=============================================================================
