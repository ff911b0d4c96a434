----------------------------- MODULE TextProofs -----------------------------
(***************************************************************************)
(* Theorems about Printf and Conf: what formatting and loading a           *)
(* configuration compute, for any formats and buffers and for any files.   *)
(***************************************************************************)
EXTENDS Parts, ListLemmas

-----------------------------------------------------------------------------
(* Texts that are cut off *)

Text == Seq(Chars)

\* What is there of a text where there is room for n characters.
Cut(s, n) == P!Copied(s, n)

\* Texts with the same characters are the same.
LEMMA SameText ==
  ASSUME NEW s \in Text, NEW t \in Text, Len(s) = Len(t),
         \A i \in 1..Len(s) : s[i] = t[i]
  PROVE  s = t
BY SeqEqual DEF Text

LEMMA TextLen ==
  ASSUME NEW s \in Text
  PROVE  /\ Len(s) \in Nat /\ DOMAIN s = 1..Len(s) /\ \A i \in 1..Len(s) : s[i] \in Chars
         /\ s \in [1..Len(s) -> Chars]
BY LenProperties, ElementOfSeq DEF Text

LEMMA NoText ==
  /\ <<>> \in Text /\ Len(<<>>) = 0
  /\ \A s \in Text : s \o <<>> = s /\ <<>> \o s = s
  /\ \A s \in Text : Len(s) = 0 => s = <<>>
<1>1. <<>> \in Text /\ Len(<<>>) = 0
  BY EmptySeq DEF Text
<1>2. ASSUME NEW s \in Text PROVE s \o <<>> = s /\ <<>> \o s = s
  BY ConcatEmptySeq DEF Text
<1>3. ASSUME NEW s \in Text, Len(s) = 0 PROVE s = <<>>
  BY <1>1, <1>3, SameText
<1>. QED  BY <1>1, <1>2, <1>3

LEMMA Joined ==
  ASSUME NEW s \in Text, NEW t \in Text
  PROVE  /\ s \o t \in Text /\ Len(s \o t) = Len(s) + Len(t)
         /\ \A i \in 1..Len(s) : (s \o t)[i] = s[i]
         /\ \A i \in 1..Len(t) : (s \o t)[Len(s) + i] = t[i]
         /\ \A i \in (Len(s) + 1)..(Len(s) + Len(t)) : (s \o t)[i] = t[i - Len(s)]
<1>1. /\ s \o t \in Text /\ Len(s \o t) = Len(s) + Len(t)
      /\ \A i \in 1..(Len(s) + Len(t)) :
           (s \o t)[i] = IF i <= Len(s) THEN s[i] ELSE t[i - Len(s)]
  BY ConcatProperties DEF Text
<1>2. Len(s) \in Nat /\ Len(t) \in Nat
  BY TextLen
<1>3. ASSUME NEW i \in 1..Len(s) PROVE (s \o t)[i] = s[i]
  <2>1. i \in 1..(Len(s) + Len(t)) /\ i <= Len(s)
    BY <1>2
  <2>. QED  BY <1>1, <2>1
<1>4. ASSUME NEW i \in 1..Len(t) PROVE (s \o t)[Len(s) + i] = t[i]
  <2>1. /\ Len(s) + i \in 1..(Len(s) + Len(t)) /\ ~(Len(s) + i <= Len(s))
        /\ Len(s) + i - Len(s) = i
    BY <1>2
  <2>. QED  BY <1>1, <2>1
<1>5. ASSUME NEW i \in (Len(s) + 1)..(Len(s) + Len(t)) PROVE (s \o t)[i] = t[i - Len(s)]
  <2>1. i \in 1..(Len(s) + Len(t)) /\ ~(i <= Len(s))
    BY <1>2
  <2>. QED  BY <1>1, <2>1
<1>. QED  BY <1>1, <1>3, <1>4, <1>5

LEMMA JoinedTwice ==
  ASSUME NEW s \in Text, NEW t \in Text, NEW u \in Text
  PROVE  (s \o t) \o u = s \o (t \o u)
BY ConcatAssociative DEF Text

\* A piece from the middle.
LEMMA Piece ==
  ASSUME NEW s \in Text, NEW m \in Nat, NEW n \in Nat, m + n <= Len(s)
  PROVE  /\ SubSeq(s, m + 1, m + n) \in Text /\ Len(SubSeq(s, m + 1, m + n)) = n
         /\ \A i \in 1..n : SubSeq(s, m + 1, m + n)[i] = s[m + i]
BY PieceOfList DEF Text

LEMMA CutIs ==
  ASSUME NEW s \in Text, NEW n \in Nat
  PROVE  /\ Cut(s, n) \in Text
         /\ Len(Cut(s, n)) = IF n <= Len(s) THEN n ELSE Len(s)
         /\ \A i \in 1..Len(Cut(s, n)) : Cut(s, n)[i] = s[i]
<1>1. Len(s) \in Nat
  BY TextLen
<1>. DEFINE m == IF n <= Len(s) THEN n ELSE Len(s)
<1>. DEFINE z == 0
            cut == SubSeq(s, z + 1, z + m)
<1>2. /\ m \in Nat /\ z \in Nat /\ z + m <= Len(s) /\ \A i \in 1..m : z + i = i
      /\ z + 1 = 1 /\ z + m = m
  BY <1>1
<1>3. cut \in Text /\ Len(cut) = m /\ \A i \in 1..m : cut[i] = s[z + i]
  <2>. HIDE DEF m, z
  <2>. QED  BY <1>2, Piece
<1>4. Cut(s, n) = cut
  <2>1. P!AtMost(n, Len(s)) = m
    BY DEF P!AtMost
  <2>. HIDE DEF m, z
  <2>. QED  BY <1>2, <2>1 DEF Cut, P!Copied
<1>. HIDE DEF m, z, cut
<1>6. /\ Cut(s, n) \in Text /\ Len(Cut(s, n)) = m
      /\ \A i \in 1..Len(Cut(s, n)) : Cut(s, n)[i] = s[i]
  BY <1>2, <1>3, <1>4
<1>. QED  BY <1>6 DEF m

\* Without room nothing is there, even where the room is negative.
LEMMA CutNothing ==
  ASSUME NEW s \in Text, NEW n \in Int, n <= 0
  PROVE  Cut(s, n) = <<>>
<1>1. Len(s) \in Nat
  BY TextLen
<1>2. P!AtMost(n, Len(s)) = n
  BY <1>1 DEF P!AtMost
<1>3. n < 1 /\ 1 \in Int
  OBVIOUS
<1>. QED  BY <1>2, <1>3, SubSeqEmpty DEF Cut, P!Copied

LEMMA CutWhole ==
  ASSUME NEW s \in Text, NEW n \in Nat, Len(s) <= n
  PROVE  Cut(s, n) = s
<1>1. Len(s) \in Nat /\ (IF n <= Len(s) THEN n ELSE Len(s)) = Len(s)
  BY TextLen
<1>2. /\ Cut(s, n) \in Text /\ Len(Cut(s, n)) = Len(s)
      /\ \A i \in 1..Len(Cut(s, n)) : Cut(s, n)[i] = s[i]
  BY <1>1, CutIs
<1>. QED  BY <1>2, SameText

\* What is cut off twice is cut off at the first of the two ends.
LEMMA CutTwice ==
  ASSUME NEW s \in Text, NEW m \in Nat, NEW n \in Nat, m <= n
  PROVE  Cut(Cut(s, n), m) = Cut(s, m)
<1>1. Len(s) \in Nat
  BY TextLen
<1>. DEFINE a == Cut(s, n)
            b == Cut(s, m)
            c == Cut(a, m)
<1>2. /\ a \in Text /\ Len(a) = IF n <= Len(s) THEN n ELSE Len(s)
      /\ \A i \in 1..Len(a) : a[i] = s[i]
  BY CutIs
<1>3. /\ b \in Text /\ Len(b) = IF m <= Len(s) THEN m ELSE Len(s)
      /\ \A i \in 1..Len(b) : b[i] = s[i]
  BY CutIs
<1>. HIDE DEF a, b
<1>4. /\ c \in Text /\ Len(c) = IF m <= Len(a) THEN m ELSE Len(a)
      /\ \A i \in 1..Len(c) : c[i] = a[i]
  BY <1>2, CutIs
<1>. HIDE DEF c
<1>5. Len(c) = Len(b) /\ \A i \in 1..Len(c) : i \in 1..Len(a)
  BY <1>1, <1>2, <1>3, <1>4
<1>6. \A i \in 1..Len(c) : c[i] = b[i]
  BY <1>2, <1>3, <1>4, <1>5
<1>7. c = b
  BY <1>3, <1>4, <1>5, <1>6, SameText
<1>. QED  BY <1>7 DEF a, b, c

\* The end of two texts, one after the other, is in the first or in the second.
LEMMA CutFirst ==
  ASSUME NEW s \in Text, NEW t \in Text, NEW n \in Nat, n <= Len(s)
  PROVE  Cut(s \o t, n) = Cut(s, n)
<1>1. Len(s) \in Nat /\ Len(t) \in Nat
  BY TextLen
<1>. DEFINE u == s \o t
            a == Cut(u, n)
            b == Cut(s, n)
<1>2. /\ u \in Text /\ Len(u) = Len(s) + Len(t)
      /\ \A i \in 1..Len(s) : u[i] = s[i]
  BY Joined
<1>3. b \in Text /\ Len(b) = n /\ \A i \in 1..Len(b) : b[i] = s[i]
  BY CutIs
<1>. HIDE DEF u, b
<1>4. a \in Text /\ Len(a) = n /\ \A i \in 1..Len(a) : a[i] = u[i]
  <2>1. n <= Len(u)
    BY <1>1, <1>2
  <2>. QED  BY <1>2, <2>1, CutIs
<1>. HIDE DEF a
<1>5. \A i \in 1..Len(a) : a[i] = b[i]
  <2>1. \A i \in 1..n : i \in 1..Len(s)
    BY <1>1
  <2>. QED  BY <1>2, <1>3, <1>4, <2>1
<1>6. a = b
  BY <1>3, <1>4, <1>5, SameText
<1>. QED  BY <1>6 DEF a, b, u

LEMMA CutSecond ==
  ASSUME NEW s \in Text, NEW t \in Text, NEW n \in Nat, Len(s) <= n
  PROVE  Cut(s \o t, n) = s \o Cut(t, n - Len(s))
<1>1. Len(s) \in Nat /\ Len(t) \in Nat /\ n - Len(s) \in Nat
  BY TextLen
<1>. DEFINE u == s \o t
            a == Cut(u, n)
            b == Cut(t, n - Len(s))
            c == s \o b
<1>2. /\ u \in Text /\ Len(u) = Len(s) + Len(t)
      /\ \A i \in 1..Len(s) : u[i] = s[i]
      /\ \A i \in (Len(s) + 1)..(Len(s) + Len(t)) : u[i] = t[i - Len(s)]
  BY Joined
<1>3. /\ b \in Text /\ Len(b) = IF n - Len(s) <= Len(t) THEN n - Len(s) ELSE Len(t)
      /\ \A i \in 1..Len(b) : b[i] = t[i]
  BY <1>1, CutIs
<1>. HIDE DEF u, b
<1>4. /\ a \in Text /\ Len(a) = IF n <= Len(u) THEN n ELSE Len(u)
      /\ \A i \in 1..Len(a) : a[i] = u[i]
  BY <1>2, CutIs
<1>5. /\ c \in Text /\ Len(c) = Len(s) + Len(b)
      /\ \A i \in 1..Len(s) : c[i] = s[i]
      /\ \A i \in (Len(s) + 1)..(Len(s) + Len(b)) : c[i] = b[i - Len(s)]
  BY <1>3, Joined
<1>. HIDE DEF a, c
<1>6. Len(b) \in Nat /\ Len(a) = Len(c) /\ Len(a) <= Len(s) + Len(t)
  BY <1>1, <1>2, <1>3, <1>4, <1>5
<1>7. ASSUME NEW i \in 1..Len(a) PROVE a[i] = c[i]
  <2>1. CASE i <= Len(s)
    <3>1. i \in 1..Len(s)
      BY <1>1, <2>1
    <3>. QED  BY <1>2, <1>4, <1>5, <3>1
  <2>2. CASE ~(i <= Len(s))
    <3>1. /\ i \in (Len(s) + 1)..(Len(s) + Len(t)) /\ i \in (Len(s) + 1)..(Len(s) + Len(b))
          /\ i - Len(s) \in 1..Len(b)
      BY <1>1, <1>5, <1>6, <2>2
    <3>2. a[i] = t[i - Len(s)] /\ c[i] = b[i - Len(s)]
      BY <1>2, <1>4, <1>5, <3>1
    <3>. QED  BY <1>3, <3>1, <3>2
  <2>. QED  BY <2>1, <2>2
<1>8. a = c
  BY <1>4, <1>5, <1>6, <1>7, SameText
<1>. QED  BY <1>8 DEF a, b, c, u

\* What follows a text that has been cut off is cut off there as well.
LEMMA CutThen ==
  ASSUME NEW s \in Text, NEW t \in Text, NEW n \in Nat
  PROVE  Cut(Cut(s, n) \o t, n) = Cut(s \o t, n)
<1>1. Len(s) \in Nat
  BY TextLen
<1>2. CASE Len(s) <= n
  BY <1>2, CutWhole
<1>3. CASE n <= Len(s)
  <2>. DEFINE a == Cut(s, n)
  <2>1. a \in Text /\ Len(a) = n
    BY <1>3, CutIs
  <2>2. Cut(a, n) = Cut(s, n)
    BY <1>1, CutTwice
  <2>3. Cut(s \o t, n) = Cut(s, n)
    BY <1>3, CutFirst
  <2>. HIDE DEF a
  <2>4. n <= Len(a)
    BY <2>1
  <2>5. Cut(a \o t, n) = Cut(a, n)
    BY <2>1, <2>4, CutFirst
  <2>. QED  BY <2>2, <2>3, <2>5 DEF a
<1>. QED  BY <1>1, <1>2, <1>3

-----------------------------------------------------------------------------
(* Numbers: padding and what there is room for *)

\* The characters of numbers are characters.
LEMMA CharsAre ==
  /\ \A k \in 1..16 : P!DigitChars[k] \in Chars /\ P!DigitChars[k] # "."
  /\ \A j, k \in 1..16 : P!DigitChars[j] = P!DigitChars[k] => j = k
  /\ P!DigitChars[1] = "0"
  /\ \A zero \in P!Pads : zero \in Chars /\ zero # "."
  /\ "0" \in P!Pads /\ "-" \in Chars /\ "." \in Chars /\ P!Pads \subseteq Chars
<1>1. {P!DigitChars[k] : k \in 1..16} \cup P!Pads \cup {"-", "."} \subseteq Chars
  BY PartsAssumption DEF P!PrintfAssumption
<1>2. \A k \in 1..16 : P!DigitChars[k] # "."
  BY DEF P!DigitChars
<1>3. \A j, k \in 1..16 : P!DigitChars[j] = P!DigitChars[k] => j = k
  BY DEF P!DigitChars
<1>4. P!DigitChars[1] = "0"
  BY DEF P!DigitChars
<1>5. \A zero \in P!Pads : zero # "."
  BY Zenon DEF P!Pads
<1>6. "0" \in P!Pads
  BY Zenon DEF P!Pads
<1>7. \A k \in 1..16 : P!DigitChars[k] \in Chars
  BY <1>1
<1>. QED  BY <1>1, <1>2, <1>3, <1>4, <1>5, <1>6, <1>7, Zenon

LEMMA OneChar ==
  ASSUME NEW c \in Chars
  PROVE  /\ <<c>> \in Text /\ Len(<<c>>) = 1 /\ <<c>>[1] = c
         /\ \A s \in Text : Append(s, c) = s \o <<c>>
<1>1. <<c>> \in Text /\ Len(<<c>>) = 1 /\ <<c>>[1] = c
  BY DEF Text
<1>2. \A s \in Text : Append(s, c) = s \o <<c>>
  BY AppendIsConcat DEF Text
<1>. QED  BY <1>1, <1>2

LEMMA RepeatIs ==
  ASSUME NEW c \in Chars, NEW n \in Int
  PROVE  /\ P!Repeat(c, n) \in Text
         /\ Len(P!Repeat(c, n)) = IF n >= 0 THEN n ELSE 0
         /\ \A i \in 1..Len(P!Repeat(c, n)) : P!Repeat(c, n)[i] = c
<1>. DEFINE m == IF n >= 0 THEN n ELSE 0
            s == P!Repeat(c, n)
<1>1. m \in Nat /\ 1..n = 1..m
  OBVIOUS
<1>2. s = [i \in 1..m |-> c]
  BY <1>1 DEF P!Repeat
<1>. HIDE DEF m, s
<1>3. s \in [1..m -> Chars]
  BY <1>2
<1>4. s \in Text
  BY <1>1, <1>3, SeqDef DEF Text
<1>5. DOMAIN s = 1..m /\ DOMAIN s = 1..Len(s) /\ Len(s) \in Nat
  BY <1>3, <1>4, TextLen
<1>6. Len(s) = m
  BY <1>1, <1>5
<1>7. \A i \in 1..Len(s) : s[i] = c
  BY <1>2, <1>6
<1>. QED  BY <1>4, <1>6, <1>7 DEF m, s

\* The padding of a number of len digits, where there is room.
Pad(len, zero, width) == P!Repeat(zero, width - len)

LEMMA PaddingIsCut ==
  ASSUME NEW zero \in Chars, NEW len \in Nat, NEW width \in Nat, NEW room \in Nat
  PROVE  P!Repeat(zero, P!Padding(len, width, room)) = Cut(Pad(len, zero, width), room)
<1>. DEFINE n == P!AtMost(width - len, room)
            s == P!Repeat(zero, n)
            p == Pad(len, zero, width)
            a == Cut(p, room)
<1>1. n \in Int /\ n = IF width - len <= room THEN width - len ELSE room
  BY DEF P!AtMost
<1>2. /\ p \in Text /\ Len(p) = IF width - len >= 0 THEN width - len ELSE 0
      /\ \A i \in 1..Len(p) : p[i] = zero
  <2>. DEFINE m == width - len
  <2>1. m \in Int
    OBVIOUS
  <2>. HIDE DEF m
  <2>2. /\ P!Repeat(zero, m) \in Text /\ Len(P!Repeat(zero, m)) = IF m >= 0 THEN m ELSE 0
        /\ \A i \in 1..Len(P!Repeat(zero, m)) : P!Repeat(zero, m)[i] = zero
    BY <2>1, RepeatIs
  <2>. QED  BY <2>2 DEF Pad, m
<1>. HIDE DEF n, p
<1>3. /\ s \in Text /\ Len(s) = IF n >= 0 THEN n ELSE 0
      /\ \A i \in 1..Len(s) : s[i] = zero
  BY <1>1, RepeatIs
<1>4. /\ a \in Text /\ Len(a) = IF room <= Len(p) THEN room ELSE Len(p)
      /\ \A i \in 1..Len(a) : a[i] = p[i]
  BY <1>2, CutIs
<1>. HIDE DEF s, a
<1>5. Len(s) = Len(a) /\ \A i \in 1..Len(a) : i \in 1..Len(p)
  BY <1>1, <1>2, <1>3, <1>4
<1>6. \A i \in 1..Len(s) : s[i] = a[i]
  BY <1>2, <1>3, <1>4, <1>5
<1>7. s = a
  BY <1>3, <1>4, <1>5, <1>6, SameText
<1>8. P!Padding(len, width, room) = n
  BY DEF P!Padding, n
<1>. QED  BY <1>7, <1>8 DEF s, a, p

LEMMA PadType ==
  ASSUME NEW zero \in Chars, NEW len \in Nat, NEW width \in Nat
  PROVE  /\ Pad(len, zero, width) \in Text
         /\ Len(Pad(len, zero, width)) = IF width - len >= 0 THEN width - len ELSE 0
         /\ \A i \in 1..Len(Pad(len, zero, width)) : Pad(len, zero, width)[i] = zero
<1>. DEFINE m == width - len
<1>1. m \in Int
  OBVIOUS
<1>2. Pad(len, zero, width) = P!Repeat(zero, m)
  BY DEF Pad
<1>. HIDE DEF m
<1>3. /\ P!Repeat(zero, m) \in Text /\ Len(P!Repeat(zero, m)) = IF m >= 0 THEN m ELSE 0
      /\ \A i \in 1..Len(P!Repeat(zero, m)) : P!Repeat(zero, m)[i] = zero
  BY <1>1, RepeatIs
<1>. QED  BY <1>2, <1>3 DEF m

\* What ngx_sprintf_num appends where there is room for it.
NumberText(ui64, zero, hexadecimal, width) ==
  Pad(Len(P!Digits(ui64, P!Base(hexadecimal))), zero, width)
    \o P!Digits(ui64, P!Base(hexadecimal))

\* Padding first, and then the digits for which there is room.
LEMMA NumberIs ==
  ASSUME NEW b \in Text, NEW end \in Nat, Len(b) <= end, NEW ui64, NEW zero \in Chars,
         NEW hexadecimal, NEW width \in Nat,
         P!Digits(ui64, P!Base(hexadecimal)) \in Text
  PROVE  /\ P!ngx_sprintf_num(b, end, ui64, zero, hexadecimal, width) =
              Cut(b \o NumberText(ui64, zero, hexadecimal, width), end)
         /\ NumberText(ui64, zero, hexadecimal, width) \in Text
<1>. DEFINE digits == P!Digits(ui64, P!Base(hexadecimal))
            room == end - Len(b)
            pad == Pad(Len(digits), zero, width)
            padding == P!Repeat(zero, P!Padding(Len(digits), width, room))
            rest == Cut(digits, room - Len(padding))
<1>1. digits \in Text /\ Len(digits) \in Nat /\ Len(b) \in Nat /\ room \in Nat
  BY TextLen
<1>2. P!ngx_sprintf_num(b, end, ui64, zero, hexadecimal, width) =
        (b \o padding) \o Cut(digits, end - Len(b \o padding))
  BY DEF P!ngx_sprintf_num, Cut
<1>3. NumberText(ui64, zero, hexadecimal, width) = pad \o digits
  BY DEF NumberText
<1>. HIDE DEF digits
<1>4. pad \in Text
  BY <1>1, PadType
<1>5. padding = Cut(pad, room)
  <2>. HIDE DEF room
  <2>. QED  BY <1>1, PaddingIsCut
<1>6. /\ padding \in Text /\ Len(padding) = IF room <= Len(pad) THEN room ELSE Len(pad)
  <2>. HIDE DEF pad, room, padding
  <2>. QED  BY <1>1, <1>4, <1>5, CutIs
<1>. HIDE DEF pad, padding
<1>7. room - Len(padding) \in Nat /\ Len(pad) \in Nat
  BY <1>1, <1>4, <1>6, TextLen
<1>8. rest \in Text
  <2>. DEFINE n == room - Len(padding)
  <2>1. n \in Nat
    BY <1>7
  <2>. HIDE DEF n
  <2>2. Cut(digits, n) \in Text
    BY <1>1, <2>1, CutIs
  <2>. QED  BY <2>2 DEF n
<1>9. padding \o rest = Cut(pad \o digits, room)
  <2>1. CASE Len(pad) <= room
    <3>1. padding = pad
      BY <1>1, <1>4, <1>5, <2>1, CutWhole
    <3>2. Cut(pad \o digits, room) = pad \o Cut(digits, room - Len(pad))
      BY <1>1, <1>4, <2>1, CutSecond
    <3>. QED  BY <3>1, <3>2
  <2>2. CASE room <= Len(pad)
    <3>1. Cut(pad \o digits, room) = Cut(pad, room)
      BY <1>1, <1>4, <2>2, CutFirst
    <3>2. rest = <<>>
      <4>1. room - Len(padding) = 0
        BY <1>1, <1>6, <2>2
      <4>2. Cut(digits, 0) = <<>>
        BY <1>1, CutNothing
      <4>. QED  BY <4>1, <4>2
    <3>3. padding \o <<>> = padding
      BY <1>6, NoText
    <3>. QED  BY <1>5, <3>1, <3>2, <3>3
  <2>. QED  BY <1>1, <1>7, <2>1, <2>2
<1>10. end - Len(b \o padding) = room - Len(padding)
  <2>1. Len(b \o padding) = Len(b) + Len(padding)
    BY <1>6, Joined
  <2>2. Len(padding) \in Nat
    BY <1>6, TextLen
  <2>. QED  BY <1>1, <2>1, <2>2
<1>11. (b \o padding) \o rest = b \o (padding \o rest)
  <2>. HIDE DEF rest
  <2>. QED  BY <1>6, <1>8, JoinedTwice
<1>12. pad \o digits \in Text
  BY <1>1, <1>4, Joined
<1>13. b \o Cut(pad \o digits, room) = Cut(b \o (pad \o digits), end)
  <2>. DEFINE t == pad \o digits
  <2>1. t \in Text
    BY <1>12
  <2>. HIDE DEF t
  <2>2. Cut(b \o t, end) = b \o Cut(t, end - Len(b))
    BY <2>1, CutSecond
  <2>. QED  BY <2>2 DEF t
<1>. QED  BY <1>2, <1>3, <1>9, <1>10, <1>11, <1>12, <1>13

\* What ngx_sprintf_num does append.
NumberWritten(b, end, ui64, zero, hexadecimal, width) ==
  LET digits == P!Digits(ui64, P!Base(hexadecimal))
      padding == P!Repeat(zero, P!Padding(Len(digits), width, end - Len(b)))
  IN  padding \o Cut(digits, end - Len(b \o padding))

\* Whatever the room, a number goes behind what is there.
LEMMA NumberExtends ==
  ASSUME NEW b \in Text, NEW end \in Int, NEW ui64, NEW zero \in Chars,
         NEW hexadecimal, NEW width \in Nat,
         P!Digits(ui64, P!Base(hexadecimal)) \in Text
  PROVE  /\ NumberWritten(b, end, ui64, zero, hexadecimal, width) \in Text
         /\ P!ngx_sprintf_num(b, end, ui64, zero, hexadecimal, width) =
              b \o NumberWritten(b, end, ui64, zero, hexadecimal, width)
<1>. DEFINE digits == P!Digits(ui64, P!Base(hexadecimal))
            n == P!Padding(Len(digits), width, end - Len(b))
            padding == P!Repeat(zero, n)
            m == end - Len(b \o padding)
            rest == Cut(digits, m)
<1>1. digits \in Text /\ Len(digits) \in Nat /\ Len(b) \in Nat
  BY TextLen
<1>2. P!ngx_sprintf_num(b, end, ui64, zero, hexadecimal, width) = (b \o padding) \o rest
  BY DEF P!ngx_sprintf_num, Cut
<1>3. n \in Int
  BY <1>1 DEF P!Padding, P!AtMost
<1>10. NumberWritten(b, end, ui64, zero, hexadecimal, width) = padding \o rest
  BY DEF NumberWritten
<1>. HIDE DEF digits, n
<1>4. padding \in Text
  BY <1>3, RepeatIs
<1>. HIDE DEF padding
<1>5. b \o padding \in Text
  BY <1>4, Joined
<1>6. m \in Int
  BY <1>5, TextLen
<1>. HIDE DEF m
<1>7. rest \in Text
  <2>1. CASE m >= 0
    BY <1>1, <1>6, <2>1, CutIs
  <2>2. CASE m < 0
    <3>1. rest = <<>>
      BY <1>1, <1>6, <2>2, CutNothing
    <3>. QED  BY <3>1, NoText
  <2>. QED  BY <1>6, <2>1, <2>2
<1>. HIDE DEF rest
<1>8. (b \o padding) \o rest = b \o (padding \o rest)
  BY <1>4, <1>7, JoinedTwice
<1>9. padding \o rest \in Text
  BY <1>4, <1>7, Joined
<1>. QED  BY <1>2, <1>8, <1>9, <1>10

-----------------------------------------------------------------------------
(* Digits *)

Bases == {10, 16}

LEMMA BasesAre == \A h \in 0..2 : P!Base(h) \in Bases
BY DEF P!Base, Bases

LEMMA Quotient ==
  ASSUME NEW base \in Bases, NEW k \in Nat
  PROVE  /\ k \div base \in Nat /\ k % base \in 0..(base - 1)
         /\ k = base * (k \div base) + (k % base)
         /\ k >= base => k \div base \in 0..(k - 1) /\ k \div base # 0
<1>1. CASE base = 10
  <2>1. /\ k \div 10 \in Nat /\ k % 10 \in 0..9 /\ k = 10 * (k \div 10) + (k % 10)
    OBVIOUS
  <2>2. k >= 10 => k \div 10 \in 0..(k - 1) /\ k \div 10 # 0
    OBVIOUS
  <2>. QED  BY <1>1, <2>1, <2>2
<1>2. CASE base = 16
  <2>1. /\ k \div 16 \in Nat /\ k % 16 \in 0..15 /\ k = 16 * (k \div 16) + (k % 16)
    OBVIOUS
  <2>2. k >= 16 => k \div 16 \in 0..(k - 1) /\ k \div 16 # 0
    OBVIOUS
  <2>. QED  BY <1>2, <2>1, <2>2
<1>. QED  BY <1>1, <1>2 DEF Bases

\* Digits is defined by a recursion over ever smaller quotients.
LEMMA DigitsUnfold ==
  ASSUME NEW base \in Bases, NEW n \in Nat
  PROVE  P!Digits(n, base) =
           IF n < base THEN <<P!DigitChars[n + 1]>>
           ELSE Append(P!Digits(n \div base, base), P!DigitChars[(n % base) + 1])
<1>. DEFINE Step(g, k) == IF k < base THEN <<P!DigitChars[k + 1]>>
                          ELSE Append(g[k \div base], P!DigitChars[(k % base) + 1])
            Is(g, m) == g = [k \in 0..m |-> Step(g, k)]
            sol(m) == CHOOSE g : Is(g, m)
<1>1. ASSUME NEW k \in Nat, NEW g, NEW h, \A j \in 0..(k - 1) : g[j] = h[j]
      PROVE  Step(g, k) = Step(h, k)
  <2>1. CASE k < base
    BY <2>1
  <2>2. CASE ~(k < base)
    <3>1. k \div base \in 0..(k - 1)
      <4>1. k >= base
        BY <2>2 DEF Bases
      <4>. QED  BY <4>1, Quotient
    <3>2. g[k \div base] = h[k \div base]
      BY <1>1, <3>1
    <3>. QED  BY <2>2, <3>2
  <2>. QED  BY <2>1, <2>2
<1>. HIDE DEF Step
<1>2. ASSUME NEW m \in Nat, NEW g, Is(g, m), NEW k \in 0..m
      PROVE  g[k] = Step(g, k)
  BY <1>2
<1>3. ASSUME NEW m \in Nat, NEW p \in Nat, NEW g, NEW h, Is(g, m), Is(h, p)
      PROVE  \A k \in Nat : k <= m /\ k <= p => g[k] = h[k]
  <2>. DEFINE T == {k \in Nat : k <= m /\ k <= p => g[k] = h[k]}
  <2>1. ASSUME NEW k \in Nat, \A j \in 0..(k - 1) : j \in T PROVE k \in T
    <3>1. CASE k <= m /\ k <= p
      <4>1. \A j \in 0..(k - 1) : g[j] = h[j]
        BY <2>1, <3>1
      <4>2. Step(g, k) = Step(h, k)
        BY <1>1, <4>1
      <4>3. k \in 0..m /\ k \in 0..p
        BY <3>1
      <4>4. g[k] = Step(g, k) /\ h[k] = Step(h, k)
        <5>. HIDE DEF Is
        <5>. QED  BY <1>2, <1>3, <4>3
      <4>. QED  BY <4>2, <4>4
    <3>. QED  BY <3>1
  <2>2. \A k \in Nat : k \in T
    <3>. HIDE DEF T
    <3>. QED  BY <2>1, SetInduction
  <2>. QED  BY <2>2
<1>4. \A m \in Nat : \E g : Is(g, m)
  <2>. DEFINE T == {m \in Nat : \E g : Is(g, m)}
  <2>1. 0 \in T
    <3>. DEFINE g == [k \in 0..0 |-> <<P!DigitChars[k + 1]>>]
    <3>1. \A k \in 0..0 : k < base
      BY DEF Bases
    <3>2. \A k \in 0..0 : Step(g, k) = <<P!DigitChars[k + 1]>>
      BY <3>1 DEF Step
    <3>3. Is(g, 0)
      BY <3>2
    <3>. QED  BY <3>3
  <2>2. ASSUME NEW m \in Nat, m \in T PROVE m + 1 \in T
    <3>1. PICK g : Is(g, m)
      BY <2>2
    <3>. DEFINE h == [k \in 0..(m + 1) |-> IF k <= m THEN g[k] ELSE Step(g, m + 1)]
    <3>2. \A j \in 0..m : j \in 0..(m + 1) /\ j <= m /\ h[j] = g[j]
      OBVIOUS
    <3>3. h[m + 1] = Step(g, m + 1)
      OBVIOUS
    <3>. HIDE DEF h
    <3>4. ASSUME NEW k \in 0..(m + 1) PROVE h[k] = Step(h, k)
      <4>1. k \in Nat /\ \A j \in 0..(k - 1) : j \in 0..m /\ g[j] = h[j]
        BY <3>2
      <4>2. Step(g, k) = Step(h, k)
        BY <1>1, <4>1
      <4>3. CASE k <= m
        <5>1. k \in 0..m
          BY <4>3
        <5>2. g[k] = Step(g, k)
          <6>. HIDE DEF Is
          <6>. QED  BY <1>2, <3>1, <5>1
        <5>. QED  BY <3>2, <4>2, <5>1, <5>2
      <4>4. CASE k = m + 1
        BY <3>3, <4>2, <4>4
      <4>. QED  BY <4>3, <4>4
    <3>5. h = [k \in 0..(m + 1) |-> h[k]]
      BY DEF h
    <3>6. Is(h, m + 1)
      BY <3>4, <3>5
    <3>. QED  BY <3>6
  <2>3. \A m \in Nat : m \in T
    <3>. HIDE DEF T
    <3>. QED  BY <2>1, <2>2, StepInduction
  <2>. QED  BY <2>3
<1>5. \A m \in Nat : Is(sol(m), m)
  <2>. HIDE DEF Is
  <2>. QED  BY <1>4
<1>6. \A m : P!Digits(m, base) = sol(m)[m]
  BY DEF P!Digits, Step
<1>7. P!Digits(n, base) = Step(sol(n), n)
  <2>1. n \in 0..n
    OBVIOUS
  <2>. HIDE DEF Is, sol
  <2>. QED  BY <1>2, <1>5, <1>6, <2>1
<1>8. CASE n < base
  BY <1>7, <1>8 DEF Step
<1>9. CASE ~(n < base)
  <2>. DEFINE q == n \div base
  <2>1. q \in Nat /\ q <= n
    <3>1. n >= base
      BY <1>9 DEF Bases
    <3>. QED  BY <3>1, Quotient
  <2>2. sol(n)[q] = sol(q)[q]
    <3>. HIDE DEF Is, sol, q
    <3>. QED  BY <1>3, <1>5, <2>1
  <2>3. Step(sol(n), n) = Append(sol(n)[q], P!DigitChars[(n % base) + 1])
    BY <1>9 DEF Step
  <2>4. P!Digits(q, base) = sol(q)[q]
    <3>. HIDE DEF sol, q
    <3>. QED  BY <1>6
  <2>. HIDE DEF sol
  <2>. QED  BY <1>7, <1>9, <2>2, <2>3, <2>4
<1>. QED  BY <1>8, <1>9

-----------------------------------------------------------------------------
(* The number that digits denote *)

\* The provers take the values for numbers only where it says so.
Numbers == Nat

\* A recursion over 0..n that computes a number from the one before has a solution.
LEMMA NumbersIterate ==
  ASSUME NEW n \in Nat, NEW a \in Numbers, NEW succ \in [1..n -> [Numbers -> Numbers]]
  PROVE  \E g \in [0..n -> Numbers] :
           g[0] = a /\ \A k \in 1..n : g[k] = succ[k][g[k - 1]]
<1>. DEFINE Solves(g, m) == g[0] = a /\ \A k \in 1..m : g[k] = succ[k][g[k - 1]]
            T == {m \in Nat : m <= n => \E g \in [0..m -> Numbers] : Solves(g, m)}
<1>1. 0 \in T
  <2>. DEFINE g == [k \in 0..0 |-> a]
  <2>1. g \in [0..0 -> Numbers] /\ Solves(g, 0)
    OBVIOUS
  <2>. QED  BY <2>1
<1>2. ASSUME NEW m \in Nat, m + 1 <= n, NEW g \in [0..m -> Numbers], Solves(g, m)
      PROVE  \E h \in [0..(m + 1) -> Numbers] : Solves(h, m + 1)
  <2>. DEFINE h == [k \in 0..(m + 1) |-> IF k <= m THEN g[k] ELSE succ[m + 1][g[m]]]
  <2>1. h \in [0..(m + 1) -> Numbers]
    <3>1. succ[m + 1] \in [Numbers -> Numbers] /\ g[m] \in Numbers
      BY <1>2
    <3>2. succ[m + 1][g[m]] \in Numbers
      BY <3>1
    <3>. QED  BY <3>2
  <2>2. h[0] = a
    BY <1>2
  <2>3. ASSUME NEW k \in 1..(m + 1) PROVE h[k] = succ[k][h[k - 1]]
    <3>1. k - 1 \in 0..m /\ h[k - 1] = g[k - 1]
      OBVIOUS
    <3>2. CASE k <= m
      <4>1. k \in 1..m /\ h[k] = g[k]
        BY <3>2
      <4>. QED  BY <1>2, <3>1, <4>1
    <3>3. CASE k = m + 1
      BY <3>1, <3>3
    <3>. QED  BY <3>2, <3>3
  <2>. QED  BY <2>1, <2>2, <2>3
<1>3. \A m \in Nat : m \in T => m + 1 \in T
  <2>1. \A m \in Nat : m + 1 <= n => m <= n
    OBVIOUS
  <2>. HIDE DEF Solves
  <2>. QED  BY <1>2, <2>1
<1>4. n \in T
  <2>. HIDE DEF T
  <2>. QED  BY <1>1, <1>3, StepInduction
<1>. QED  BY <1>4

\* Digits have the values of their places in DigitChars.
DigitText(s) == \A i \in 1..Len(s) : \E j \in 1..16 : s[i] = P!DigitChars[j]

LEMMA DigitValueIs ==
  ASSUME NEW j \in 1..16
  PROVE  P!DigitValue(P!DigitChars[j]) = j - 1
<1>. DEFINE k == P!DigitValue(P!DigitChars[j])
<1>1. j - 1 \in 0..15 /\ P!DigitChars[(j - 1) + 1] = P!DigitChars[j]
  <2>1. j - 1 \in 0..15 /\ (j - 1) + 1 = j
    OBVIOUS
  <2>. QED  BY <2>1
<1>2. k \in 0..15 /\ P!DigitChars[k + 1] = P!DigitChars[j]
  <2>1. k = CHOOSE i \in 0..15 : P!DigitChars[i + 1] = P!DigitChars[j]
    BY DEF P!DigitValue
  <2>. HIDE DEF k
  <2>. QED  BY <1>1, <2>1
<1>. HIDE DEF k
<1>3. k + 1 \in 1..16
  BY <1>2
<1>4. k + 1 = j
  BY <1>2, <1>3, CharsAre
<1>5. k = j - 1
  BY <1>2, <1>4
<1>. QED  BY <1>5 DEF k

LEMMA ValueIs ==
  ASSUME NEW s \in Text, DigitText(s), NEW base \in Nat
  PROVE  \E g \in [0..Len(s) -> Nat] :
           /\ g[0] = 0 /\ P!ValueOf(s, base) = g[Len(s)]
           /\ \A k \in 1..Len(s) : g[k] = base * g[k - 1] + P!DigitValue(s[k])
<1>. DEFINE n == Len(s)
            succ == [k \in 1..n |-> [v \in Nat |-> base * v + P!DigitValue(s[k])]]
            Is(g) == g = [k \in 0..n |-> IF k = 0 THEN 0
                                         ELSE base * g[k - 1] + P!DigitValue(s[k])]
<1>1. n \in Nat
  BY TextLen
<1>2. \A k \in 1..n : P!DigitValue(s[k]) \in Nat
  <2>1. ASSUME NEW k \in 1..n PROVE P!DigitValue(s[k]) \in Nat
    <3>1. PICK j \in 1..16 : s[k] = P!DigitChars[j]
      BY DEF DigitText
    <3>2. P!DigitValue(P!DigitChars[j]) = j - 1 /\ j - 1 \in Nat
      BY DigitValueIs
    <3>. QED  BY <3>1, <3>2
  <2>. QED  BY <2>1
<1>3. PICK g \in [0..n -> Nat] : g[0] = 0 /\ \A k \in 1..n : g[k] = succ[k][g[k - 1]]
  <2>. DEFINE a == 0
  <2>1. a \in Numbers
    BY DEF Numbers
  <2>2. succ \in [1..n -> [Numbers -> Numbers]]
    <3>1. \A k \in 1..n : \A v \in Nat : base * v + P!DigitValue(s[k]) \in Nat
      <4>1. \A v \in Nat : base * v \in Nat
        OBVIOUS
      <4>. QED  BY <1>2, <4>1
    <3>. QED  BY <3>1 DEF Numbers
  <2>. HIDE DEF n, succ, a
  <2>3. \E g \in [0..n -> Numbers] : g[0] = a /\ \A k \in 1..n : g[k] = succ[k][g[k - 1]]
    BY <1>1, <2>1, <2>2, NumbersIterate
  <2>. QED  BY <2>3 DEF a, Numbers
<1>12. \A k \in 1..n : g[k] = base * g[k - 1] + P!DigitValue(s[k])
  <2>1. ASSUME NEW k \in 1..n PROVE g[k] = base * g[k - 1] + P!DigitValue(s[k])
    <3>1. k - 1 \in 0..n
      BY <1>1
    <3>2. g[k - 1] \in Nat
      <4>. HIDE DEF n
      <4>. QED  BY <1>3, <3>1
    <3>3. succ[k][g[k - 1]] = base * g[k - 1] + P!DigitValue(s[k])
      BY <3>2
    <3>. QED  BY <1>3, <3>3
  <2>. QED  BY <2>1
<1>. HIDE DEF succ
<1>4. Is(g)
  <2>1. ASSUME NEW k \in 0..n
        PROVE  g[k] = IF k = 0 THEN 0 ELSE base * g[k - 1] + P!DigitValue(s[k])
    <3>1. CASE k = 0
      BY <1>3, <3>1
    <3>2. CASE k # 0
      <4>1. k \in 1..n
        BY <1>1, <3>2
      <4>. HIDE DEF n
      <4>. QED  BY <1>12, <3>2, <4>1
    <3>. QED  BY <3>1, <3>2
  <2>. QED  BY <1>3, <2>1
<1>. DEFINE h == CHOOSE f : Is(f)
<1>5. Is(h)
  <2>. HIDE DEF Is
  <2>. QED  BY <1>4
<1>6. P!ValueOf(s, base) = h[n]
  BY DEF P!ValueOf
<1>. HIDE DEF h
<1>7. /\ h = [k \in 0..n |-> h[k]]
      /\ \A k \in 0..n : h[k] = IF k = 0 THEN 0 ELSE base * h[k - 1] + P!DigitValue(s[k])
  BY <1>5
<1>8. \A k \in 1..n : k # 0 /\ k \in 0..n
  BY <1>1
<1>. HIDE DEF Is, n
<1>9. h[0] = 0 /\ \A k \in 1..n : h[k] = base * h[k - 1] + P!DigitValue(s[k])
  <2>1. 0 \in 0..n
    BY <1>1
  <2>2. h[0] = 0
    BY <1>7, <2>1
  <2>3. \A k \in 1..n : h[k] = base * h[k - 1] + P!DigitValue(s[k])
    BY <1>7, <1>8
  <2>. QED  BY <2>2, <2>3
<1>10. \A k \in 0..n : h[k] = g[k]
  <2>. DEFINE T == {k \in Nat : k <= n => h[k] = g[k]}
  <2>1. 0 \in T
    BY <1>3, <1>9
  <2>2. ASSUME NEW k \in Nat, k \in T PROVE k + 1 \in T
    <3>1. CASE k + 1 <= n
      <4>1. k + 1 \in 1..n /\ (k + 1) - 1 = k /\ k <= n
        BY <1>1, <3>1
      <4>3. g[k + 1] = base * g[k] + P!DigitValue(s[k + 1])
        BY <1>12, <4>1
      <4>4. h[k + 1] = base * h[k] + P!DigitValue(s[k + 1])
        BY <1>9, <4>1
      <4>5. h[k] = g[k]
        BY <2>2, <4>1
      <4>. QED  BY <4>3, <4>4, <4>5
    <3>. QED  BY <3>1
  <2>3. \A k \in Nat : k \in T
    <3>. HIDE DEF T
    <3>. QED  BY <2>1, <2>2, StepInduction
  <2>4. \A k \in 0..n : k \in Nat /\ k <= n
    BY <1>1
  <2>. QED  BY <2>3, <2>4
<1>11. h \in [0..n -> Nat]
  BY <1>3, <1>7, <1>10
<1>. QED  BY <1>6, <1>9, <1>11 DEF n

LEMMA DigitsJoined ==
  ASSUME NEW s \in Text, NEW t \in Text, DigitText(s), DigitText(t)
  PROVE  DigitText(s \o t)
<1>1. Len(s) \in Nat /\ Len(t) \in Nat
  BY TextLen
<1>. DEFINE u == s \o t
<1>2. /\ Len(u) = Len(s) + Len(t)
      /\ \A i \in 1..Len(s) : u[i] = s[i]
      /\ \A i \in (Len(s) + 1)..(Len(s) + Len(t)) : u[i] = t[i - Len(s)]
  BY Joined
<1>. HIDE DEF u
<1>3. ASSUME NEW i \in 1..Len(u) PROVE \E j \in 1..16 : u[i] = P!DigitChars[j]
  <2>1. CASE i <= Len(s)
    <3>1. i \in 1..Len(s)
      BY <1>1, <2>1
    <3>. QED  BY <1>2, <3>1 DEF DigitText
  <2>2. CASE ~(i <= Len(s))
    <3>1. i \in (Len(s) + 1)..(Len(s) + Len(t)) /\ i - Len(s) \in 1..Len(t)
      BY <1>1, <1>2, <2>2
    <3>. QED  BY <1>2, <3>1 DEF DigitText
  <2>. QED  BY <2>1, <2>2
<1>4. DigitText(u)
  BY <1>3 DEF DigitText
<1>. QED  BY <1>4 DEF u

\* A digit more.
LEMMA ValueAppend ==
  ASSUME NEW s \in Text, DigitText(s), NEW j \in 1..16, NEW base \in Nat
  PROVE  /\ s \o <<P!DigitChars[j]>> \in Text /\ DigitText(s \o <<P!DigitChars[j]>>)
         /\ P!ValueOf(s \o <<P!DigitChars[j]>>, base) = base * P!ValueOf(s, base) + (j - 1)
<1>. DEFINE c == P!DigitChars[j]
            t == <<c>>
            u == s \o t
            n == Len(s)
<1>1. n \in Nat
  BY TextLen
<1>2. c \in Chars /\ P!DigitValue(c) = j - 1
  BY CharsAre, DigitValueIs
<1>3. t \in Text /\ Len(t) = 1 /\ t[1] = c
  <2>. HIDE DEF c
  <2>. QED  BY <1>2, OneChar
<1>4. DigitText(t)
  <2>. HIDE DEF t
  <2>1. \A i \in 1..Len(t) : i = 1
    BY <1>3
  <2>. QED  BY <1>3, <2>1 DEF DigitText
<1>. HIDE DEF t, c
<1>5. /\ u \in Text /\ Len(u) = n + 1 /\ DigitText(u) /\ u[n + 1] = c
      /\ \A i \in 1..n : u[i] = s[i]
  <2>1. /\ u \in Text /\ Len(u) = Len(s) + Len(t)
        /\ \A i \in 1..Len(s) : u[i] = s[i]
        /\ \A i \in 1..Len(t) : u[Len(s) + i] = t[i]
    BY <1>3, Joined
  <2>2. DigitText(u)
    BY <1>3, <1>4, DigitsJoined
  <2>3. 1 \in 1..Len(t)
    BY <1>3
  <2>. HIDE DEF u
  <2>4. u[n + 1] = c
    BY <1>3, <2>1, <2>3
  <2>. QED  BY <1>3, <2>1, <2>2, <2>4
<1>. HIDE DEF u, n
<1>6. PICK g \in [0..Len(u) -> Nat] :
        /\ g[0] = 0 /\ P!ValueOf(u, base) = g[Len(u)]
        /\ \A k \in 1..Len(u) : g[k] = base * g[k - 1] + P!DigitValue(u[k])
  BY <1>5, ValueIs
<1>7. PICK h \in [0..n -> Nat] :
        /\ h[0] = 0 /\ P!ValueOf(s, base) = h[n]
        /\ \A k \in 1..n : h[k] = base * h[k - 1] + P!DigitValue(s[k])
  BY ValueIs DEF n
<1>. DEFINE T == {k \in Nat : k <= n => g[k] = h[k]}
<1>8. 0 \in T
  BY <1>6, <1>7
<1>9. ASSUME NEW k \in Nat, k \in T PROVE k + 1 \in T
  <2>1. CASE k + 1 <= n
    <3>1. k + 1 \in 1..n /\ k + 1 \in 1..Len(u) /\ (k + 1) - 1 = k /\ k <= n
      BY <1>1, <1>5, <2>1
    <3>2. g[k + 1] = base * g[k] + P!DigitValue(u[k + 1])
      BY <1>6, <3>1
    <3>3. h[k + 1] = base * h[k] + P!DigitValue(s[k + 1])
      BY <1>7, <3>1
    <3>4. g[k] = h[k] /\ u[k + 1] = s[k + 1]
      BY <1>5, <1>9, <3>1
    <3>. QED  BY <3>2, <3>3, <3>4
  <2>. QED  BY <2>1
<1>10. n \in T
  <2>. HIDE DEF T
  <2>. QED  BY <1>1, <1>8, <1>9, StepInduction
<1>11. g[n + 1] = base * g[n] + P!DigitValue(u[n + 1])
  <2>1. n + 1 \in 1..Len(u) /\ (n + 1) - 1 = n
    BY <1>1, <1>5
  <2>. QED  BY <1>6, <2>1
<1>12. g[n] = h[n]
  BY <1>1, <1>10
<1>13. P!ValueOf(u, base) = base * P!ValueOf(s, base) + (j - 1)
  BY <1>2, <1>5, <1>6, <1>7, <1>11, <1>12
<1>. QED  BY <1>5, <1>13 DEF u, t, c

\* Zeros in front make no difference.
LEMMA ValuePadded ==
  ASSUME NEW z \in Text, \A i \in 1..Len(z) : z[i] = "0", NEW s \in Text, DigitText(s),
         NEW base \in Nat
  PROVE  DigitText(z \o s) /\ P!ValueOf(z \o s, base) = P!ValueOf(s, base)
<1>. DEFINE u == z \o s
            m == Len(z)
            n == Len(s)
<1>1. m \in Nat /\ n \in Nat
  BY TextLen
<1>2. DigitText(z)
  <2>1. 1 \in 1..16 /\ P!DigitChars[1] = "0"
    BY CharsAre
  <2>. QED  BY <2>1 DEF DigitText
<1>3. P!DigitValue("0") = 0
  <2>1. 1 \in 1..16 /\ P!DigitChars[1] = "0" /\ 1 - 1 = 0
    BY CharsAre
  <2>2. P!DigitValue(P!DigitChars[1]) = 1 - 1
    BY <2>1, DigitValueIs
  <2>. QED  BY <2>1, <2>2
<1>4. /\ u \in Text /\ Len(u) = m + n
      /\ \A i \in 1..m : u[i] = z[i]
      /\ \A i \in 1..n : u[m + i] = s[i]
  BY Joined
<1>5. DigitText(u)
  BY <1>2, DigitsJoined
<1>. HIDE DEF u, m, n
<1>6. PICK g \in [0..Len(u) -> Nat] :
        /\ g[0] = 0 /\ P!ValueOf(u, base) = g[Len(u)]
        /\ \A k \in 1..Len(u) : g[k] = base * g[k - 1] + P!DigitValue(u[k])
  BY <1>4, <1>5, ValueIs
<1>7. PICK h \in [0..n -> Nat] :
        /\ h[0] = 0 /\ P!ValueOf(s, base) = h[n]
        /\ \A k \in 1..n : h[k] = base * h[k - 1] + P!DigitValue(s[k])
  BY ValueIs DEF n
<1>. DEFINE S0 == {k \in Nat : k <= m => g[k] = 0}
            T == {k \in Nat : k <= n => g[m + k] = h[k]}
<1>8. 0 \in S0
  BY <1>6
<1>9. ASSUME NEW k \in Nat, k \in S0 PROVE k + 1 \in S0
  <2>1. CASE k + 1 <= m
    <3>1. k + 1 \in 1..m /\ k + 1 \in 1..Len(u) /\ (k + 1) - 1 = k /\ k <= m
      BY <1>1, <1>4, <2>1
    <3>2. g[k + 1] = base * g[k] + P!DigitValue(u[k + 1])
      BY <1>6, <3>1
    <3>3. g[k] = 0 /\ u[k + 1] = "0"
      BY <1>4, <1>9, <3>1 DEF m
    <3>4. base * 0 + 0 = 0
      OBVIOUS
    <3>. QED  BY <1>3, <3>2, <3>3, <3>4
  <2>. QED  BY <2>1
<1>10. m \in S0
  <2>. HIDE DEF S0
  <2>. QED  BY <1>1, <1>8, <1>9, StepInduction
<1>11. 0 \in T
  <2>1. g[m] = 0 /\ m + 0 = m
    BY <1>1, <1>10
  <2>. QED  BY <1>7, <2>1
<1>12. ASSUME NEW k \in Nat, k \in T PROVE k + 1 \in T
  <2>1. CASE k + 1 <= n
    <3>1. /\ k + 1 \in 1..n /\ m + (k + 1) \in 1..Len(u) /\ (k + 1) - 1 = k /\ k <= n
          /\ m + (k + 1) - 1 = m + k
      BY <1>1, <1>4, <2>1
    <3>2. g[m + (k + 1)] = base * g[m + k] + P!DigitValue(u[m + (k + 1)])
      <4>. DEFINE i == m + (k + 1)
      <4>1. i \in 1..Len(u) /\ i - 1 = m + k
        BY <1>1, <3>1
      <4>. HIDE DEF i
      <4>2. g[i] = base * g[i - 1] + P!DigitValue(u[i])
        BY <1>6, <4>1
      <4>. QED  BY <4>1, <4>2 DEF i
    <3>3. h[k + 1] = base * h[k] + P!DigitValue(s[k + 1])
      BY <1>7, <3>1
    <3>4. g[m + k] = h[k] /\ u[m + (k + 1)] = s[k + 1]
      BY <1>4, <1>12, <3>1
    <3>. QED  BY <3>2, <3>3, <3>4
  <2>. QED  BY <2>1
<1>13. n \in T
  <2>. HIDE DEF T
  <2>. QED  BY <1>1, <1>11, <1>12, StepInduction
<1>14. g[m + n] = h[n]
  BY <1>1, <1>13
<1>. QED  BY <1>4, <1>5, <1>6, <1>7, <1>14 DEF u

\* The digits of a number denote it and have no needless zeros.
LEMMA DigitsAre ==
  ASSUME NEW base \in Bases, NEW n \in Nat
  PROVE  LET d == P!Digits(n, base)
         IN  /\ d \in Text /\ Len(d) \in Nat \ {0}
             /\ \A i \in 1..Len(d) : \E j \in 1..base : d[i] = P!DigitChars[j]
             /\ P!ValueOf(d, base) = n
             /\ n # 0 => d[1] # "0"
             /\ n = 0 => Len(d) = 1
<1>. DEFINE Right(k, d) ==
              /\ d \in Text /\ Len(d) \in Nat \ {0}
              /\ \A i \in 1..Len(d) : \E j \in 1..base : d[i] = P!DigitChars[j]
              /\ P!ValueOf(d, base) = k
              /\ k # 0 => d[1] # "0"
              /\ k = 0 => Len(d) = 1
            T == {k \in Nat : Right(k, P!Digits(k, base))}
<1>1. base \in Nat /\ 1..base \subseteq 1..16
  BY DEF Bases
<1>2. ASSUME NEW k \in Nat, k < base PROVE Right(k, <<P!DigitChars[k + 1]>>)
  <2>. DEFINE c == P!DigitChars[k + 1]
              d == <<c>>
  <2>1. k + 1 \in 1..base /\ k + 1 \in 1..16 /\ (k + 1) - 1 = k
    BY <1>1, <1>2
  <2>2. c \in Chars /\ (k # 0 => c # "0")
    <3>1. c \in Chars
      BY <2>1, CharsAre
    <3>2. ASSUME c = "0" PROVE k = 0
      <4>1. P!DigitChars[k + 1] = P!DigitChars[1] /\ 1 \in 1..16
        BY <3>2, CharsAre
      <4>2. k + 1 = 1
        BY <2>1, <4>1, CharsAre
      <4>. QED  BY <4>2
    <3>. QED  BY <3>1, <3>2
  <2>3. d \in Text /\ Len(d) = 1 /\ d[1] = c
    <3>. HIDE DEF c
    <3>. QED  BY <2>2, OneChar
  <2>4. P!ValueOf(d, base) = k
    <3>1. DigitText(<<>>) /\ P!ValueOf(<<>>, base) = 0
      <4>1. <<>> \in Text /\ Len(<<>>) = 0
        BY NoText
      <4>2. DigitText(<<>>)
        BY <4>1 DEF DigitText
      <4>. DEFINE e == <<>>
      <4>3. e \in Text /\ Len(e) = 0 /\ DigitText(e)
        BY <4>1, <4>2
      <4>. HIDE DEF e
      <4>4. PICK g \in [0..Len(e) -> Nat] : g[0] = 0 /\ P!ValueOf(e, base) = g[Len(e)]
        BY <1>1, <4>3, ValueIs
      <4>5. P!ValueOf(e, base) = 0
        BY <4>3, <4>4
      <4>. QED  BY <4>2, <4>5 DEF e
    <3>2. <<>> \in Text /\ <<>> \o d = d
      BY <2>3, NoText
    <3>3. P!ValueOf(<<>> \o <<P!DigitChars[k + 1]>>, base) =
            base * P!ValueOf(<<>>, base) + ((k + 1) - 1)
      <4>. DEFINE e == <<>>
                  j == k + 1
      <4>1. e \in Text /\ DigitText(e) /\ j \in 1..16
        BY <2>1, <3>1, <3>2
      <4>. HIDE DEF e, j
      <4>2. P!ValueOf(e \o <<P!DigitChars[j]>>, base) = base * P!ValueOf(e, base) + (j - 1)
        BY <1>1, <4>1, ValueAppend
      <4>. QED  BY <4>2 DEF e, j
    <3>4. base * 0 + ((k + 1) - 1) = k
      BY <1>1
    <3>. QED  BY <3>1, <3>2, <3>3, <3>4
  <2>. HIDE DEF d
  <2>5. \A i \in 1..Len(d) : i = 1
    BY <2>3
  <2>. QED  BY <2>1, <2>2, <2>3, <2>4, <2>5 DEF d
<1>3. ASSUME NEW k \in Nat, ~(k < base), NEW d, Right(k \div base, d)
      PROVE  Right(k, Append(d, P!DigitChars[(k % base) + 1]))
  <2>. DEFINE q == k \div base
              j == (k % base) + 1
              c == P!DigitChars[j]
              u == d \o <<c>>
  <2>1. /\ q \in Nat /\ j \in 1..base /\ j - 1 = k % base /\ k = base * q + (k % base)
        /\ q # 0 /\ k # 0
    <3>1. k >= base /\ k # 0
      BY <1>3 DEF Bases
    <3>2. q \in Nat /\ k % base \in 0..(base - 1) /\ k = base * q + (k % base) /\ q # 0
      BY <3>1, Quotient
    <3>. HIDE DEF q
    <3>. QED  BY <1>1, <3>1, <3>2
  <2>2. /\ d \in Text /\ Len(d) \in Nat \ {0}
        /\ \A i \in 1..Len(d) : \E l \in 1..base : d[i] = P!DigitChars[l]
        /\ P!ValueOf(d, base) = q /\ d[1] # "0"
    BY <1>3, <2>1
  <2>. HIDE DEF q, j
  <2>3. j \in 1..16 /\ c \in Chars /\ DigitText(d)
    <3>1. j \in 1..16
      BY <1>1, <2>1
    <3>. QED  BY <1>1, <2>2, <3>1, CharsAre DEF DigitText
  <2>4. u \in Text /\ P!ValueOf(u, base) = base * P!ValueOf(d, base) + (j - 1)
    BY <1>1, <2>2, <2>3, ValueAppend
  <2>5. Append(d, c) = u
    BY <2>2, <2>3, OneChar
  <2>6. P!ValueOf(u, base) = k
    <3>. HIDE DEF u
    <3>. QED  BY <2>1, <2>2, <2>4
  <2>7. /\ Len(u) = Len(d) + 1 /\ \A i \in 1..Len(d) : u[i] = d[i]
        /\ u[Len(d) + 1] = c
    <3>. DEFINE t == <<c>>
    <3>1. t \in Text /\ Len(t) = 1 /\ t[1] = c
      <4>. HIDE DEF c
      <4>. QED  BY <2>3, OneChar
    <3>. HIDE DEF t
    <3>2. /\ Len(d \o t) = Len(d) + Len(t) /\ \A i \in 1..Len(d) : (d \o t)[i] = d[i]
          /\ \A i \in 1..Len(t) : (d \o t)[Len(d) + i] = t[i]
      BY <2>2, <3>1, Joined
    <3>3. 1 \in 1..Len(t)
      BY <3>1
    <3>. QED  BY <3>1, <3>2, <3>3 DEF t
  <2>. HIDE DEF u
  <2>8. ASSUME NEW i \in 1..Len(u) PROVE \E l \in 1..base : u[i] = P!DigitChars[l]
    <3>1. i \in 1..Len(d) \/ i = Len(d) + 1
      BY <2>2, <2>7
    <3>. QED  BY <2>1, <2>2, <2>7, <3>1
  <2>9. u[1] # "0" /\ Len(u) \in Nat \ {0}
    <3>1. 1 \in 1..Len(d)
      BY <2>2
    <3>. QED  BY <2>2, <2>7, <3>1
  <2>10. Right(k, u)
    BY <2>1, <2>4, <2>6, <2>8, <2>9
  <2>. QED  BY <2>5, <2>10 DEF j
<1>4. ASSUME NEW k \in Nat, \A m \in 0..(k - 1) : m \in T PROVE k \in T
  <2>. HIDE DEF Right
  <2>1. P!Digits(k, base) =
          IF k < base THEN <<P!DigitChars[k + 1]>>
          ELSE Append(P!Digits(k \div base, base), P!DigitChars[(k % base) + 1])
    BY DigitsUnfold
  <2>2. CASE k < base
    BY <1>2, <2>1, <2>2
  <2>3. CASE ~(k < base)
    <3>. DEFINE q == k \div base
    <3>1. q \in 0..(k - 1)
      <4>1. k >= base
        BY <2>3 DEF Bases
      <4>. QED  BY <4>1, Quotient
    <3>2. Right(q, P!Digits(q, base))
      <4>. HIDE DEF q
      <4>. QED  BY <1>4, <3>1
    <3>3. Right(k, P!Digits(k, base))
      BY <1>3, <2>1, <2>3, <3>2
    <3>. QED  BY <3>3
  <2>. QED  BY <2>2, <2>3
<1>5. n \in T
  <2>. HIDE DEF T
  <2>. QED  BY <1>4, SetInduction
<1>6. Right(n, P!Digits(n, base))
  <2>. HIDE DEF Right
  <2>. QED  BY <1>5
<1>. QED  BY <1>6

\* scale after one more round of its loop.
Times10(v) == (10 * v) % Uint64Values

LEMMA Times10Type == \A v \in Nat : Times10(v) \in Nat
<1>1. Uint64Values \in Nat \ {0}
  BY PartsAssumption DEF P!PrintfAssumption
<1>. QED  BY <1>1 DEF Times10

\* scale is a number, and 1 before the loop.
LEMMA ScaleIs ==
  ASSUME NEW n \in Nat
  PROVE  P!Scale(n) \in Nat /\ (n = 0 => P!Scale(n) = 1)
<1>. DEFINE Is(g) == g = [k \in 0..n |-> IF k = 0 THEN 1 ELSE Times10(g[k - 1])]
            a == 1
            succ == [k \in 1..n |-> [v \in Nat |-> Times10(v)]]
<1>1. PICK g \in [0..n -> Nat] : g[0] = a /\ \A k \in 1..n : g[k] = succ[k][g[k - 1]]
  <2>1. a \in Numbers /\ succ \in [1..n -> [Numbers -> Numbers]]
    BY Times10Type DEF Numbers
  <2>. HIDE DEF a, succ
  <2>2. \E g \in [0..n -> Numbers] : g[0] = a /\ \A k \in 1..n : g[k] = succ[k][g[k - 1]]
    BY <2>1, NumbersIterate
  <2>. QED  BY <2>2 DEF Numbers
<1>2. \A k \in 1..n : g[k] = Times10(g[k - 1])
  <2>1. ASSUME NEW k \in 1..n PROVE g[k] = Times10(g[k - 1])
    <3>1. k - 1 \in 0..n
      OBVIOUS
    <3>2. g[k - 1] \in Nat
      BY <3>1
    <3>. QED  BY <1>1, <3>2
  <2>. QED  BY <2>1
<1>3. Is(g)
  <2>1. ASSUME NEW k \in 0..n PROVE g[k] = IF k = 0 THEN 1 ELSE Times10(g[k - 1])
    <3>1. CASE k = 0
      BY <1>1, <3>1
    <3>2. CASE k # 0
      <4>1. k \in 1..n
        BY <3>2
      <4>. QED  BY <1>2, <3>2, <4>1
    <3>. QED  BY <3>1, <3>2
  <2>. QED  BY <2>1
<1>. DEFINE h == CHOOSE g1 : Is(g1)
<1>4. Is(h)
  <2>. HIDE DEF Is
  <2>. QED  BY <1>3
<1>5. P!Scale(n) = h[n]
  BY DEF P!Scale, Times10
<1>. HIDE DEF h
<1>6. h[0] = 1 /\ \A k \in 1..n : h[k] = Times10(h[k - 1])
  <2>1. \A k \in 0..n : h[k] = IF k = 0 THEN 1 ELSE Times10(h[k - 1])
    BY <1>4
  <2>2. 0 \in 0..n /\ \A k \in 1..n : k \in 0..n /\ k # 0
    OBVIOUS
  <2>. HIDE DEF Is
  <2>. QED  BY <2>1, <2>2
<1>7. h[n] \in Nat
  <2>. DEFINE T == {k \in Nat : k <= n => h[k] \in Nat}
  <2>1. 0 \in T
    BY <1>6
  <2>2. ASSUME NEW k \in Nat, k \in T PROVE k + 1 \in T
    <3>1. CASE k + 1 <= n
      <4>1. k + 1 \in 1..n /\ (k + 1) - 1 = k /\ k <= n
        BY <3>1
      <4>2. h[k + 1] = Times10(h[k]) /\ h[k] \in Nat
        BY <1>6, <2>2, <4>1
      <4>3. Times10(h[k]) \in Nat
        <5>. DEFINE v == h[k]
        <5>1. v \in Nat
          BY <4>2
        <5>. HIDE DEF v
        <5>. QED  BY <5>1, Times10Type DEF v
      <4>4. h[k + 1] \in Nat
        BY <4>2, <4>3
      <4>. QED  BY <4>4
    <3>. QED  BY <3>1
  <2>3. \A k \in Nat : k \in T
    <3>. HIDE DEF T
    <3>. QED  BY <2>1, <2>2, StepInduction
  <2>. QED  BY <2>3
<1>. QED  BY <1>5, <1>6, <1>7

\* No multiplication of scale has wrapped: it is a power of ten.
Unwrapped(n) == \A k \in 1..n : P!Scale(k) = 10 * P!Scale(k - 1)

LEMMA ScalePositive ==
  ASSUME NEW n \in Nat, Unwrapped(n)
  PROVE  P!Scale(n) \in Nat \ {0}
<1>. DEFINE T == {k \in Nat : k <= n => P!Scale(k) \in Nat \ {0}}
<1>1. 0 \in T
  <2>1. P!Scale(0) = 1
    BY ScaleIs
  <2>. QED  BY <2>1
<1>2. ASSUME NEW k \in Nat, k \in T PROVE k + 1 \in T
  <2>1. CASE k + 1 <= n
    <3>1. k + 1 \in 1..n /\ (k + 1) - 1 = k /\ k <= n
      BY <2>1
    <3>2. P!Scale(k + 1) = 10 * P!Scale(k)
      BY <3>1 DEF Unwrapped
    <3>3. 10 * P!Scale(k) \in Nat \ {0}
      BY <1>2, <3>1
    <3>. QED  BY <3>2, <3>3
  <2>. QED  BY <2>1
<1>3. \A k \in Nat : k \in T
  <2>. HIDE DEF T
  <2>. QED  BY <1>1, <1>2, StepInduction
<1>. QED  BY <1>3

\* A number below 10^m has at most m digits.
LEMMA DigitsShort ==
  ASSUME NEW m \in Nat, m # 0, Unwrapped(m), NEW k \in Nat, k < P!Scale(m)
  PROVE  Len(P!Digits(k, 10)) <= m
<1>. DEFINE Short(p, l) == l < P!Scale(p) => Len(P!Digits(l, 10)) <= p
            T == {p \in Nat : p # 0 /\ p <= m => \A l \in Nat : Short(p, l)}
<1>1. 0 \in T
  OBVIOUS
<1>2. ASSUME NEW p \in Nat, p \in T PROVE p + 1 \in T
  <2>1. ASSUME p + 1 <= m, NEW l \in Nat, l < P!Scale(p + 1) PROVE Len(P!Digits(l, 10)) <= p + 1
    <3>. DEFINE q == l \div 10
    <3>1. P!Digits(l, 10) = IF l < 10 THEN <<P!DigitChars[l + 1]>>
                            ELSE Append(P!Digits(q, 10), P!DigitChars[(l % 10) + 1])
      <4>1. 10 \in Bases
        BY DEF Bases
      <4>. QED  BY <4>1, DigitsUnfold
    <3>2. CASE l < 10
      <4>1. Len(P!Digits(l, 10)) = 1
        BY <3>1, <3>2
      <4>2. 1 <= p + 1
        OBVIOUS
      <4>. HIDE DEF q
      <4>. QED  BY <4>1, <4>2
    <3>3. CASE ~(l < 10)
      <4>1. P!Scale(p + 1) = 10 * P!Scale(p) /\ P!Scale(p) \in Nat
        <5>1. p + 1 \in 1..m /\ (p + 1) - 1 = p
          BY <2>1
        <5>2. P!Scale(p + 1) = 10 * P!Scale(p)
          BY <5>1 DEF Unwrapped
        <5>. QED  BY <5>2, ScaleIs
      <4>2. q \in Nat /\ q < P!Scale(p)
        BY <2>1, <3>3, <4>1
      <4>3. p # 0
        <5>1. ASSUME p = 0 PROVE P!Scale(p) = 1
          BY <5>1, ScaleIs
        <5>. QED  BY <2>1, <3>3, <4>1, <5>1
      <4>4. Len(P!Digits(q, 10)) <= p
        <5>. HIDE DEF q
        <5>1. p <= m
          BY <2>1
        <5>. QED  BY <1>2, <4>2, <4>3, <5>1
      <4>5. P!Digits(q, 10) \in Text /\ Len(P!Digits(q, 10)) \in Nat
        <5>1. 10 \in Bases
          BY DEF Bases
        <5>. HIDE DEF q
        <5>. QED  BY <4>2, <5>1, DigitsAre
      <4>. DEFINE d == P!Digits(q, 10)
                  c == P!DigitChars[(l % 10) + 1]
      <4>6. Len(Append(d, c)) = Len(d) + 1
        <5>. HIDE DEF d, c
        <5>1. d \in Text
          BY <4>5 DEF d
        <5>2. c \in Chars
          <6>1. (l % 10) + 1 \in 1..16
            OBVIOUS
          <6>. QED  BY <6>1, CharsAre DEF c
        <5>. QED  BY <5>1, <5>2, AppendProperties DEF Text
      <4>7. Len(P!Digits(l, 10)) = Len(d) + 1
        BY <3>1, <3>3, <4>6
      <4>. HIDE DEF q
      <4>. QED  BY <4>4, <4>5, <4>7
    <3>. QED  BY <3>2, <3>3
  <2>. QED  BY <2>1
<1>3. \A p \in Nat : p \in T
  <2>. HIDE DEF T
  <2>. QED  BY <1>1, <1>2, StepInduction
<1>4. Short(m, k)
  <2>1. m \in T
    BY <1>3
  <2>. HIDE DEF Short
  <2>. QED  BY <2>1
<1>. QED  BY <1>4

-----------------------------------------------------------------------------
(* What a directive writes *)

LEMMA TypesAre ==
  /\ UintValues \in Nat \ {0} /\ Uint64Values \in Nat \ {0} /\ UintValues <= Uint64Values
  /\ PointerLen \in Nat /\ Unit \in Nat \ {0}
  /\ MantissaValues \in Nat /\ MantissaValues <= Uint64Values
  /\ \A size : P!ValuesOf(size) \in Nat \ {0} /\ P!ValuesOf(size) <= Uint64Values
<1>1. /\ UintValues \in Nat \ {0} /\ Uint64Values \in Nat /\ UintValues <= Uint64Values
      /\ PointerLen \in Nat /\ Unit \in Nat \ {0}
      /\ MantissaValues \in Nat /\ MantissaValues <= Uint64Values
  BY PartsAssumption DEF P!PrintfAssumption
<1>2. Uint64Values \in Nat \ {0}
  BY <1>1
<1>3. \A size : P!ValuesOf(size) \in {UintValues, Uint64Values}
  BY DEF P!ValuesOf
<1>. QED  BY <1>1, <1>2, <1>3

LEMMA KindsAre ==
  ASSUME NEW d \in P!Directives
  PROVE  \/ d.kind = "char" /\ d.char \in Chars
         \/ d.kind = "string" /\ d.string \in Text
         \/ /\ d.kind = "number" /\ d.arg \in Int /\ d.sign \in BOOLEAN
            /\ d.hex \in 0..2 /\ d.zero \in P!Pads /\ d.width \in Nat
         \/ d.kind = "pointer" /\ d.arg \in Nat
         \/ /\ d.kind = "float" /\ d.arg \in Int /\ d.frac_width \in Nat
            /\ d.zero \in P!Pads /\ d.width \in Nat
BY DEF P!Directives, Text

LEMMA QuotientNat ==
  ASSUME NEW v \in Nat, NEW m \in Nat \ {0}
  PROVE  v \div m \in Nat /\ v % m \in Nat
OBVIOUS

LEMMA QuotientOf ==
  ASSUME NEW m \in Nat \ {0}, NEW v \in Nat
  PROVE  v \div m \in Nat /\ v % m \in Nat /\ v = m * (v \div m) + (v % m)
OBVIOUS

LEMMA ProductMonotone ==
  ASSUME NEW a \in Nat, NEW b \in Nat, a <= b, NEW m \in Nat
  PROVE  m * a <= m * b
OBVIOUS

LEMMA RemainderNat ==
  ASSUME NEW v \in Int, NEW m \in Nat \ {0}
  PROVE  v % m \in Nat
OBVIOUS

\* An integer part is never more than that of the double.
LEMMA Int64Is ==
  ASSUME NEW n \in Nat
  PROVE  P!Int64(n) \in Nat /\ P!Int64(n) <= n /\ (2 * n < Uint64Values => P!Int64(n) = n)
<1>1. Uint64Values \in Nat
  BY TypesAre
<1>. QED  BY <1>1 DEF P!Int64

LEMMA FractionNat ==
  ASSUME NEW f \in Nat, NEW scale \in Nat
  PROVE  P!Fraction(f, P!Int64(f \div Unit), scale) \in Nat
<1>. DEFINE q == f \div Unit
            i == P!Int64(q)
            r == f - i * Unit
            w == 2 * r * scale + Unit
            v == w \div (2 * Unit)
<1>1. q \in Nat /\ Unit \in Nat \ {0} /\ 2 * Unit \in Nat \ {0} /\ q * Unit <= f
  <2>1. Unit \in Nat \ {0}
    BY TypesAre
  <2>2. q \in Nat /\ f % Unit \in Nat /\ f = Unit * q + (f % Unit)
    BY <2>1, QuotientOf
  <2>. HIDE DEF q
  <2>. QED  BY <2>1, <2>2
<1>2. i \in Nat /\ i <= q
  BY <1>1, Int64Is
<1>. HIDE DEF q, i
<1>3. r \in Nat
  <2>1. Unit * i <= Unit * q
    BY <1>1, <1>2, ProductMonotone
  <2>2. i * Unit \in Nat /\ q * Unit \in Nat /\ i * Unit = Unit * i /\ q * Unit = Unit * q
    BY <1>1, <1>2
  <2>. DEFINE x == i * Unit
              y == q * Unit
  <2>3. x <= y /\ y <= f /\ x \in Nat /\ y \in Nat
    BY <1>1, <2>1, <2>2
  <2>. HIDE DEF x, y
  <2>4. f - x \in Nat
    BY <2>3
  <2>. QED  BY <2>4 DEF x
<1>. HIDE DEF r
<1>4. w \in Nat
  <2>1. 2 * r \in Nat
    BY <1>3
  <2>2. 2 * r * scale \in Nat
    BY <2>1
  <2>. QED  BY <1>1, <2>2
<1>. HIDE DEF w
<1>5. v \in Nat
  BY <1>1, <1>4, QuotientNat
<1>6. P!Fraction(f, i, scale) = IF v < Uint64Values THEN v ELSE 0
  BY DEF P!Fraction, P!Uint64, v, w, r
<1>. QED  BY <1>5, <1>6 DEF i, q

\* The sign, and what is to be converted behind it.
Minus(negative) == IF negative THEN <<"-">> ELSE <<>>
Negative(d) == (d.sign \/ d.size = "P") /\ d.arg < 0
Magnitude(d) == IF Negative(d) THEN P!Unsigned(-d.arg, Uint64Values)
                ELSE P!Unsigned(d.arg, P!ValuesOf(d.size))
Double(d) == IF d.arg < 0 THEN -d.arg ELSE d.arg
DoubleParts(d) == IF d.frac_width = 0 THEN <<P!Int64(Double(d) \div Unit), 0>>
                  ELSE P!Rounded(Double(d), P!Scale(d.frac_width))

\* What a directive writes where there is room for it.
IntegerText(d) == Minus(Negative(d)) \o NumberText(Magnitude(d), d.zero, d.hex, d.width)
WholeText(d) == Minus(d.arg < 0) \o NumberText(DoubleParts(d)[1], d.zero, 0, d.width)
PlacesText(d) == NumberText(DoubleParts(d)[2], "0", 0, d.frac_width)
FloatText(d) == IF d.frac_width = 0 THEN WholeText(d)
                ELSE (WholeText(d) \o <<".">>) \o PlacesText(d)
TextOf(d) == CASE d.kind = "char" -> <<d.char>>
               [] d.kind = "string" -> d.string
               [] d.kind = "number" -> IntegerText(d)
               [] d.kind = "pointer" -> NumberText(d.arg, "0", 2, PointerLen)
               [] d.kind = "float" -> FloatText(d)

LEMMA MagnitudesAre ==
  ASSUME NEW d
  PROVE  /\ d.arg \in Int => Magnitude(d) \in Nat
         /\ d.arg \in Int /\ d.frac_width \in Nat
              => DoubleParts(d)[1] \in Nat /\ DoubleParts(d)[2] \in Nat
<1>1. ASSUME d.arg \in Int PROVE Magnitude(d) \in Nat
  <2>1. -d.arg \in Int
    BY <1>1
  <2>2. P!Unsigned(-d.arg, Uint64Values) \in Nat
    BY <2>1, TypesAre, RemainderNat DEF P!Unsigned
  <2>3. P!Unsigned(d.arg, P!ValuesOf(d.size)) \in Nat
    BY <1>1, TypesAre, RemainderNat DEF P!Unsigned
  <2>. QED  BY <2>2, <2>3 DEF Magnitude
<1>2. ASSUME d.arg \in Int, d.frac_width \in Nat
      PROVE  DoubleParts(d)[1] \in Nat /\ DoubleParts(d)[2] \in Nat
  <2>. DEFINE f == Double(d)
              scale == P!Scale(d.frac_width)
              q == f \div Unit
              i == P!Int64(q)
              v == P!Fraction(f, i, scale)
  <2>1. f \in Nat /\ scale \in Nat
    BY <1>2, ScaleIs DEF Double
  <2>. HIDE DEF f, scale
  <2>2. i \in Nat /\ (i + 1) % Uint64Values \in Nat
    <3>1. Unit \in Nat \ {0} /\ Uint64Values \in Nat \ {0}
      BY TypesAre
    <3>2. q \in Nat
      BY <2>1, <3>1, QuotientNat
    <3>. HIDE DEF q
    <3>3. i \in Nat
      BY <3>2, Int64Is
    <3>. HIDE DEF i
    <3>4. i + 1 \in Int
      BY <3>3
    <3>. QED  BY <3>1, <3>3, <3>4, RemainderNat
  <2>3. v \in Nat
    BY <2>1, FractionNat
  <2>. HIDE DEF v
  <2>4. CASE d.frac_width = 0
    <3>1. DoubleParts(d) = <<i, 0>>
      BY <2>4 DEF DoubleParts, f, i, q
    <3>. HIDE DEF i
    <3>. QED  BY <2>2, <3>1
  <2>5. CASE d.frac_width # 0
    <3>1. DoubleParts(d) = IF v = scale THEN <<(i + 1) % Uint64Values, 0>> ELSE <<i, v>>
      BY <2>5 DEF DoubleParts, P!Rounded, f, scale, v, i, q
    <3>. HIDE DEF i
    <3>. QED  BY <2>2, <2>3, <3>1
  <2>. QED  BY <2>4, <2>5
<1>. QED  BY <1>1, <1>2

LEMMA SignWritten ==
  ASSUME NEW b \in Text, NEW negative \in BOOLEAN
  PROVE  /\ (IF negative THEN Append(b, "-") ELSE b) = b \o Minus(negative)
         /\ Minus(negative) \in Text /\ Len(Minus(negative)) <= 1
<1>1. "-" \in Chars
  BY CharsAre
<1>. DEFINE c == "-"
<1>2. c \in Chars
  BY <1>1
<1>. HIDE DEF c
<1>3. CASE negative
  <2>1. Minus(negative) = <<c>>
    BY <1>3 DEF Minus, c
  <2>2. Append(b, c) = b \o <<c>> /\ <<c>> \in Text /\ Len(<<c>>) = 1
    BY <1>2, OneChar
  <2>3. Append(b, "-") = b \o Minus(negative)
    BY <2>1, <2>2 DEF c
  <2>4. Len(Minus(negative)) <= 1
    BY <2>1, <2>2
  <2>. QED  BY <1>3, <2>1, <2>2, <2>3, <2>4
<1>4. CASE ~negative
  <2>1. Minus(negative) = <<>>
    BY <1>4 DEF Minus
  <2>2. b = b \o <<>> /\ <<>> \in Text /\ Len(<<>>) <= 1
    BY NoText
  <2>. QED  BY <1>4, <2>1, <2>2
<1>. QED  BY <1>3, <1>4

\* Something has been appended to b, if anything.
Follows(b, text) == \E t \in Text : text = b \o t

LEMMA NumberType ==
  ASSUME NEW ui64 \in Nat, NEW zero \in P!Pads, NEW hexadecimal \in 0..2, NEW width \in Nat
  PROVE  /\ NumberText(ui64, zero, hexadecimal, width) \in Text
         /\ P!Digits(ui64, P!Base(hexadecimal)) \in Text /\ zero \in Chars
<1>. DEFINE base == P!Base(hexadecimal)
<1>1. base \in Bases
  BY BasesAre
<1>2. P!Digits(ui64, base) \in Text
  <2>. HIDE DEF base
  <2>. QED  BY <1>1, DigitsAre
<1>3. zero \in Chars
  BY CharsAre
<1>4. NumberText(ui64, zero, hexadecimal, width) \in Text
  <2>1. <<>> \in Text /\ Len(<<>>) <= 0 /\ 0 \in Nat
    BY NoText
  <2>. QED  BY <1>2, <1>3, <2>1, NumberIs
<1>. QED  BY <1>2, <1>3, <1>4

LEMMA NumberFits ==
  ASSUME NEW b \in Text, NEW end \in Nat, Len(b) <= end, NEW ui64 \in Nat,
         NEW zero \in P!Pads, NEW hexadecimal \in 0..2, NEW width \in Nat
  PROVE  P!ngx_sprintf_num(b, end, ui64, zero, hexadecimal, width) =
           Cut(b \o NumberText(ui64, zero, hexadecimal, width), end)
<1>1. P!Digits(ui64, P!Base(hexadecimal)) \in Text /\ zero \in Chars
  BY NumberType
<1>. QED  BY <1>1, NumberIs

LEMMA NumberFollows ==
  ASSUME NEW b \in Text, NEW end \in Nat, NEW ui64 \in Nat,
         NEW zero \in P!Pads, NEW hexadecimal \in 0..2, NEW width \in Nat
  PROVE  Follows(b, P!ngx_sprintf_num(b, end, ui64, zero, hexadecimal, width))
<1>. DEFINE w == NumberWritten(b, end, ui64, zero, hexadecimal, width)
<1>1. P!Digits(ui64, P!Base(hexadecimal)) \in Text /\ zero \in Chars /\ end \in Int
  BY NumberType
<1>2. w \in Text /\ P!ngx_sprintf_num(b, end, ui64, zero, hexadecimal, width) = b \o w
  BY <1>1, NumberExtends
<1>. QED  BY <1>2 DEF Follows

\* One text after another, cut off each time.
LEMMA WrittenThen ==
  ASSUME NEW b \in Text, NEW s \in Text, NEW t \in Text, NEW n \in Nat
  PROVE  Cut(Cut(b \o s, n) \o t, n) = Cut(b \o (s \o t), n)
<1>1. b \o s \in Text
  BY Joined
<1>2. Cut(Cut(b \o s, n) \o t, n) = Cut((b \o s) \o t, n)
  BY <1>1, CutThen
<1>. QED  BY <1>2, JoinedTwice

LEMMA TextsExtend ==
  ASSUME NEW b \in Text, NEW s \in Text, NEW t \in Text
  PROVE  Follows(b, (b \o s) \o t)
<1>1. s \o t \in Text
  BY Joined
<1>. QED  BY <1>1, JoinedTwice DEF Follows

\* What Write does where there is room, and whether there is or not.
Writes(d, b, end) ==
  /\ TextOf(d) \in Text
  /\ Len(b) < end => P!Write(d, b, end) = Cut(b \o TextOf(d), end)
  /\ Follows(b, P!Write(d, b, end))

LEMMA WriteCharIs ==
  ASSUME NEW d, d.kind = "char", d.char \in Chars, NEW b \in Text, NEW end \in Nat
  PROVE  Writes(d, b, end)
<1>. DEFINE t == <<d.char>>
<1>1. TextOf(d) = t /\ P!Write(d, b, end) = Append(b, d.char)
  BY DEF TextOf, P!Write, P!WriteChar
<1>2. t \in Text /\ Len(t) = 1 /\ Append(b, d.char) = b \o t
  BY OneChar
<1>. HIDE DEF t
<1>3. b \o t \in Text /\ Len(b \o t) = Len(b) + 1 /\ Len(b) \in Nat
  BY <1>2, Joined, TextLen
<1>4. Len(b) < end => Cut(b \o t, end) = b \o t
  <2>1. Len(b) < end => Len(b \o t) <= end
    BY <1>3
  <2>. QED  BY <1>3, <2>1, CutWhole
<1>5. Follows(b, b \o t)
  BY <1>2 DEF Follows
<1>. QED  BY <1>1, <1>2, <1>4, <1>5 DEF Writes

LEMMA WriteStringIs ==
  ASSUME NEW d, d.kind = "string", d.string \in Text, NEW b \in Text, NEW end \in Nat
  PROVE  Writes(d, b, end)
<1>. DEFINE s == d.string
            n == end - Len(b)
<1>1. TextOf(d) = s /\ P!Write(d, b, end) = b \o Cut(s, n)
  BY DEF TextOf, P!Write, P!WriteString, Cut, P!Copied
<1>2. Len(b) \in Nat /\ n \in Int /\ s \in Text
  BY TextLen
<1>. HIDE DEF s
<1>3. Len(b) < end => Cut(b \o s, end) = b \o Cut(s, n)
  <2>1. Len(b) < end => Len(b) <= end
    BY <1>2
  <2>. QED  BY <1>2, <2>1, CutSecond
<1>. HIDE DEF n
<1>4. Cut(s, n) \in Text
  <2>1. CASE n >= 0
    <3>1. n \in Nat
      BY <1>2, <2>1
    <3>. QED  BY <1>2, <3>1, CutIs
  <2>2. CASE n < 0
    <3>1. n <= 0
      BY <1>2, <2>2
    <3>2. Cut(s, n) = <<>>
      BY <1>2, <3>1, CutNothing
    <3>. QED  BY <3>2, NoText
  <2>. QED  BY <1>2, <2>1, <2>2
<1>5. Follows(b, P!Write(d, b, end))
  BY <1>1, <1>4 DEF Follows
<1>. QED  BY <1>1, <1>2, <1>3, <1>5 DEF Writes

LEMMA WritePointerIs ==
  ASSUME NEW d, d.kind = "pointer", d.arg \in Nat, NEW b \in Text, NEW end \in Nat
  PROVE  Writes(d, b, end)
<1>. DEFINE n == d.arg
            zero == "0"
            hex == 2
<1>1. /\ TextOf(d) = NumberText(n, zero, hex, PointerLen)
      /\ P!Write(d, b, end) = P!ngx_sprintf_num(b, end, n, zero, hex, PointerLen)
  BY DEF TextOf, P!Write, P!WritePointer
<1>2. n \in Nat /\ zero \in P!Pads /\ hex \in 0..2 /\ PointerLen \in Nat
  BY CharsAre, TypesAre
<1>3. Len(b) < end => Len(b) <= end
  BY TextLen
<1>. HIDE DEF n, zero, hex
<1>. DEFINE w == P!ngx_sprintf_num(b, end, n, zero, hex, PointerLen)
            t == NumberText(n, zero, hex, PointerLen)
<1>6. t \in Text
  BY <1>2, NumberType
<1>7. Len(b) <= end => w = Cut(b \o t, end)
  BY <1>2, NumberFits
<1>4. Follows(b, w)
  BY <1>2, NumberFollows
<1>. HIDE DEF w, t
<1>5. TextOf(d) = t /\ P!Write(d, b, end) = w
  BY <1>1 DEF w, t
<1>. QED  BY <1>3, <1>4, <1>5, <1>6, <1>7 DEF Writes

\* A sign and a number.
LEMMA SignedFits ==
  ASSUME NEW b \in Text, NEW end \in Nat, Len(b) < end, NEW negative \in BOOLEAN,
         NEW n \in Nat, NEW zero \in P!Pads, NEW hex \in 0..2, NEW width \in Nat
  PROVE  P!ngx_sprintf_num(b \o Minus(negative), end, n, zero, hex, width) =
           Cut(b \o (Minus(negative) \o NumberText(n, zero, hex, width)), end)
<1>. DEFINE s == Minus(negative)
            t == NumberText(n, zero, hex, width)
            c == b \o s
<1>1. s \in Text /\ Len(s) <= 1
  BY SignWritten
<1>2. t \in Text
  BY NumberType
<1>. HIDE DEF s
<1>3. c \in Text /\ Len(c) = Len(b) + Len(s) /\ Len(b) \in Nat /\ Len(s) \in Nat
  BY <1>1, Joined, TextLen
<1>. HIDE DEF c
<1>4. Len(c) <= end
  BY <1>1, <1>3
<1>5. P!ngx_sprintf_num(c, end, n, zero, hex, width) = Cut(c \o t, end)
  BY <1>3, <1>4, NumberFits
<1>. HIDE DEF t
<1>6. c \o t = b \o (s \o t)
  BY <1>1, <1>2, JoinedTwice DEF c
<1>. QED  BY <1>5, <1>6 DEF c, s, t

LEMMA SignedFollows ==
  ASSUME NEW b \in Text, NEW end \in Nat, NEW negative \in BOOLEAN,
         NEW n \in Nat, NEW zero \in P!Pads, NEW hex \in 0..2, NEW width \in Nat
  PROVE  Follows(b, P!ngx_sprintf_num(b \o Minus(negative), end, n, zero, hex, width))
<1>. DEFINE s == Minus(negative)
            c == b \o s
            w == P!ngx_sprintf_num(c, end, n, zero, hex, width)
<1>1. s \in Text
  BY SignWritten
<1>. HIDE DEF s
<1>2. c \in Text
  BY <1>1, Joined
<1>. HIDE DEF c
<1>3. Follows(c, w)
  BY <1>2, NumberFollows
<1>. HIDE DEF w
<1>4. PICK u \in Text : w = c \o u
  BY <1>3 DEF Follows
<1>5. s \o u \in Text
  BY <1>1, <1>4, Joined
<1>6. (b \o s) \o u = b \o (s \o u)
  BY <1>1, <1>4, JoinedTwice
<1>7. w = b \o (s \o u)
  BY <1>4, <1>6 DEF c
<1>8. Follows(b, w)
  BY <1>5, <1>7 DEF Follows
<1>. QED  BY <1>8 DEF w, c, s

LEMMA WriteNumberIs ==
  ASSUME NEW d, d.kind = "number", d.arg \in Int, d.sign \in BOOLEAN, d.hex \in 0..2,
         d.zero \in P!Pads, d.width \in Nat, NEW b \in Text, NEW end \in Nat
  PROVE  Writes(d, b, end)
<1>. DEFINE negative == Negative(d)
            n == Magnitude(d)
            zero == d.zero
            hex == d.hex
            width == d.width
            s == Minus(negative)
            t == NumberText(n, zero, hex, width)
            w == P!ngx_sprintf_num(b \o s, end, n, zero, hex, width)
<1>1. TextOf(d) = s \o t
  BY DEF TextOf, IntegerText
<1>2. negative \in BOOLEAN /\ n \in Nat /\ zero \in P!Pads /\ hex \in 0..2 /\ width \in Nat
  <2>1. negative \in BOOLEAN
    BY DEF Negative
  <2>2. n \in Nat
    BY MagnitudesAre
  <2>. QED  BY <2>1, <2>2
<1>3. P!Write(d, b, end) = w
  <2>1. P!Write(d, b, end) = P!WriteNumber(d, b, end)
    BY DEF P!Write
  <2>2. P!WriteNumber(d, b, end) =
          P!ngx_sprintf_num(IF negative THEN Append(b, "-") ELSE b, end, n, zero, hex, width)
    BY DEF P!WriteNumber, Negative, Magnitude
  <2>3. (IF negative THEN Append(b, "-") ELSE b) = b \o s
    <3>. HIDE DEF negative
    <3>. QED  BY <1>2, SignWritten
  <2>. HIDE DEF negative, n, s
  <2>. QED  BY <2>1, <2>2, <2>3
<1>. HIDE DEF negative, n, zero, hex, width
<1>4. s \o t \in Text
  <2>1. s \in Text
    BY <1>2, SignWritten
  <2>2. t \in Text
    BY <1>2, NumberType
  <2>. HIDE DEF s, t
  <2>. QED  BY <2>1, <2>2, Joined
<1>5. Len(b) < end => w = Cut(b \o (s \o t), end)
  BY <1>2, SignedFits
<1>6. Follows(b, w)
  BY <1>2, SignedFollows
<1>. HIDE DEF s, t, w
<1>. QED  BY <1>1, <1>3, <1>4, <1>5, <1>6 DEF Writes

LEMMA WriteFloatIs ==
  ASSUME NEW d, d.kind = "float", d.arg \in Int, d.frac_width \in Nat,
         d.zero \in P!Pads, d.width \in Nat, NEW b \in Text, NEW end \in Nat
  PROVE  Writes(d, b, end)
<1>. DEFINE negative == d.arg < 0
            whole == DoubleParts(d)[1]
            places == DoubleParts(d)[2]
            zero == d.zero
            dec == 0
            width == d.width
            fw == d.frac_width
            s == Minus(negative)
            t == s \o NumberText(whole, zero, dec, width)
            int == P!ngx_sprintf_num(b \o s, end, whole, zero, dec, width)
            point == IF Len(int) < end THEN Append(int, ".") ELSE int
            zz == "0"
            w == P!ngx_sprintf_num(point, end, places, zz, dec, fw)
            p == NumberText(places, zz, dec, fw)
            dot == <<".">>
<1>1. TextOf(d) = IF fw = 0 THEN t ELSE (t \o dot) \o p
  BY DEF TextOf, FloatText, WholeText, PlacesText
<1>2. /\ negative \in BOOLEAN /\ whole \in Nat /\ places \in Nat /\ zero \in P!Pads
      /\ dec \in 0..2 /\ width \in Nat /\ fw \in Nat /\ zz \in P!Pads
  BY MagnitudesAre, CharsAre
<1>3. P!Write(d, b, end) = IF fw = 0 THEN int ELSE w
  <2>. DEFINE sign == IF negative THEN Append(b, "-") ELSE b
  <2>1. P!Write(d, b, end) = P!WriteFloat(d, b, end)
    BY DEF P!Write
  <2>2. sign = b \o s
    <3>. HIDE DEF negative
    <3>. QED  BY <1>2, SignWritten
  <2>3. whole = (IF d.frac_width = 0 THEN <<P!Int64(Double(d) \div Unit), 0>>
                 ELSE P!Rounded(Double(d), P!Scale(d.frac_width)))[1]
    BY DEF DoubleParts
  <2>4. places = (IF d.frac_width = 0 THEN <<P!Int64(Double(d) \div Unit), 0>>
                  ELSE P!Rounded(Double(d), P!Scale(d.frac_width)))[2]
    BY DEF DoubleParts
  <2>. HIDE DEF s, whole, places
  <2>5. P!WriteFloat(d, b, end) =
          LET i == P!ngx_sprintf_num(sign, end, whole, zero, dec, width)
              q == IF Len(i) < end THEN Append(i, ".") ELSE i
          IN  IF fw = 0 THEN i ELSE P!ngx_sprintf_num(q, end, places, zz, dec, fw)
    BY <2>3, <2>4 DEF P!WriteFloat, Double
  <2>. HIDE DEF sign
  <2>. QED  BY <2>1, <2>2, <2>5
<1>4. /\ t \in Text /\ (Len(b) < end => int = Cut(b \o t, end))
      /\ Follows(b, int)
  <2>. DEFINE v == NumberText(whole, zero, dec, width)
  <2>. HIDE DEF negative, whole, zero, dec, width
  <2>1. t \in Text
    <3>1. s \in Text
      BY <1>2, SignWritten
    <3>2. v \in Text
      BY <1>2, NumberType
    <3>. HIDE DEF s, v
    <3>3. s \o v \in Text
      BY <3>1, <3>2, Joined
    <3>. QED  BY <3>3 DEF s, v
  <2>2. Len(b) < end => int = Cut(b \o t, end)
    BY <1>2, SignedFits
  <2>3. Follows(b, int)
    BY <1>2, SignedFollows
  <2>. QED  BY <2>1, <2>2, <2>3
<1>5. dot \in Text /\ Len(dot) = 1 /\ \A u \in Text : Append(u, ".") = u \o dot
  <2>. DEFINE c == "."
  <2>1. c \in Chars
    BY CharsAre
  <2>. HIDE DEF c
  <2>2. <<c>> \in Text /\ Len(<<c>>) = 1 /\ \A u \in Text : Append(u, c) = u \o <<c>>
    BY <2>1, OneChar
  <2>. QED  BY <2>2 DEF c
<1>. HIDE DEF s, t, dot, negative, whole, places, zero, dec, width, fw, zz, int
<1>6. PICK u \in Text : int = b \o u
  BY <1>4 DEF Follows
<1>7. int \in Text /\ Len(int) \in Nat
  BY <1>6, Joined, TextLen
<1>8. Follows(b, point)
  <2>1. CASE Len(int) < end
    <3>1. point = (b \o u) \o dot
      BY <1>5, <1>6, <1>7, <2>1
    <3>. QED  BY <1>5, <3>1, TextsExtend
  <2>2. CASE ~(Len(int) < end)
    BY <1>4, <2>2
  <2>. QED  BY <2>1, <2>2
<1>9. PICK v \in Text : point = b \o v
  BY <1>8 DEF Follows
<1>10. point \in Text
  BY <1>9, Joined
<1>11. Len(b) < end => point = Cut(b \o (t \o dot), end) /\ Len(point) <= end
  <2>. SUFFICES ASSUME Len(b) < end
                PROVE  point = Cut(b \o (t \o dot), end) /\ Len(point) <= end
    OBVIOUS
  <2>1. b \o t \in Text /\ int = Cut(b \o t, end)
    BY <1>4, Joined
  <2>2. Len(int) <= end
    BY <2>1, CutIs, TextLen
  <2>3. Cut(int \o dot, end) = Cut(b \o (t \o dot), end)
    BY <1>4, <1>5, <2>1, WrittenThen
  <2>4. CASE Len(int) < end
    <3>1. point = int \o dot
      BY <1>5, <1>7, <2>4
    <3>2. Len(int \o dot) = Len(int) + 1 /\ int \o dot \in Text
      BY <1>5, <1>7, Joined
    <3>3. Len(int \o dot) <= end
      BY <1>7, <2>4, <3>2
    <3>4. Cut(int \o dot, end) = int \o dot
      BY <3>2, <3>3, CutWhole
    <3>. QED  BY <2>3, <3>1, <3>3, <3>4
  <2>5. CASE ~(Len(int) < end)
    <3>1. point = int /\ end <= Len(int)
      BY <1>7, <2>5
    <3>2. Cut(int \o dot, end) = Cut(int, end)
      BY <1>5, <1>7, <3>1, CutFirst
    <3>3. Cut(int, end) = int
      BY <1>7, <2>2, CutWhole
    <3>. QED  BY <2>2, <2>3, <3>1, <3>2, <3>3
  <2>. QED  BY <2>4, <2>5
<1>. HIDE DEF point
<1>12. /\ p \in Text /\ (Len(point) <= end => w = Cut(point \o p, end))
       /\ Follows(point, w)
  <2>1. p \in Text
    BY <1>2, NumberType
  <2>2. Len(point) <= end => w = Cut(point \o p, end)
    BY <1>2, <1>10, NumberFits
  <2>3. Follows(point, w)
    BY <1>2, <1>10, NumberFollows
  <2>. QED  BY <2>1, <2>2, <2>3
<1>. HIDE DEF p, w
<1>13. (t \o dot) \in Text /\ (t \o dot) \o p \in Text
  BY <1>4, <1>5, <1>12, Joined
<1>14. Len(b) < end => w = Cut(b \o ((t \o dot) \o p), end)
  <2>. DEFINE td == t \o dot
  <2>1. td \in Text
    BY <1>13
  <2>. HIDE DEF td
  <2>2. Cut(Cut(b \o td, end) \o p, end) = Cut(b \o (td \o p), end)
    BY <1>12, <2>1, WrittenThen
  <2>. QED  BY <1>11, <1>12, <2>2 DEF td
<1>15. Follows(b, w)
  <2>1. PICK x \in Text : w = point \o x
    BY <1>12 DEF Follows
  <2>2. w = (b \o v) \o x
    BY <1>9, <2>1
  <2>. QED  BY <2>2, TextsExtend
<1>. QED  BY <1>1, <1>3, <1>4, <1>6, <1>13, <1>14, <1>15 DEF Writes

LEMMA WriteIs ==
  ASSUME NEW d \in P!Directives, NEW b \in Text, NEW end \in Nat
  PROVE  Writes(d, b, end)
<1>1. CASE d.kind = "char" /\ d.char \in Chars
  BY <1>1, WriteCharIs
<1>2. CASE d.kind = "string" /\ d.string \in Text
  BY <1>2, WriteStringIs
<1>3. CASE /\ d.kind = "number" /\ d.arg \in Int /\ d.sign \in BOOLEAN
           /\ d.hex \in 0..2 /\ d.zero \in P!Pads /\ d.width \in Nat
  BY <1>3, WriteNumberIs
<1>4. CASE d.kind = "pointer" /\ d.arg \in Nat
  BY <1>4, WritePointerIs
<1>5. CASE /\ d.kind = "float" /\ d.arg \in Int /\ d.frac_width \in Nat
           /\ d.zero \in P!Pads /\ d.width \in Nat
  BY <1>5, WriteFloatIs
<1>. QED  BY <1>1, <1>2, <1>3, <1>4, <1>5, KindsAre

-----------------------------------------------------------------------------
(* Quotients *)

LEMMA QuotientIs ==
  ASSUME NEW m \in Nat \ {0}, NEW a \in Nat, NEW b \in Nat, b < m
  PROVE  (m * a + b) \div m = a /\ (m * a + b) % m = b
OBVIOUS

LEMMA QuotientBounds ==
  ASSUME NEW m \in Nat \ {0}, NEW v \in Nat
  PROVE  /\ v \div m \in Nat /\ v % m \in Nat /\ v % m < m
         /\ v = m * (v \div m) + (v % m)
OBVIOUS

LEMMA RemainderIs ==
  ASSUME NEW m \in Nat \ {0}, NEW v \in Int
  PROVE  /\ 0 <= v /\ v < m => (v % m) = v
         /\ -m <= v /\ v < 0 => (v % m) = v + m
OBVIOUS

\* Rounding the fraction, and carrying it, is rounding the number.
LEMMA NearestIs ==
  ASSUME NEW u \in Nat \ {0}, NEW scale \in Nat \ {0}, NEW f \in Nat
  PROVE  LET frac == (2 * (f % u) * scale + u) \div (2 * u)
             nearest == (2 * f * scale + u) \div (2 * u)
         IN  /\ frac \in Nat
             /\ frac = scale => /\ nearest \div scale = f \div u + 1
                                /\ nearest % scale = 0
             /\ frac # scale => /\ frac < scale /\ nearest \div scale = f \div u
                                /\ nearest % scale = frac
<1>. DEFINE q == f \div u
            r == f % u
            m == 2 * u
            v == 2 * r * scale + u
            frac == v \div m
            rest == v % m
            nearest == (2 * f * scale + u) \div m
<1>1. q \in Nat /\ r \in Nat /\ r < u /\ f = u * q + r /\ m \in Nat \ {0}
  BY QuotientBounds
<1>. HIDE DEF q, r
<1>2. v \in Nat
  <2>1. 2 * r \in Nat
    BY <1>1
  <2>2. 2 * r * scale \in Nat
    BY <2>1
  <2>. QED  BY <2>2
<1>3. 2 * f * scale + u = m * (q * scale) + v
  <2>1. 2 * (u * q + r) * scale + u = 2 * u * (q * scale) + (2 * r * scale + u)
    BY <1>1
  <2>. QED  BY <1>1, <2>1
<1>4. v < m * (scale + 1)
  <2>1. scale * r <= scale * u
    BY <1>1, ProductMonotone
  <2>2. v = 2 * (scale * r) + u
    BY <1>1
  <2>3. m * (scale + 1) = 2 * (scale * u) + 2 * u
    OBVIOUS
  <2>4. scale * r \in Nat /\ scale * u \in Nat
    BY <1>1
  <2>. DEFINE x == scale * r
              y == scale * u
  <2>5. x <= y /\ v = 2 * x + u /\ m * (scale + 1) = 2 * y + 2 * u /\ x \in Nat /\ y \in Nat
    BY <2>1, <2>2, <2>3, <2>4
  <2>. HIDE DEF x, y, v, m
  <2>. QED  BY <2>5
<1>. HIDE DEF v
<1>5. frac \in Nat /\ rest \in Nat /\ rest < m /\ v = m * frac + rest
  <2>. HIDE DEF m
  <2>. QED  BY <1>1, <1>2, QuotientBounds
<1>. HIDE DEF frac, rest
<1>6. frac <= scale
  <2>1. ASSUME scale + 1 <= frac PROVE FALSE
    <3>. HIDE DEF m
    <3>1. m * (scale + 1) <= m * frac
      BY <1>1, <1>5, <2>1, ProductMonotone
    <3>2. m * frac \in Nat /\ m * (scale + 1) \in Nat
      BY <1>1, <1>5
    <3>. DEFINE x == m * frac
                y == m * (scale + 1)
    <3>3. y <= x /\ v < y /\ v = x + rest /\ x \in Nat /\ y \in Nat
      BY <1>4, <1>5, <3>1, <3>2
    <3>. HIDE DEF x, y
    <3>. QED  BY <1>5, <3>3
  <2>. QED  BY <1>5, <2>1
<1>7. nearest = q * scale + frac
  <2>1. q * scale \in Nat
    BY <1>1
  <2>. DEFINE a == q * scale
              e == a + frac
  <2>2. a \in Nat /\ e \in Nat
    BY <1>5, <2>1
  <2>3. 2 * f * scale + u = m * a + v
    BY <1>3
  <2>. HIDE DEF a, m
  <2>4. m * a + (m * frac + rest) = m * (a + frac) + rest
    BY <1>1, <1>5, <2>2
  <2>5. 2 * f * scale + u = m * e + rest
    BY <1>5, <2>3, <2>4
  <2>. HIDE DEF e
  <2>6. (m * e + rest) \div m = e
    BY <1>1, <1>5, <2>2, QuotientIs
  <2>7. nearest = e
    BY <2>5, <2>6
  <2>. QED  BY <2>7 DEF e, a
<1>. HIDE DEF nearest
<1>8. ASSUME frac = scale PROVE nearest \div scale = q + 1 /\ nearest % scale = 0
  <2>1. nearest = scale * (q + 1) + 0
    BY <1>1, <1>7, <1>8
  <2>. DEFINE z == 0
              q1 == q + 1
  <2>2. z \in Nat /\ z < scale /\ q1 \in Nat /\ nearest = scale * q1 + z
    BY <1>1, <2>1
  <2>. HIDE DEF z, q1
  <2>3. (scale * q1 + z) \div scale = q1 /\ (scale * q1 + z) % scale = z
    BY <2>2, QuotientIs
  <2>4. nearest \div scale = q1 /\ nearest % scale = z
    BY <2>2, <2>3
  <2>. QED  BY <2>4 DEF z, q1
<1>9. ASSUME frac # scale PROVE frac < scale /\ nearest \div scale = q /\ nearest % scale = frac
  <2>1. frac < scale
    BY <1>5, <1>6, <1>9
  <2>2. nearest = scale * q + frac
    BY <1>1, <1>5, <1>7
  <2>3. (scale * q + frac) \div scale = q /\ (scale * q + frac) % scale = frac
    BY <1>1, <1>5, <2>1, QuotientIs
  <2>. QED  BY <2>1, <2>2, <2>3
<1>. QED  BY <1>5, <1>8, <1>9 DEF nearest, frac, v, q, r

-----------------------------------------------------------------------------
(* Numbers can be read back *)

\* The second of two texts.
LEMMA SecondPiece ==
  ASSUME NEW s \in Text, NEW t \in Text
  PROVE  SubSeq(s \o t, Len(s) + 1, Len(s \o t)) = t
<1>. DEFINE u == s \o t
            m == Len(s)
            n == Len(t)
            p == SubSeq(u, m + 1, m + n)
<1>1. m \in Nat /\ n \in Nat
  BY TextLen
<1>2. u \in Text /\ Len(u) = m + n /\ \A i \in 1..n : u[m + i] = t[i]
  BY Joined
<1>3. p \in Text /\ Len(p) = n /\ \A i \in 1..n : p[i] = u[m + i]
  <2>. HIDE DEF u, m, n
  <2>1. m + n <= Len(u)
    BY <1>1, <1>2
  <2>. QED  BY <1>1, <1>2, <2>1, Piece
<1>. HIDE DEF p, u, m
<1>4. Len(p) = Len(t) /\ \A i \in 1..Len(p) : p[i] = t[i]
  BY <1>2, <1>3
<1>5. p = t
  BY <1>3, <1>4, SameText
<1>. QED  BY <1>2, <1>5 DEF p, u, m

LEMMA FirstPiece ==
  ASSUME NEW s \in Text, NEW t \in Text
  PROVE  SubSeq(s \o t, 1, Len(s)) = s
<1>1. Len(s) \in Nat
  BY TextLen
<1>2. Cut(s \o t, Len(s)) = Cut(s, Len(s)) /\ Cut(s, Len(s)) = s
  BY <1>1, CutFirst, CutWhole
<1>3. Len(s \o t) = Len(s) + Len(t) /\ Len(t) \in Nat
  BY Joined, TextLen
<1>4. P!AtMost(Len(s), Len(s \o t)) = Len(s)
  BY <1>1, <1>3 DEF P!AtMost
<1>5. Cut(s \o t, Len(s)) = SubSeq(s \o t, 1, Len(s))
  BY <1>4 DEF Cut, P!Copied
<1>. QED  BY <1>2, <1>5

LEMMA NumberShows ==
  ASSUME NEW n \in Nat, NEW zero \in P!Pads, NEW hex \in 0..2, NEW width \in Nat
  PROVE  P!Shows(NumberText(n, zero, hex, width), n, P!Base(hex), zero, width)
<1>. DEFINE base == P!Base(hex)
            d == P!Digits(n, base)
            p == Pad(Len(d), zero, width)
            t == NumberText(n, zero, hex, width)
            k == Len(p)
<1>1. base \in Bases
  BY BasesAre
<1>2. t = p \o d
  BY DEF NumberText
<1>. HIDE DEF base
<1>3. /\ d \in Text /\ Len(d) \in Nat \ {0}
      /\ \A i \in 1..Len(d) : \E j \in 1..base : d[i] = P!DigitChars[j]
      /\ P!ValueOf(d, base) = n
      /\ n # 0 => d[1] # "0"
      /\ n = 0 => Len(d) = 1
  BY <1>1, DigitsAre
<1>. HIDE DEF d
<1>4. /\ p \in Text /\ k = IF width - Len(d) >= 0 THEN width - Len(d) ELSE 0
      /\ \A i \in 1..k : p[i] = zero
  <2>1. zero \in Chars /\ Len(d) \in Nat
    BY <1>3, CharsAre
  <2>. QED  BY <2>1, PadType
<1>. HIDE DEF p, t
<1>5. Len(t) = k + Len(d) /\ \A i \in 1..k : t[i] = p[i]
  <2>. HIDE DEF k
  <2>1. Len(p \o d) = Len(p) + Len(d) /\ \A i \in 1..Len(p) : (p \o d)[i] = p[i]
    BY <1>3, <1>4, Joined
  <2>. QED  BY <1>2, <2>1 DEF k
<1>6. SubSeq(t, k + 1, Len(t)) = d
  BY <1>2, <1>3, <1>4, SecondPiece
<1>. HIDE DEF k
<1>7. /\ k \in 0..(Len(t) - 1)
      /\ k > 0 => Len(t) = width
      /\ k = 0 => Len(t) >= width
  BY <1>3, <1>4, <1>5
<1>8. \A i \in 1..k : t[i] = zero
  BY <1>4, <1>5
<1>9. d[1] = "0" => Len(d) = 1
  BY <1>3
<1>10. \A i \in DOMAIN d : \E j \in 1..base : d[i] = P!DigitChars[j]
  <2>1. DOMAIN d = 1..Len(d)
    BY <1>3, TextLen
  <2>. QED  BY <1>3, <2>1
<1>11. P!Shows(t, n, base, zero, width)
  BY <1>3, <1>6, <1>7, <1>8, <1>9, <1>10 DEF P!Shows
<1>. QED  BY <1>11 DEF t, base

\* There is no point in a number.
LEMMA NoPoint ==
  ASSUME NEW n \in Nat, NEW zero \in P!Pads, NEW hex \in 0..2, NEW width \in Nat,
         NEW i \in 1..Len(NumberText(n, zero, hex, width))
  PROVE  NumberText(n, zero, hex, width)[i] # "."
<1>. DEFINE base == P!Base(hex)
            d == P!Digits(n, base)
            p == Pad(Len(d), zero, width)
            t == NumberText(n, zero, hex, width)
<1>1. base \in Bases
  BY BasesAre
<1>2. t = p \o d
  BY DEF NumberText
<1>. HIDE DEF base
<1>3. /\ d \in Text /\ Len(d) \in Nat
      /\ \A l \in 1..Len(d) : \E j \in 1..base : d[l] = P!DigitChars[j]
  BY <1>1, DigitsAre
<1>. HIDE DEF d
<1>4. p \in Text /\ \A l \in 1..Len(p) : p[l] = zero
  <2>1. zero \in Chars
    BY CharsAre
  <2>. QED  BY <1>3, <2>1, PadType
<1>5. Len(p) \in Nat
  BY <1>4, TextLen
<1>. HIDE DEF p
<1>6. /\ Len(t) = Len(p) + Len(d) /\ \A l \in 1..Len(p) : t[l] = p[l]
      /\ \A l \in (Len(p) + 1)..(Len(p) + Len(d)) : t[l] = d[l - Len(p)]
  BY <1>2, <1>3, <1>4, Joined
<1>. HIDE DEF t
<1>7. i \in 1..Len(t)
  BY DEF t, base
<1>8. CASE i <= Len(p)
  <2>1. i \in 1..Len(p)
    BY <1>5, <1>7, <1>8
  <2>2. t[i] = zero
    BY <1>4, <1>6, <2>1
  <2>3. zero # "."
    BY CharsAre
  <2>. QED  BY <2>2, <2>3 DEF t, base
<1>9. CASE ~(i <= Len(p))
  <2>1. i \in (Len(p) + 1)..(Len(p) + Len(d)) /\ i - Len(p) \in 1..Len(d)
    BY <1>3, <1>5, <1>6, <1>7, <1>9
  <2>2. t[i] = d[i - Len(p)]
    BY <1>6, <2>1
  <2>3. PICK j \in 1..base : d[i - Len(p)] = P!DigitChars[j]
    BY <1>3, <2>1
  <2>4. j \in 1..16
    BY <1>1, <2>3 DEF Bases
  <2>5. t[i] # "."
    BY <2>2, <2>3, <2>4, CharsAre
  <2>. QED  BY <2>5 DEF t, base
<1>. QED  BY <1>8, <1>9

-----------------------------------------------------------------------------
(* Formatting *)

\* Both texts are what the directives before next have written; the bounded one
\* is what there is room for.
PrintfInv ==
  /\ format \in Formats \cup {<<>>} /\ next \in 1..(Len(format) + 1)
  /\ last \in Rooms \cup {0} /\ full \in Text /\ buf = Cut(full, last)
  /\ next = 1 => full = <<>>
  /\ next = 2 => full = P!Write(format[1], <<>>, P!NoEnd)
  /\ part = "printf" => format \in Formats /\ last \in Rooms

LEMMA FormatsAre ==
  ASSUME NEW f \in Formats \cup {<<>>}
  PROVE  /\ Len(f) \in Nat /\ \A k \in 1..Len(f) : f[k] \in P!Directives
         /\ \A k \in 1..Len(f) : f[k].kind = "number" =>
              -P!ValuesOf(f[k].size) <= 2 * f[k].arg /\ f[k].arg < P!ValuesOf(f[k].size)
<1>1. CASE f \in Formats
  <2>1. /\ f \in Seq(P!Directives)
        /\ \A k \in DOMAIN f : f[k].kind = "number" =>
             -P!ValuesOf(f[k].size) <= 2 * f[k].arg /\ f[k].arg < P!ValuesOf(f[k].size)
    BY <1>1, PartsAssumption DEF P!PrintfAssumption
  <2>2. Len(f) \in Nat /\ DOMAIN f = 1..Len(f) /\ \A k \in 1..Len(f) : f[k] \in P!Directives
    BY <2>1, LenProperties, ElementOfSeq
  <2>. QED  BY <2>1, <2>2
<1>2. CASE f = <<>>
  <2>1. Len(f) = 0
    BY <1>2, NoText
  <2>2. \A k \in 1..Len(f) : FALSE
    BY <2>1
  <2>. QED  BY <2>1, <2>2
<1>. QED  BY <1>1, <1>2

LEMMA RoomsAre ==
  ASSUME NEW l \in Rooms \cup {0}
  PROVE  l \in Nat /\ l < P!NoEnd /\ P!NoEnd \in Nat
<1>1. Rooms \subseteq 0..(P!NoEnd - 1)
  BY PartsAssumption DEF P!PrintfAssumption
<1>. QED  BY <1>1 DEF P!NoEnd

LEMMA PrintfInit ==
  ASSUME PartsInit
  PROVE  PrintfInv
<1>1. <<>> \in Text /\ Len(<<>>) = 0
  BY NoText
<1>2. /\ format \in Formats \cup {<<>>} /\ last \in Rooms \cup {0} /\ next = 1
      /\ buf = <<>> /\ full = <<>>
      /\ part = "printf" => format \in Formats /\ last \in Rooms
  BY DEF PartsInit, NoFormat, P!Init
<1>3. Len(format) \in Nat
  BY <1>2, FormatsAre
<1>4. last \in Nat
  BY <1>2, RoomsAre
<1>5. Cut(<<>>, last) = <<>>
  <2>. DEFINE e == <<>>
  <2>1. e \in Text /\ Len(e) <= last
    BY <1>1, <1>4
  <2>. HIDE DEF e
  <2>2. Cut(e, last) = e
    BY <1>4, <2>1, CutWhole
  <2>. QED  BY <2>2 DEF e
<1>. QED  BY <1>1, <1>2, <1>3, <1>5 DEF PrintfInv

\* One round, for both texts.
LEMMA RoundKeeps ==
  ASSUME NEW d \in P!Directives, NEW f \in Text, NEW l \in Nat, l < P!NoEnd
  PROVE  /\ P!Write(d, f, P!NoEnd) \in Text
         /\ (IF Len(Cut(f, l)) < l THEN P!Write(d, Cut(f, l), l) ELSE Cut(f, l)) =
              Cut(P!Write(d, f, P!NoEnd), l)
<1>. DEFINE e == P!NoEnd
            t == TextOf(d)
            w == P!Write(d, f, e)
            b == Cut(f, l)
<1>1. e \in Nat /\ l <= e
  BY DEF P!NoEnd
<1>2. Len(f) \in Nat
  BY TextLen
<1>3. /\ b \in Text /\ Len(b) = IF l <= Len(f) THEN l ELSE Len(f)
  BY CutIs
<1>4. Writes(d, f, e)
  <2>. HIDE DEF e
  <2>. QED  BY <1>1, WriteIs
<1>5. Writes(d, b, l)
  <2>. HIDE DEF b
  <2>. QED  BY <1>3, WriteIs
<1>. HIDE DEF e, t, b
<1>6. t \in Text /\ (Len(f) < e => w = Cut(f \o t, e))
  BY <1>4 DEF Writes, t
<1>7. PICK u \in Text : w = f \o u
  BY <1>4 DEF Writes, Follows
<1>8. w \in Text
  BY <1>7, Joined
<1>9. CASE Len(b) < l
  <2>1. b = f /\ Len(f) < e
    <3>1. Len(f) < l
      BY <1>2, <1>3, <1>9
    <3>2. b = f
      BY <3>1, <1>2, CutWhole DEF b
    <3>. QED  BY <1>1, <1>2, <3>1, <3>2
  <2>2. P!Write(d, b, l) = Cut(f \o t, l)
    BY <1>5, <1>9, <2>1 DEF Writes, t
  <2>3. f \o t \in Text
    BY <1>6, Joined
  <2>4. Cut(Cut(f \o t, e), l) = Cut(f \o t, l)
    BY <1>1, <2>3, CutTwice
  <2>5. Cut(w, l) = Cut(f \o t, l)
    BY <1>6, <2>1, <2>4
  <2>. QED  BY <1>8, <1>9, <2>2, <2>5 DEF b, w, e
<1>10. CASE ~(Len(b) < l)
  <2>1. l <= Len(f)
    BY <1>2, <1>3, <1>10
  <2>2. Cut(f \o u, l) = Cut(f, l)
    BY <2>1, CutFirst
  <2>. QED  BY <1>7, <1>8, <1>10, <2>2 DEF b, w, e
<1>. QED  BY <1>9, <1>10

LEMMA PrintfStep ==
  ASSUME PrintfInv, [PartsNext]_partsVars
  PROVE  PrintfInv'
<1>1. CASE PrintfRuns
  <2>1. /\ part = "printf" /\ part' = part /\ format' = format /\ last' = last
        /\ next <= Len(format) /\ next' = next + 1
        /\ buf' = (IF Len(buf) < last THEN P!Write(format[next], buf, last) ELSE buf)
        /\ full' = P!Write(format[next], full, P!NoEnd)
    BY <1>1 DEF PrintfRuns, P!Next, P!Round
  <2>2. /\ format \in Formats \cup {<<>>} /\ next \in 1..(Len(format) + 1)
        /\ last \in Rooms \cup {0} /\ full \in Text /\ buf = Cut(full, last)
        /\ next = 1 => full = <<>>
        /\ part = "printf" => format \in Formats /\ last \in Rooms
    BY DEF PrintfInv
  <2>. DEFINE d == format[next]
  <2>3. Len(format) \in Nat /\ next \in 1..Len(format) /\ d \in P!Directives
    <3>1. Len(format) \in Nat
      BY <2>2, FormatsAre
    <3>2. next \in 1..Len(format)
      BY <2>1, <2>2, <3>1
    <3>. QED  BY <2>2, <3>1, <3>2, FormatsAre
  <2>4. last \in Nat /\ last < P!NoEnd
    BY <2>2, RoomsAre
  <2>5. full' \in Text /\ buf' = Cut(full', last)
    <3>. HIDE DEF d
    <3>1. /\ P!Write(d, full, P!NoEnd) \in Text
          /\ (IF Len(Cut(full, last)) < last THEN P!Write(d, Cut(full, last), last)
              ELSE Cut(full, last)) = Cut(P!Write(d, full, P!NoEnd), last)
      BY <2>2, <2>3, <2>4, RoundKeeps
    <3>. QED  BY <2>1, <2>2, <3>1 DEF d
  <2>6. next' \in 1..(Len(format) + 1) /\ next' # 1
    BY <2>1, <2>3
  <2>7. next' = 2 => full' = P!Write(format[1], <<>>, P!NoEnd)
    <3>. SUFFICES ASSUME next' = 2 PROVE full' = P!Write(format[1], <<>>, P!NoEnd)
      OBVIOUS
    <3>1. next = 1
      BY <2>1, <2>3
    <3>. QED  BY <2>1, <2>2, <3>1
  <2>. QED  BY <2>1, <2>2, <2>5, <2>6, <2>7 DEF PrintfInv, Cut
<1>2. CASE UNCHANGED <<part, printfVars>>
  <2>1. /\ part' = part /\ format' = format /\ next' = next /\ last' = last
        /\ buf' = buf /\ full' = full
    BY <1>2 DEF printfVars
  <2>. QED  BY <2>1 DEF PrintfInv, Cut
<1>3. PrintfRuns \/ UNCHANGED <<part, printfVars>>
  BY DEF PartsNext, LogicRuns, CrcRuns, ConfRuns, LogRuns, StartupRuns, partsVars
<1>. QED  BY <1>1, <1>2, <1>3

LEMMA PrintfInductive == PartsSpec => []PrintfInv
<1>1. PartsInit => PrintfInv
  BY PrintfInit
<1>2. PrintfInv /\ [PartsNext]_partsVars => PrintfInv'
  BY PrintfStep
<1>. QED  BY <1>1, <1>2, PTL DEF PartsSpec

\* A single directive has written its text, as there was room for it.
LEMMA AloneIs ==
  ASSUME PrintfInv, NEW kind, P!Alone(kind)
  PROVE  /\ format[1] \in P!Directives /\ format[1].kind = kind
         /\ full = TextOf(format[1]) /\ full \in Text
         /\ kind = "number" => /\ -P!ValuesOf(format[1].size) <= 2 * format[1].arg
                               /\ format[1].arg < P!ValuesOf(format[1].size)
<1>. DEFINE d == format[1]
            e == P!NoEnd
            b == <<>>
            t == TextOf(d)
<1>1. Len(format) = 1 /\ next = 2 /\ d.kind = kind /\ Len(full) < e
  BY DEF P!Alone
<1>2. /\ format \in Formats \cup {<<>>} /\ full \in Text /\ full = P!Write(d, b, e)
  BY <1>1 DEF PrintfInv
<1>3. 1 \in 1..Len(format)
  BY <1>1
<1>4. /\ d \in P!Directives
      /\ d.kind = "number" => /\ -P!ValuesOf(d.size) <= 2 * d.arg
                              /\ d.arg < P!ValuesOf(d.size)
  BY <1>2, <1>3, FormatsAre
<1>5. b \in Text /\ e \in Nat /\ Len(b) < e
  <2>1. b \in Text /\ Len(b) = 0
    BY NoText
  <2>2. e \in Nat /\ 0 < e
    BY DEF P!NoEnd
  <2>. HIDE DEF b, e
  <2>. QED  BY <2>1, <2>2
<1>. HIDE DEF d, e, b
<1>6. Writes(d, b, e)
  BY <1>4, <1>5, WriteIs
<1>7. t \in Text /\ full = Cut(b \o t, e)
  BY <1>2, <1>5, <1>6 DEF Writes
<1>. HIDE DEF t
<1>8. b \o t = t
  BY <1>7, NoText DEF b
<1>9. full = Cut(t, e)
  BY <1>7, <1>8
<1>10. Len(full) = IF e <= Len(t) THEN e ELSE Len(t)
  BY <1>5, <1>7, <1>9, CutIs
<1>11. Len(t) <= e
  BY <1>1, <1>5, <1>10
<1>12. full = t
  BY <1>5, <1>7, <1>9, <1>11, CutWhole
<1>. QED  BY <1>1, <1>2, <1>4, <1>12 DEF d, t

LEMMA PrefixKept ==
  ASSUME PrintfInv
  PROVE  P!PrefixOfFull
BY DEF PrintfInv, P!PrefixOfFull, Cut, P!Copied

\* The sign in front of a number.
LEMMA SignIs ==
  ASSUME NEW t \in Text
  PROVE  /\ Minus(FALSE) \o t = t
         /\ Head(Minus(TRUE) \o t) = "-" /\ Tail(Minus(TRUE) \o t) = t
<1>1. Minus(FALSE) \o t = t
  BY NoText DEF Minus
<1>. DEFINE c == "-"
            s == <<c>>
            u == s \o t
<1>2. c \in Chars
  BY CharsAre
<1>3. Minus(TRUE) = s
  BY DEF Minus
<1>. HIDE DEF c
<1>4. s \in Text /\ Len(s) = 1 /\ s[1] = c
  BY <1>2, OneChar
<1>. HIDE DEF s
<1>5. Len(t) \in Nat
  BY TextLen
<1>6. u \in Text /\ Len(u) = Len(s) + Len(t) /\ u[1] = c
  <2>1. 1 \in 1..Len(s)
    BY <1>4
  <2>. QED  BY <1>4, <2>1, Joined
<1>7. SubSeq(u, Len(s) + 1, Len(u)) = t
  BY <1>4, SecondPiece
<1>. HIDE DEF u
<1>8. u # <<>> /\ SubSeq(u, 2, Len(u)) = t
  <2>1. Len(u) # 0 /\ Len(s) + 1 = 2
    BY <1>4, <1>5, <1>6
  <2>. QED  BY <1>7, <2>1, NoText
<1>9. Head(u) = c /\ Tail(u) = t
  <2>1. Head(u) = u[1]
    OBVIOUS
  <2>2. Tail(u) = SubSeq(u, 2, Len(u))
    <3>1. u \in Seq(Chars)
      BY <1>6 DEF Text
    <3>2. Len(u) \in Nat /\ \A i \in 1..Len(u) : u[i] \in Chars
      BY <1>6, TextLen
    <3>3. /\ Tail(u) \in Seq(Chars) /\ Len(Tail(u)) = Len(u) - 1
          /\ \A i \in 1..Len(Tail(u)) : Tail(u)[i] = u[i + 1]
      BY <1>8, <3>1, HeadTailProperties
    <3>. DEFINE v == SubSeq(u, 1 + 1, 1 + Len(t))
    <3>4. v \in Text /\ Len(v) = Len(t) /\ \A i \in 1..Len(t) : v[i] = u[1 + i]
      <4>. DEFINE m == 1
                  n == Len(t)
      <4>1. m \in Nat /\ n \in Nat /\ m + n <= Len(u)
        BY <1>4, <1>5, <1>6
      <4>. HIDE DEF m, n
      <4>2. /\ SubSeq(u, m + 1, m + n) \in Text /\ Len(SubSeq(u, m + 1, m + n)) = n
            /\ \A i \in 1..n : SubSeq(u, m + 1, m + n)[i] = u[m + i]
        BY <1>6, <4>1, Piece
      <4>. QED  BY <4>2 DEF m, n
    <3>5. v = SubSeq(u, 2, Len(u))
      <4>1. 1 + 1 = 2 /\ 1 + Len(t) = Len(u)
        BY <1>4, <1>5, <1>6
      <4>. QED  BY <4>1
    <3>. HIDE DEF v
    <3>6. Len(Tail(u)) = Len(v)
      BY <1>4, <1>5, <1>6, <3>3, <3>4
    <3>7. ASSUME NEW i \in 1..Len(Tail(u)) PROVE Tail(u)[i] = v[i]
      <4>1. i \in 1..Len(t) /\ i + 1 = 1 + i
        BY <3>4, <3>6
      <4>. QED  BY <3>3, <3>4, <4>1
    <3>8. Tail(u) = v
      BY <3>3, <3>4, <3>6, <3>7, SameText DEF Text
    <3>. QED  BY <3>5, <3>8
  <2>. QED  BY <1>6, <1>8, <2>1, <2>2
<1>. QED  BY <1>1, <1>3, <1>9 DEF u, c

LEMMA NumbersFaithful ==
  ASSUME PrintfInv
  PROVE  P!NumberFaithful
<1>. SUFFICES ASSUME P!Alone("number")
              PROVE  LET d == format[1]
                     IN  IF d.arg < 0 /\ (d.sign \/ d.size = "P")
                         THEN /\ Head(full) = "-"
                              /\ P!Shows(Tail(full), -d.arg, P!Base(d.hex), d.zero, d.width)
                         ELSE P!Shows(full, IF d.arg < 0 THEN P!ValuesOf(d.size) + d.arg
                                            ELSE d.arg, P!Base(d.hex), d.zero, d.width)
  BY DEF P!NumberFaithful
<1>. DEFINE d == format[1]
            n == Magnitude(d)
            zero == d.zero
            hex == d.hex
            width == d.width
            t == NumberText(n, zero, hex, width)
            s == Minus(Negative(d))
<1>1. /\ d \in P!Directives /\ d.kind = "number" /\ full = TextOf(d)
      /\ -P!ValuesOf(d.size) <= 2 * d.arg /\ d.arg < P!ValuesOf(d.size)
  BY AloneIs
<1>2. /\ d.arg \in Int /\ d.sign \in BOOLEAN /\ hex \in 0..2 /\ zero \in P!Pads
      /\ width \in Nat
  BY <1>1, KindsAre
<1>3. full = s \o t
  BY <1>1 DEF TextOf, IntegerText
<1>4. n \in Nat
  BY <1>2, MagnitudesAre
<1>5. /\ P!ValuesOf(d.size) \in Nat \ {0} /\ P!ValuesOf(d.size) <= Uint64Values
      /\ Uint64Values \in Nat \ {0}
  BY TypesAre
<1>6. n = IF d.arg >= 0 THEN d.arg
          ELSE IF Negative(d) THEN -d.arg ELSE P!ValuesOf(d.size) + d.arg
  <2>. DEFINE a == d.arg
              v == P!ValuesOf(d.size)
              w == Uint64Values
  <2>1. a \in Int /\ v \in Nat \ {0} /\ w \in Nat \ {0} /\ v <= w /\ -v <= 2 * a /\ a < v
    BY <1>1, <1>2, <1>5
  <2>2. n = IF Negative(d) THEN ((-a) % w) ELSE (a % v)
    BY DEF Magnitude, P!Unsigned
  <2>3. Negative(d) => a < 0
    BY DEF Negative
  <2>. HIDE DEF a, v, w, n
  <2>4. CASE a >= 0
    <3>1. (a % v) = a
      BY <2>1, <2>4, RemainderIs
    <3>2. ~Negative(d)
      BY <2>1, <2>3, <2>4
    <3>. QED  BY <2>2, <2>4, <3>1, <3>2 DEF a
  <2>5. CASE a < 0 /\ Negative(d)
    <3>. DEFINE m == -a
    <3>1. m \in Int /\ 0 <= m /\ m < w
      BY <2>1, <2>5
    <3>. HIDE DEF m
    <3>2. (m % w) = m
      BY <2>1, <3>1, RemainderIs
    <3>3. n = -a /\ ~(a >= 0)
      BY <2>1, <2>2, <2>5, <3>2 DEF m
    <3>. QED  BY <2>5, <3>3 DEF a
  <2>6. CASE a < 0 /\ ~Negative(d)
    <3>1. (a % v) = a + v
      BY <2>1, <2>6, RemainderIs
    <3>2. n = v + a /\ ~(a >= 0)
      BY <2>1, <2>2, <2>6, <3>1
    <3>. QED  BY <2>6, <3>2 DEF a, v
  <2>. QED  BY <2>1, <2>4, <2>5, <2>6
<1>. HIDE DEF n, zero, hex, width
<1>7. P!Shows(t, n, P!Base(hex), zero, width) /\ t \in Text
  BY <1>2, <1>4, NumberShows, NumberType
<1>. HIDE DEF t, d
<1>8. CASE Negative(d)
  <2>1. s = Minus(TRUE) /\ d.arg < 0 /\ (d.sign \/ d.size = "P")
    BY <1>8 DEF Negative
  <2>2. Head(full) = "-" /\ Tail(full) = t
    BY <1>3, <1>7, <2>1, SignIs
  <2>3. n = -d.arg
    BY <1>2, <1>6, <1>8, <2>1
  <2>. QED  BY <1>7, <2>1, <2>2, <2>3 DEF d, hex, zero, width
<1>9. CASE ~Negative(d)
  <2>1. s = Minus(FALSE) /\ ~(d.arg < 0 /\ (d.sign \/ d.size = "P"))
    BY <1>9 DEF Negative
  <2>2. full = t
    BY <1>3, <1>7, <2>1, SignIs
  <2>3. n = IF d.arg < 0 THEN P!ValuesOf(d.size) + d.arg ELSE d.arg
    BY <1>2, <1>6, <1>9
  <2>. QED  BY <1>7, <2>1, <2>2, <2>3 DEF d, hex, zero, width
<1>. QED  BY <1>8, <1>9

\* The places behind the point, padded with zeros.
LEMMA PlacesAre ==
  ASSUME NEW places \in Nat, NEW fw \in Nat, fw # 0, Unwrapped(fw), places < P!Scale(fw)
  PROVE  LET t == NumberText(places, "0", 0, fw)
         IN  /\ t \in Text /\ Len(t) = fw /\ P!ValueOf(t, 10) = places
             /\ \A i \in DOMAIN t : \E j \in 1..10 : t[i] = P!DigitChars[j]
<1>. DEFINE t == NumberText(places, "0", 0, fw)
            c == "0"
            d == P!Digits(places, 10)
            p == Pad(Len(d), c, fw)
<1>1. t = p \o d
  <2>1. P!Base(0) = 10
    BY DEF P!Base
  <2>. QED  BY <2>1 DEF NumberText
<1>2. 10 \in Bases /\ c \in Chars /\ c = "0"
  BY CharsAre DEF Bases
<1>3. /\ d \in Text /\ Len(d) \in Nat
      /\ \A i \in 1..Len(d) : \E j \in 1..10 : d[i] = P!DigitChars[j]
      /\ P!ValueOf(d, 10) = places
  BY <1>2, DigitsAre
<1>4. Len(d) <= fw
  BY DigitsShort
<1>. HIDE DEF d, c
<1>5. /\ p \in Text /\ Len(p) = IF fw - Len(d) >= 0 THEN fw - Len(d) ELSE 0
      /\ \A i \in 1..Len(p) : p[i] = c
  <2>1. c \in Chars /\ Len(d) \in Nat
    BY <1>2, <1>3
  <2>. QED  BY <2>1, PadType
<1>. HIDE DEF p
<1>6. Len(p) = fw - Len(d) /\ Len(p) \in Nat
  BY <1>3, <1>4, <1>5
<1>7. /\ t \in Text /\ Len(t) = Len(p) + Len(d)
      /\ \A i \in 1..Len(p) : t[i] = p[i]
      /\ \A i \in (Len(p) + 1)..(Len(p) + Len(d)) : t[i] = d[i - Len(p)]
  <2>1. /\ p \o d \in Text /\ Len(p \o d) = Len(p) + Len(d)
        /\ \A i \in 1..Len(p) : (p \o d)[i] = p[i]
        /\ \A i \in (Len(p) + 1)..(Len(p) + Len(d)) : (p \o d)[i] = d[i - Len(p)]
    BY <1>3, <1>5, Joined
  <2>. QED  BY <1>1, <2>1
<1>. HIDE DEF t
<1>8. P!ValueOf(t, 10) = places
  <2>1. DigitText(d)
    <3>1. 1..10 \subseteq 1..16
      OBVIOUS
    <3>. QED  BY <1>3, <3>1 DEF DigitText
  <2>2. \A i \in 1..Len(p) : p[i] = "0"
    BY <1>2, <1>5
  <2>. DEFINE ten == 10
  <2>3. ten \in Nat
    OBVIOUS
  <2>. HIDE DEF ten
  <2>4. P!ValueOf(p \o d, ten) = P!ValueOf(d, ten)
    BY <1>3, <1>5, <2>1, <2>2, <2>3, ValuePadded
  <2>. QED  BY <1>1, <1>3, <2>4 DEF ten
<1>9. ASSUME NEW i \in DOMAIN t PROVE \E j \in 1..10 : t[i] = P!DigitChars[j]
  <2>1. i \in 1..Len(t)
    BY <1>7, TextLen
  <2>2. CASE i <= Len(p)
    <3>1. i \in 1..Len(p)
      BY <1>6, <2>1, <2>2
    <3>2. t[i] = c
      BY <1>5, <1>7, <3>1
    <3>3. P!DigitChars[1] = c /\ 1 \in 1..10
      BY <1>2, CharsAre
    <3>. QED  BY <3>2, <3>3
  <2>3. CASE ~(i <= Len(p))
    <3>1. i \in (Len(p) + 1)..(Len(p) + Len(d)) /\ i - Len(p) \in 1..Len(d)
      BY <1>3, <1>6, <1>7, <2>1, <2>3
    <3>. QED  BY <1>3, <1>7, <3>1
  <2>. QED  BY <2>2, <2>3
<1>10. Len(t) = fw
  BY <1>3, <1>6, <1>7
<1>. QED  BY <1>7, <1>8, <1>9, <1>10 DEF t, c

LEMMA ScaleLess ==
  ASSUME NEW u \in Nat \ {0}, NEW scale \in Nat \ {0}
  PROVE  2 * u * scale \in Nat /\ scale < 2 * u * scale
<1>. DEFINE x == scale * u
            y == scale * 1
<1>1. y <= x
  <2>1. 1 \in Nat /\ 1 <= u
    OBVIOUS
  <2>. QED  BY <2>1, ProductMonotone
<1>2. x \in Nat /\ y = scale /\ 2 * u * scale = 2 * x
  OBVIOUS
<1>. HIDE DEF x, y
<1>. QED  BY <1>1, <1>2

LEMMA FloatsRounded ==
  ASSUME PrintfInv
  PROVE  P!FloatRounded
<1>. SUFFICES ASSUME P!Alone("float"), format[1].arg >= 0, format[1].frac_width > 0,
                     P!Exact(format[1])
              PROVE  LET d == format[1]
                         point == CHOOSE k \in DOMAIN full : full[k] = "."
                         scale == P!Scale(d.frac_width)
                         int == SubSeq(full, 1, point - 1)
                         frac == SubSeq(full, point + 1, Len(full))
                         nearest == (2 * d.arg * scale + Unit) \div (2 * Unit)
                     IN  /\ Len(frac) = d.frac_width
                         /\ \A i \in DOMAIN frac : \E j \in 1..10 : frac[i] = P!DigitChars[j]
                         /\ P!Shows(int, nearest \div scale, 10, d.zero, d.width)
                         /\ P!ValueOf(frac, 10) = nearest % scale
  BY DEF P!FloatRounded
<1>. DEFINE d == format[1]
            f == d.arg
            fw == d.frac_width
            zero == d.zero
            width == d.width
            scale == P!Scale(fw)
            whole == DoubleParts(d)[1]
            places == DoubleParts(d)[2]
            nearest == (2 * f * scale + Unit) \div (2 * Unit)
            wt == NumberText(whole, zero, 0, width)
            pt == NumberText(places, "0", 0, fw)
            dot == <<".">>
<1>1. d \in P!Directives /\ d.kind = "float" /\ full = TextOf(d)
  BY AloneIs
<1>2. /\ f \in Nat /\ fw \in Nat /\ fw # 0 /\ zero \in P!Pads /\ width \in Nat
  <2>1. f \in Int /\ fw \in Nat /\ zero \in P!Pads /\ width \in Nat
    BY <1>1, KindsAre
  <2>2. f >= 0 /\ fw > 0
    OBVIOUS
  <2>. HIDE DEF f, fw, zero, width
  <2>. QED  BY <2>1, <2>2
<1>3. whole \in Nat /\ places \in Nat
  BY <1>2, MagnitudesAre
<1>17. /\ 2 * (f \div Unit) < Uint64Values /\ Unwrapped(fw)
       /\ 2 * Unit * scale <= Uint64Values
  <2>1. /\ 2 * (f \div Unit) < Uint64Values /\ Unwrapped(fw)
        /\ 2 * Unit * scale <= MantissaValues
    BY DEF P!Exact, Unwrapped
  <2>2. MantissaValues \in Nat /\ MantissaValues <= Uint64Values /\ Uint64Values \in Nat
    BY TypesAre
  <2>3. 2 * Unit * scale \in Nat
    <3>1. scale \in Nat /\ 2 * Unit \in Nat
      BY <1>2, ScaleIs, TypesAre
    <3>. HIDE DEF scale
    <3>. QED  BY <3>1
  <2>. DEFINE x == 2 * Unit * scale
  <2>. HIDE DEF x
  <2>4. x <= Uint64Values
    <3>1. x \in Nat /\ x <= MantissaValues
      BY <2>1, <2>3 DEF x
    <3>. QED  BY <2>2, <3>1
  <2>. QED  BY <2>1, <2>4 DEF x
<1>4. /\ whole = nearest \div scale /\ places = nearest % scale /\ places < scale
  <2>. DEFINE frac == (2 * (f % Unit) * scale + Unit) \div (2 * Unit)
              q == f \div Unit
  <2>1. scale \in Nat \ {0} /\ Unit \in Nat \ {0} /\ Uint64Values \in Nat \ {0}
    BY <1>2, <1>17, ScalePositive, TypesAre
  <2>6. q \in Nat /\ f - q * Unit = f % Unit
    <3>1. q \in Nat /\ f % Unit \in Nat /\ f = Unit * q + (f % Unit)
      BY <1>2, <2>1, QuotientOf
    <3>. HIDE DEF q
    <3>. QED  BY <1>2, <2>1, <3>1
  <2>7. P!Int64(q) = q
    BY <1>17, <2>6, Int64Is
  <2>3. /\ frac \in Nat
        /\ frac = scale => nearest \div scale = f \div Unit + 1 /\ nearest % scale = 0
        /\ frac # scale => /\ frac < scale /\ nearest \div scale = f \div Unit
                           /\ nearest % scale = frac
    <3>. HIDE DEF f, scale
    <3>. QED  BY <1>2, <2>1, NearestIs
  <2>8. frac < Uint64Values
    <3>1. frac \in Nat /\ frac <= scale
      <4>. HIDE DEF frac, scale, nearest
      <4>. QED  BY <2>1, <2>3
    <3>. HIDE DEF frac, scale
    <3>2. scale < 2 * Unit * scale
      BY <2>1, ScaleLess
    <3>3. 2 * Unit * scale \in Nat
      BY <2>1, ScaleLess
    <3>. DEFINE x == 2 * Unit * scale
    <3>4. x \in Nat /\ scale < x /\ x <= Uint64Values
      BY <1>17, <3>2, <3>3
    <3>. HIDE DEF x
    <3>. QED  BY <2>1, <3>1, <3>4
  <2>9. P!Fraction(f, P!Int64(q), scale) = frac
    <3>1. P!Fraction(f, q, scale)
            = P!Uint64((2 * (f - q * Unit) * scale + Unit) \div (2 * Unit))
      BY DEF P!Fraction
    <3>2. P!Fraction(f, q, scale) = P!Uint64(frac)
      <4>. HIDE DEF q, f, scale
      <4>. QED  BY <2>6, <3>1
    <3>. HIDE DEF frac, q, f, scale
    <3>. QED  BY <2>7, <2>8, <3>2 DEF P!Uint64
  <2>10. (q + 1) % Uint64Values = q + 1
    <3>1. q + 1 < Uint64Values
      <4>1. 2 * q < Uint64Values /\ 2 <= Uint64Values
        <5>1. 2 * q < Uint64Values
          BY <1>17
        <5>2. scale < 2 * Unit * scale /\ 2 * Unit * scale \in Nat
          <6>. HIDE DEF scale
          <6>. QED  BY <2>1, ScaleLess
        <5>. DEFINE x == 2 * Unit * scale
        <5>3. x \in Nat /\ scale < x /\ x <= Uint64Values
          BY <1>17, <5>2
        <5>. HIDE DEF x, scale
        <5>4. 2 <= Uint64Values
          BY <2>1, <5>3
        <5>. QED  BY <5>1, <5>4
      <4>. HIDE DEF q
      <4>. QED  BY <2>1, <2>6, <4>1
    <3>. HIDE DEF q
    <3>. QED  BY <2>1, <2>6, <3>1, RemainderIs
  <2>2. DoubleParts(d) = IF frac = scale THEN <<q + 1, 0>> ELSE <<q, frac>>
    <3>1. Double(d) = f
      <4>1. ~(f < 0)
        BY <1>2
      <4>. QED  BY <4>1 DEF Double
    <3>2. DoubleParts(d) = P!Rounded(f, scale)
      BY <1>2, <3>1 DEF DoubleParts
    <3>. HIDE DEF f, scale, frac, d
    <3>3. P!Rounded(f, scale) = IF P!Fraction(f, P!Int64(q), scale) = scale
                                THEN <<(P!Int64(q) + 1) % Uint64Values, 0>>
                                ELSE <<P!Int64(q), P!Fraction(f, P!Int64(q), scale)>>
      BY DEF P!Rounded
    <3>. HIDE DEF q
    <3>. QED  BY <2>7, <2>9, <2>10, <3>2, <3>3
  <2>. HIDE DEF frac, scale, nearest, q
  <2>4. CASE frac = scale
    <3>1. whole = q + 1 /\ places = 0
      BY <2>2, <2>4 DEF q
    <3>. QED  BY <2>1, <2>3, <2>4, <3>1 DEF q
  <2>5. CASE frac # scale
    <3>1. whole = q /\ places = frac
      BY <2>2, <2>5 DEF q
    <3>. QED  BY <2>3, <2>5, <3>1 DEF q
  <2>. QED  BY <2>4, <2>5
<1>5. full = (wt \o dot) \o pt
  <2>1. full = (WholeText(d) \o dot) \o PlacesText(d)
    BY <1>1, <1>2 DEF TextOf, FloatText
  <2>2. PlacesText(d) = pt
    BY DEF PlacesText
  <2>3. WholeText(d) = Minus(FALSE) \o wt
    <3>1. (d.arg < 0) = FALSE
      BY <1>2
    <3>. HIDE DEF d
    <3>. QED  BY <3>1 DEF WholeText, whole, wt, zero, width
  <2>4. wt \in Text
    <3>1. 0 \in 0..2
      OBVIOUS
    <3>. HIDE DEF whole, zero, width
    <3>. QED  BY <1>2, <1>3, <3>1, NumberType
  <2>5. Minus(FALSE) \o wt = wt
    <3>. HIDE DEF wt
    <3>. QED  BY <2>4, SignIs
  <2>. QED  BY <2>1, <2>2, <2>3, <2>5
<1>. HIDE DEF f, fw, zero, width, whole, places, scale
<1>6. /\ wt \in Text /\ P!Shows(wt, whole, 10, zero, width)
      /\ \A i \in 1..Len(wt) : wt[i] # "."
  <2>. DEFINE dec == 0
  <2>1. dec \in 0..2 /\ P!Base(dec) = 10
    BY DEF P!Base
  <2>. HIDE DEF dec
  <2>. DEFINE w == NumberText(whole, zero, dec, width)
  <2>2. w \in Text /\ P!Shows(w, whole, P!Base(dec), zero, width)
    BY <1>2, <1>3, <2>1, NumberType, NumberShows
  <2>3. \A i \in 1..Len(w) : w[i] # "."
    BY <1>2, <1>3, <2>1, NoPoint
  <2>4. w = wt
    BY DEF dec
  <2>. HIDE DEF w, wt
  <2>. QED  BY <2>1, <2>2, <2>3, <2>4
<1>7. /\ pt \in Text /\ Len(pt) = fw /\ P!ValueOf(pt, 10) = places
      /\ \A i \in DOMAIN pt : \E j \in 1..10 : pt[i] = P!DigitChars[j]
  <2>1. places < P!Scale(fw)
    BY <1>4 DEF scale
  <2>. QED  BY <1>2, <1>3, <1>17, <2>1, PlacesAre
<1>8. dot \in Text /\ Len(dot) = 1 /\ dot[1] = "."
  <2>. DEFINE c == "."
  <2>1. c \in Chars
    BY CharsAre
  <2>. HIDE DEF c
  <2>2. <<c>> \in Text /\ Len(<<c>>) = 1 /\ <<c>>[1] = c
    BY <2>1, OneChar
  <2>. QED  BY <2>2 DEF c
<1>. HIDE DEF wt, pt, dot
<1>. DEFINE a == wt \o dot
            m == Len(wt) + 1
            point == CHOOSE k \in DOMAIN full : full[k] = "."
<1>9. Len(wt) \in Nat /\ Len(pt) \in Nat
  BY <1>6, <1>7, TextLen
<1>10. /\ a \in Text /\ Len(a) = m /\ a[m] = "." /\ m \in 1..m
       /\ \A i \in 1..Len(wt) : a[i] = wt[i]
  <2>1. /\ a \in Text /\ Len(a) = Len(wt) + Len(dot) /\ \A i \in 1..Len(wt) : a[i] = wt[i]
        /\ \A i \in 1..Len(dot) : a[Len(wt) + i] = dot[i]
    BY <1>6, <1>8, Joined
  <2>2. 1 \in 1..Len(dot) /\ m \in 1..m
    BY <1>8, <1>9
  <2>. HIDE DEF a
  <2>3. a[Len(wt) + 1] = dot[1]
    BY <2>1, <2>2
  <2>. QED  BY <1>8, <2>1, <2>2, <2>3
<1>11. SubSeq(a, 1, Len(wt)) = wt
  BY <1>6, <1>8, FirstPiece
<1>. HIDE DEF a
<1>12. /\ full \in Text /\ Len(full) = m + Len(pt)
       /\ \A i \in 1..m : full[i] = a[i]
       /\ \A i \in (m + 1)..(m + Len(pt)) : full[i] = pt[i - m]
  <2>1. /\ a \o pt \in Text /\ Len(a \o pt) = Len(a) + Len(pt)
        /\ \A i \in 1..Len(a) : (a \o pt)[i] = a[i]
        /\ \A i \in (Len(a) + 1)..(Len(a) + Len(pt)) : (a \o pt)[i] = pt[i - Len(a)]
    BY <1>7, <1>10, Joined
  <2>. HIDE DEF m
  <2>. QED  BY <1>5, <1>10, <2>1 DEF a
<1>13. point = m
  <2>1. DOMAIN full = 1..(m + Len(pt)) /\ m \in DOMAIN full /\ full[m] = "."
    <3>1. DOMAIN full = 1..Len(full)
      BY <1>12, TextLen
    <3>. QED  BY <1>9, <1>10, <1>12, <3>1
  <2>2. ASSUME NEW k \in DOMAIN full, full[k] = "." PROVE k = m
    <3>1. CASE k < m
      <4>1. k \in 1..Len(wt) /\ k \in 1..m
        BY <1>9, <2>1, <3>1
      <4>. QED  BY <1>6, <1>10, <1>12, <2>2, <4>1
    <3>2. CASE k > m
      <4>1. k \in (m + 1)..(m + Len(pt)) /\ k - m \in 1..Len(pt)
        BY <1>9, <2>1, <3>2
      <4>2. full[k] = pt[k - m] /\ k - m \in DOMAIN pt
        BY <1>7, <1>12, <4>1, TextLen
      <4>3. PICK j \in 1..10 : pt[k - m] = P!DigitChars[j]
        BY <1>7, <4>2
      <4>4. j \in 1..16
        BY <4>3
      <4>. QED  BY <2>2, <4>2, <4>3, <4>4, CharsAre
    <3>. QED  BY <1>9, <2>1, <3>1, <3>2
  <2>. HIDE DEF m
  <2>. QED  BY <2>1, <2>2
<1>. HIDE DEF point
<1>14. SubSeq(full, 1, point - 1) = wt
  <2>1. point - 1 = Len(wt)
    BY <1>9, <1>13
  <2>2. dot \o pt \in Text /\ full = wt \o (dot \o pt)
    BY <1>5, <1>6, <1>7, <1>8, Joined, JoinedTwice
  <2>. DEFINE r == dot \o pt
  <2>. HIDE DEF r
  <2>3. r \in Text /\ full = wt \o r
    BY <2>2 DEF r
  <2>4. SubSeq(wt \o r, 1, Len(wt)) = wt
    BY <1>6, <2>3, FirstPiece
  <2>. QED  BY <2>1, <2>3, <2>4
<1>15. SubSeq(full, point + 1, Len(full)) = pt
  <2>1. SubSeq(a \o pt, Len(a) + 1, Len(a \o pt)) = pt
    BY <1>7, <1>10, SecondPiece
  <2>2. full = a \o pt
    BY <1>5 DEF a
  <2>. QED  BY <1>10, <1>13, <2>1, <2>2
<1>. HIDE DEF nearest
<1>16. /\ Len(pt) = fw /\ P!ValueOf(pt, 10) = nearest % scale
       /\ \A i \in DOMAIN pt : \E j \in 1..10 : pt[i] = P!DigitChars[j]
       /\ P!Shows(wt, nearest \div scale, 10, zero, width)
  BY <1>4, <1>6, <1>7
<1>. QED  BY <1>14, <1>15, <1>16 DEF point, nearest, f, fw, zero, width, scale

LEMMA FormattingTypes == PrintfInv /\ part = "printf" => P!TypeOK
<1>. SUFFICES ASSUME PrintfInv, part = "printf" PROVE P!TypeOK
  OBVIOUS
<1>1. last \in Nat
  BY RoomsAre DEF PrintfInv
<1>2. full \in Text /\ buf \in Text
  BY <1>1, CutIs DEF PrintfInv
<1>. QED  BY <1>2 DEF PrintfInv, P!TypeOK, Text

\* For any formats and arguments and a buffer that ends anywhere, ngx_vslprintf
\* writes what there is room for of the whole text; a number can be read back from
\* what is written for it, and a double whose integer part and places fit the types
\* is rounded to the nearest.
THEOREM FormattingsRight == PartsSpec => []FormattingRight
<1>1. PrintfInv => FormattingRight
  BY PrefixKept, NumbersFaithful, FloatsRounded, FormattingTypes DEF FormattingRight
<1>. QED  BY <1>1, PrintfInductive, PTL
=============================================================================
