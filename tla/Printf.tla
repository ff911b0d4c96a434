------------------------------- MODULE Printf -------------------------------
(***************************************************************************)
(* ngx_vslprintf and ngx_sprintf_num (app/ngx_printf.cxx), on which every  *)
(* log line and the process titles rest.  A format is a sequence of        *)
(* directives, as the switches of ngx_vslprintf leave them; a step is one  *)
(* round of its loop.  Every format is run twice at once: into a buffer    *)
(* that ends at last, and into one without end (ngx_log_error_core takes   *)
(* the highest address as last for the time of day).                       *)
(*                                                                         *)
(* Types may be narrow: the values of an unsigned int are the numbers      *)
(* below UintValues, those of a uint64_t and of a uintptr_t the numbers    *)
(* below Uint64Values.  A double is a multiple of 1 / Unit, and the        *)
(* arithmetic of doubles is that of numbers: so it is as far as integers   *)
(* below MantissaValues suffice for it, and no property rests on more.     *)
(***************************************************************************)
EXTENDS Integers, Sequences, SequencesExt

CONSTANTS
  Chars,       \* the characters that are written
  Formats,     \* the formats, with their arguments
  Rooms,       \* the possible values of last - buf
  UintValues, Uint64Values,
  PointerLen,  \* 2 * sizeof(void *)
  Unit, MantissaValues

NoEnd == 1000                               \* more than there is in any buffer

DigitChars == <<"0", "1", "2", "3", "4", "5", "6", "7", "8", "9",
                "a", "b", "c", "d", "e", "f">>
Pads == {" ", "0"}                          \* the values of zero

ValuesOf(size) == IF size \in {"d", "P"} THEN UintValues ELSE Uint64Values

\* A directive with its argument.  A signed argument that is negative is passed
\* as it is, an unsigned one may be.
Directives ==
  [kind : {"char"}, char : Chars]
    \cup [kind : {"string"}, string : Seq(Chars)]
    \cup [kind : {"number"}, arg : Int, size : {"d", "i", "L", "P"}, sign : BOOLEAN,
          hex : 0..2, zero : Pads, width : Nat]
    \cup [kind : {"pointer"}, arg : Nat]
    \cup [kind : {"float"}, arg : Int, frac_width : Nat, zero : Pads, width : Nat]

\* What the constants have to be: an argument is in the range of its type.
PrintfAssumption ==
  /\ UintValues \in Nat \ {0} /\ Uint64Values \in Nat /\ UintValues <= Uint64Values
  /\ PointerLen \in Nat /\ Unit \in Nat \ {0}
  /\ MantissaValues \in Nat /\ MantissaValues <= Uint64Values
  /\ {DigitChars[k] : k \in 1..16} \cup Pads \cup {"-", "."} \subseteq Chars
  /\ \A f \in Formats :
       /\ f \in Seq(Directives)
       /\ \A k \in DOMAIN f :
            /\ f[k].kind = "number" =>
                 -ValuesOf(f[k].size) <= 2 * f[k].arg /\ f[k].arg < ValuesOf(f[k].size)
            /\ f[k].kind = "pointer" => f[k].arg < Uint64Values
  /\ Rooms \subseteq 0..(NoEnd - 1)

VARIABLES format, next, last, buf, full
vars == <<format, next, last, buf, full>>

Init ==
  /\ format \in Formats /\ last \in Rooms
  /\ next = 1 /\ buf = <<>> /\ full = <<>>
-----------------------------------------------------------------------------
(* ngx_sprintf_num *)

Base(hexadecimal) == IF hexadecimal = 0 THEN 10 ELSE 16

\* The characters in temp, from p.
Digits(n, base) ==
  LET digits[k \in 0..n] ==
        IF k < base THEN <<DigitChars[k + 1]>>
        ELSE Append(digits[k \div base], DigitChars[(k % base) + 1])
  IN  digits[n]

Repeat(c, n) == [k \in 1..n |-> c]
AtMost(a, b) == IF a <= b THEN a ELSE b

\* Mutants of Copied: the room is not looked at; the last digits are copied, as
\* if the number were cut on the left.
CopiedAll(digits, room) == digits
CopiedEnd(digits, room) == SubSeq(digits, Len(digits) - AtMost(room, Len(digits)) + 1, Len(digits))

\* What ngx_cpymem copies of the digits.
Copied(digits, room) == SubSeq(digits, 1, AtMost(room, Len(digits)))

Padding(len, width, room) == AtMost(width - len, room)

ngx_sprintf_num(b, end, ui64, zero, hexadecimal, width) ==
  LET digits == Digits(ui64, Base(hexadecimal))
      padded == b \o Repeat(zero, Padding(Len(digits), width, end - Len(b)))
  IN  padded \o Copied(digits, end - Len(padded))
-----------------------------------------------------------------------------
(* ngx_vslprintf *)

\* Mutant of Unsigned: an int is extended with its sign, as int64_t.
UnsignedExtended(v, values) == v % Uint64Values

\* What va_arg makes of an argument of an unsigned type with so many values.
Unsigned(v, values) == v % values

\* %d, %i, %L and %P, with or without u, x and X.
WriteNumber(d, b, end) ==
  LET signed == d.sign \/ d.size = "P"
      minus == signed /\ d.arg < 0
      ui64 == IF minus THEN Unsigned(-d.arg, Uint64Values)
              ELSE Unsigned(d.arg, ValuesOf(d.size))
  IN  ngx_sprintf_num(IF minus THEN Append(b, "-") ELSE b, end, ui64, d.zero, d.hex, d.width)

\* %p
WritePointer(d, b, end) == ngx_sprintf_num(b, end, d.arg, "0", 2, PointerLen)

\* (int64_t) and (uint64_t) of a double whose integer part is n.  Beyond the
\* range the code leaves it to the machine: this is what x86-64 answers.
Int64(n) == IF 2 * n < Uint64Values THEN n ELSE Uint64Values \div 2
Uint64(n) == IF n < Uint64Values THEN n ELSE 0

\* frac, half a unit added and cut off.
Fraction(f, ui64, scale) ==
  Uint64((2 * (f - ui64 * Unit) * scale + Unit) \div (2 * Unit))

\* Mutant of Rounded: a fraction that is rounded up to 1 is not carried.
RoundedNoCarry(f, scale) ==
  LET ui64 == Int64(f \div Unit)
  IN  <<ui64, Fraction(f, ui64, scale)>>

\* ui64 and frac: the fraction is rounded to the nearest, and may become 1.
Rounded(f, scale) ==
  LET ui64 == Int64(f \div Unit)
      frac == Fraction(f, ui64, scale)
  IN  IF frac = scale THEN <<(ui64 + 1) % Uint64Values, 0>> ELSE <<ui64, frac>>

\* scale after the loop that multiplies it by 10, as an uintptr_t.
Scale(n) ==
  LET scale[k \in 0..n] == IF k = 0 THEN 1 ELSE (10 * scale[k - 1]) % Uint64Values
  IN  scale[n]

\* %f, which cuts the fraction off if no number of places is given.
WriteFloat(d, b, end) ==
  LET f == IF d.arg < 0 THEN -d.arg ELSE d.arg
      parts == IF d.frac_width = 0 THEN <<Int64(f \div Unit), 0>>
               ELSE Rounded(f, Scale(d.frac_width))
      sign == IF d.arg < 0 THEN Append(b, "-") ELSE b
      int == ngx_sprintf_num(sign, end, parts[1], d.zero, 0, d.width)
      point == IF Len(int) < end THEN Append(int, ".") ELSE int
  IN  IF d.frac_width = 0 THEN int
      ELSE ngx_sprintf_num(point, end, parts[2], "0", 0, d.frac_width)

\* A character of the format, %%, or % before anything unknown.
WriteChar(d, b, end) == Append(b, d.char)

\* %s
WriteString(d, b, end) == b \o SubSeq(d.string, 1, AtMost(end - Len(b), Len(d.string)))

Write(d, b, end) ==
  CASE d.kind = "char" -> WriteChar(d, b, end)
    [] d.kind = "string" -> WriteString(d, b, end)
    [] d.kind = "number" -> WriteNumber(d, b, end)
    [] d.kind = "pointer" -> WritePointer(d, b, end)
    [] d.kind = "float" -> WriteFloat(d, b, end)

Round ==
  /\ next <= Len(format)
  /\ next' = next + 1
  /\ buf' = IF Len(buf) < last THEN Write(format[next], buf, last) ELSE buf
  /\ full' = Write(format[next], full, NoEnd)
  /\ UNCHANGED <<format, last>>

Next == Round
Spec == Init /\ [][Next]_vars
-----------------------------------------------------------------------------
(* Correctness *)

TypeOK ==
  /\ format \in Formats /\ next \in 1..(Len(format) + 1)
  /\ last \in Rooms /\ buf \in Seq(Chars) /\ full \in Seq(Chars)

\* A text that has no room is cut off at the end: what is there is what would be
\* there with room, in numbers and padding too.  Nothing is written at last or
\* after it, although single characters are written without a test
\* (ngx_printf.cxx:105, 170, 210, 218, 232).
PrefixOfFull == buf = SubSeq(full, 1, AtMost(last, Len(full)))

\* The number that a sequence of digits denotes.
DigitValue(c) == CHOOSE k \in 0..15 : DigitChars[k + 1] = c
ValueOf(digits, base) ==
  LET value[k \in 0..Len(digits)] ==
        IF k = 0 THEN 0 ELSE base * value[k - 1] + DigitValue(digits[k])
  IN  value[Len(digits)]

\* text is a number without needless zeros, padded to width.
Shows(text, n, base, zero, width) ==
  \E k \in 0..(Len(text) - 1) :
    LET digits == SubSeq(text, k + 1, Len(text))
    IN  /\ \A i \in 1..k : text[i] = zero
        /\ k > 0 => Len(text) = width
        /\ k = 0 => Len(text) >= width
        /\ \A i \in DOMAIN digits : \E j \in 1..base : digits[i] = DigitChars[j]
        /\ ValueOf(digits, base) = n
        /\ digits[1] = "0" => Len(digits) = 1

\* One directive of this kind has been written, with room for all of it.
Alone(kind) ==
  Len(format) = 1 /\ next = 2 /\ format[1].kind = kind /\ Len(full) < NoEnd

\* A number can be read back from what is written for it: its digits are those
\* of the argument, or of its two's complement where u, x or X is given, and the
\* width counts digits and padding but no sign.
NumberFaithful ==
  Alone("number") =>
    LET d == format[1]
    IN  IF d.arg < 0 /\ (d.sign \/ d.size = "P")
          THEN Head(full) = "-" /\ Shows(Tail(full), -d.arg, Base(d.hex), d.zero, d.width)
          ELSE Shows(full, IF d.arg < 0 THEN ValuesOf(d.size) + d.arg ELSE d.arg,
                     Base(d.hex), d.zero, d.width)

\* The integer part is an int64_t, no multiplication of scale has wrapped, and
\* the arithmetic is done exactly on doubles.
Exact(d) ==
  /\ 2 * (d.arg \div Unit) < Uint64Values
  /\ \A k \in 1..d.frac_width : Scale(k) = 10 * Scale(k - 1)
  /\ 2 * Unit * Scale(d.frac_width) <= MantissaValues

\* A double is written rounded to the nearest number with as many places, as far
\* as its integer part and its places fit the types (ngx_printf.cxx:174, 183, 186).
FloatRounded ==
  (Alone("float") /\ format[1].arg >= 0 /\ format[1].frac_width > 0 /\ Exact(format[1])) =>
    LET d == format[1]
        point == CHOOSE k \in DOMAIN full : full[k] = "."
        scale == Scale(d.frac_width)
        int == SubSeq(full, 1, point - 1)
        frac == SubSeq(full, point + 1, Len(full))
        nearest == (2 * d.arg * scale + Unit) \div (2 * Unit)
    IN  /\ Len(frac) = d.frac_width
        /\ \A i \in DOMAIN frac : \E j \in 1..10 : frac[i] = DigitChars[j]
        /\ Shows(int, nearest \div scale, 10, d.zero, d.width)
        /\ ValueOf(frac, 10) = nearest % scale
=============================================================================
