------------------------------- MODULE Crc32 -------------------------------
(***************************************************************************)
(* The checksum of packet bodies (misc/ngx_c_crc32.cxx).  Get_CRC works    *)
(* with a table of 256 words on bytes whose lowest bit comes first;        *)
(* threadRecvProcFunc drops a packet whose body has another CRC than the   *)
(* one in its header.                                                      *)
(*                                                                         *)
(* An unsigned int is the set of the positions of its 1 bits, bit 0 being  *)
(* the lowest, so that words have all their 32 bits.  The state machine is *)
(* the loop of Get_CRC, run at once over a body as it was sent and over    *)
(* the same body as it was received.                                       *)
(***************************************************************************)
EXTENDS Naturals, Sequences, SequencesExt

CONSTANTS
  Bytes,     \* the bytes bodies are made of
  Errors,    \* what may be added, bit by bit, to a byte on its way
  MaxLen     \* bound on the length of a body

Bits == 0..31
Word == SUBSET Bits
Byte == SUBSET (0..7)

\* What the constants have to be.
Crc32Assumption ==
  Bytes \subseteq Byte /\ Errors \subseteq Byte /\ MaxLen \in Nat

Ones == Bits                              \* 0xffffffff
Low8(word) == word \cap (0..7)            \* word & 0xFF
Xor(a, b) == (a \ b) \cup (b \ a)
ShiftRight(word, n) == {i - n : i \in word \ (0..(n - 1))}
ShiftLeft(word, n) == {i + n : i \in word} \cap Bits

-----------------------------------------------------------------------------
\* The lowest ch bits of ref, in reverse order.
Reflect(ref, ch) == {ch - 1 - i : i \in ref \cap (0..(ch - 1))}

\* 0x04c11db7
ulPolynomial == {26, 23, 22, 16, 12, 11, 10, 8, 7, 5, 4, 2, 1, 0}

\* Mutant of Divide: the highest bit is tested after the shift.
DivideShifted(word) ==
  LET shifted == ShiftLeft(word, 1)
  IN  Xor(shifted, IF 31 \in shifted THEN ulPolynomial ELSE {})

\* One round of division by the polynomial: the loop over j.
Divide(word) ==
  Xor(ShiftLeft(word, 1), IF 31 \in word THEN ulPolynomial ELSE {})

\* The values of crc32_table[byte] before each round and after the last.
Rounds(word) ==
  LET round[j \in 0..8] == IF j = 0 THEN word ELSE Divide(round[j - 1])
  IN  round

crc32_table ==
  [byte \in Byte |-> Reflect(Rounds(ShiftLeft(Reflect(byte, 8), 24))[8], 32)]

\* The body of the loop of Get_CRC, and what the function returns.
Update(crc, byte) == Xor(ShiftRight(crc, 8), crc32_table[Xor(Low8(crc), byte)])
Result(crc) == Xor(crc, Ones)
Get_CRC(buffer) == Result(FoldLeft(Update, Ones, buffer))

-----------------------------------------------------------------------------
VARIABLES
  body,          \* the bytes that were sent
  errors,        \* what was added to each of them on the way
  crc,           \* Get_CRC's variable in the sender
  receivedCrc    \* ... and in threadRecvProcFunc

vars == <<body, errors, crc, receivedCrc>>

Init == body = <<>> /\ errors = <<>> /\ crc = Ones /\ receivedCrc = Ones

NextByte(byte, error) ==
  /\ Len(body) < MaxLen
  /\ body' = Append(body, byte)
  /\ errors' = Append(errors, error)
  /\ crc' = Update(crc, byte)
  /\ receivedCrc' = Update(receivedCrc, Xor(byte, error))

Next == \E byte \in Bytes, error \in Errors : NextByte(byte, error)

Spec == Init /\ [][Next]_vars
-----------------------------------------------------------------------------
(* Correctness *)

\* Every value fits an unsigned int: shifts to the left drop the bits that
\* leave the word.
TypeOK ==
  /\ body \in Seq(Bytes) /\ errors \in Seq(Errors)
  /\ crc \in Word /\ receivedCrc \in Word

\* The division of the message polynomial, bit by bit, without a table: bit k
\* of the message, the bits of a byte from the lowest; what a bit makes of the
\* remainder; and the remainders of the first k bits, beginning with ones.
MessageBit(bytes, k) == (k % 8) \in bytes[1 + k \div 8]

DivideBit(word, bit) ==
  IF (31 \in word) = bit THEN ShiftLeft(word, 1)
  ELSE Xor(ShiftLeft(word, 1), ulPolynomial)

Remainders(bytes) ==
  LET register[k \in 0..(8 * Len(bytes))] ==
        IF k = 0 THEN Ones ELSE DivideBit(register[k - 1], MessageBit(bytes, k - 1))
  IN  register

\* The remainder of the message is reflected and complemented in the end.
Reverse32(word) == {31 - i : i \in word}
Remainder(bytes) == Xor(Reverse32(Remainders(bytes)[8 * Len(bytes)]), Ones)

\* The CRC-32 of "abc", that is 0x61, 0x62 and 0x63, is 0x352441c2.
CheckValue ==
  Remainder(<<{0, 5, 6}, {1, 5, 6}, {0, 1, 5, 6}>>) =
    {29, 28, 26, 24, 21, 18, 14, 8, 7, 6, 1}

\* Get_CRC, with its table and its reflections, computes the remainder of the
\* division by the polynomial: the CRC-32 that clients compute.
CrcIsRemainder ==
  /\ Result(crc) = Remainder(body)
  /\ body = <<>> => CheckValue

\* The bits that differ, counted in the order in which they are divided.
Damage == UNION {{8 * (k - 1) + i : i \in errors[k]} : k \in DOMAIN errors}

\* A body that is damaged within 32 consecutive bits has another CRC, so that
\* threadRecvProcFunc (logic/ngx_c_slogic.cxx:99) drops the packet.
BurstDetected ==
  (Damage # {} /\ \A i, j \in Damage : i < j + 32) =>
    Result(receivedCrc) # Result(crc)
=============================================================================
