--------------------------- MODULE Base64Decoder ---------------------------
(***************************************************************************)
(* util::Base64Decode (src/util.cpp), on any text: characters outside the  *)
(* alphabet are skipped wherever they are.                                 *)
(***************************************************************************)
EXTENDS Integers, Sequences

CONSTANT Texts  \* the inputs considered: the values of their characters
                \* in the alphabet, negative for one that is not in it

ASSUME TextsAssumption == Texts \subseteq Seq(-4..63)

\* The characters of s that are not among those left out, in order.
Without(s, out) ==
  LET kept[n \in 0..Len(s)] ==
        IF n = 0 THEN << >>
        ELSE IF s[n] \in out THEN kept[n - 1] ELSE Append(kept[n - 1], s[n])
  IN  kept[Len(s)]

VARIABLES
  text,      \* the input
  pos,       \* how much of it has been read
  bits,      \* the bits read and not yet written
  bitCount,  \* how many they are
  decoded,   \* the bytes written: out is its length
  decoding   \* is the function still running?

dvars == <<text, pos, bits, bitCount, decoded, decoding>>

\* Variant: rounded down.
MaxDecodedSizeDown(size) == 3 * (size \div 4)
MaxDecodedSize(size) == 3 * ((size + 3) \div 4)

DecodeStart(t) ==
  /\ text = t
  /\ pos = 0
  /\ bits = 0
  /\ bitCount = 0
  /\ decoded = << >>
  /\ decoding = TRUE

DecInit == \E t \in Texts : DecodeStart(t)

\* data[out++] = bits keeps the low eight bits.
LowByte(b) == b % 256

Skip ==
  /\ decoding
  /\ pos < Len(text)
  /\ text[pos + 1] < 0
  /\ pos' = pos + 1
  /\ UNCHANGED <<text, bits, bitCount, decoded, decoding>>

\* The bits after a character of the alphabet: bits << 6 | value.
MoreBits == bits * 64 + text[pos + 1]

\* Six more bits ...
Accumulate ==
  /\ decoding
  /\ pos < Len(text)
  /\ text[pos + 1] >= 0
  /\ bitCount < 18
  /\ bits' = MoreBits
  /\ bitCount' = bitCount + 6
  /\ pos' = pos + 1
  /\ UNCHANGED <<text, decoded, decoding>>

\* ... and three bytes at every fourth character.
ThreeBytes(b) == <<LowByte(b \div (256 * 256)), LowByte(b \div 256), LowByte(b)>>

\* Variant: the bits that were written stay pending.
WriteThreeKeepsBits ==
  /\ decoding
  /\ pos < Len(text)
  /\ text[pos + 1] >= 0
  /\ bitCount = 18
  /\ decoded' = decoded \o ThreeBytes(MoreBits)
  /\ bits' = MoreBits
  /\ bitCount' = 0
  /\ pos' = pos + 1
  /\ UNCHANGED <<text, decoding>>

WriteThree ==
  /\ decoding
  /\ pos < Len(text)
  /\ text[pos + 1] >= 0
  /\ bitCount = 18
  /\ decoded' = decoded \o ThreeBytes(MoreBits)
  /\ bits' = 0
  /\ bitCount' = 0
  /\ pos' = pos + 1
  /\ UNCHANGED <<text, decoding>>

\* Variant: the two bytes of three characters are written in the wrong order.
LastBytesSwapped ==
  IF bitCount = 18 THEN <<LowByte(bits \div 4), LowByte(bits \div (4 * 256))>>
  ELSE IF bitCount = 12 THEN <<LowByte(bits \div 16)>>
  ELSE << >>

\* bits >> (bitCount % 8), one or two bytes of it; a single character is lost.
LastBytes ==
  IF bitCount = 18 THEN <<LowByte(bits \div (4 * 256)), LowByte(bits \div 4)>>
  ELSE IF bitCount = 12 THEN <<LowByte(bits \div 16)>>
  ELSE << >>

Finish ==
  /\ decoding
  /\ pos = Len(text)
  /\ decoded' = decoded \o LastBytes
  /\ decoding' = FALSE
  /\ UNCHANGED <<text, pos, bits, bitCount>>

DecNext == Skip \/ Accumulate \/ WriteThree \/ Finish

DecSpec == DecInit /\ [][DecNext]_dvars

-----------------------------------------------------------------------------
\* The pending bits fit in the uint32_t with six more, so no shift loses any
\* (util.cpp:172).
PendingBits ==
  \/ bitCount = 0 /\ bits = 0
  \/ bitCount = 6 /\ bits < 64
  \/ bitCount = 12 /\ bits < 64 * 64
  \/ bitCount = 18 /\ bits < 64 * 64 * 64

DecTypeOK ==
  /\ text \in Seq(-4..63)
  /\ pos \in 0..Len(text)
  /\ bits \in Nat
  /\ PendingBits
  /\ decoded \in Seq(0..255)
  /\ decoding \in BOOLEAN

\* Whatever the text, nothing is written past the end of the buffer, which is
\* sized from the length of the text: assert(data.size() >= out)
\* (util.cpp:161-163, 193).
DecodeFits == Len(decoded) <= MaxDecodedSize(Len(text))

\* The six bits of each character of the alphabet, the highest first, are a
\* stream of bits: bit i of it, and the whole bytes in it.
Alphabet(t) == Without(t, -4..-1)
Bit(a, i) == (a[(i \div 6) + 1] \div <<32, 16, 8, 4, 2, 1>>[(i % 6) + 1]) % 2
Byte(a, k) ==
  LET b(j) == Bit(a, 8 * (k - 1) + j)
  IN  128 * b(0) + 64 * b(1) + 32 * b(2) + 16 * b(3) + 8 * b(4) + 4 * b(5) + 2 * b(6) + b(7)
WholeBytes(a) == [k \in 1..((6 * Len(a)) \div 8) |-> Byte(a, k)]

\* Decoding yields exactly the whole bytes of the bit stream the alphabet
\* characters spell, wherever other characters are mixed in: layout, padding
\* and a truncated last group change nothing else (util.cpp:169-191).
DecodeMatchesBits == ~decoding => decoded = WholeBytes(Alphabet(text))
=============================================================================
