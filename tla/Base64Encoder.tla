--------------------------- MODULE Base64Encoder ---------------------------
(***************************************************************************)
(* util::Base64Encode (src/util.cpp).  The function computes the size of   *)
(* the result first and then fills it in, so the two must agree.  A        *)
(* character is its value in the alphabet, 0..63, or one of the negative   *)
(* numbers below.                                                          *)
(***************************************************************************)
EXTENDS Integers, Sequences

CONSTANTS
  LineLength,   \* 76 in the code
  Data          \* the inputs considered

ASSUME LineLengthAssumption ==
  LineLength \in Nat /\ LineLength > 0 /\ LineLength % 4 = 0
ASSUME DataAssumption == Data \subseteq Seq(0..255)

PAD == -1
CR == -2
LF == -3
NUL == -4
Character == 0..63 \cup {PAD, CR, LF, NUL}

VARIABLES
  data,      \* the input
  in,        \* how much of it has been encoded
  wrap,      \* the characters left on this line
  str,       \* the characters written: out is its length
  encoding   \* is the function still running?

evars == <<data, in, wrap, str, encoding>>

EncodedSize(size) == 4 * ((size + 2) \div 3)

\* The size of the result, computed before anything is written.
StrSize(size) ==
  IF size = 0 THEN 0
  ELSE EncodedSize(size) + 2 * ((EncodedSize(size) - 1) \div LineLength)

\* Base64Char0 .. Base64Char3: the bits of a left shift and of a right shift
\* do not overlap, so their or is a sum.
Base64Char0(b0) == b0 \div 4
\* Variant: the shift of the low bits is one short.
Base64Char1Short(b0, b1) == (b0 * 16 + b1 \div 8) % 64
Base64Char1(b0, b1) == (b0 * 16 + b1 \div 16) % 64
Base64Char2(b1, b2) == (b1 * 4 + b2 \div 64) % 64
Base64Char3(b2) == b2 % 64

EncInit ==
  /\ data \in Data
  /\ in = 0
  /\ wrap = LineLength
  /\ str = << >>
  /\ encoding = (data # << >>)

Group(b0, b1, b2) ==
  <<Base64Char0(b0), Base64Char1(b0, b1), Base64Char2(b1, b2), Base64Char3(b2)>>

\* Variant: the line is broken one group early.
EncodeGroupEarly ==
  /\ encoding
  /\ in + 3 <= Len(data)
  /\ str' = str \o (IF wrap = 4 THEN <<CR, LF>> ELSE << >>)
                \o Group(data[in + 1], data[in + 2], data[in + 3])
  /\ wrap' = (IF wrap = 4 THEN LineLength ELSE wrap - 4)
  /\ in' = in + 3
  /\ UNCHANGED <<data, encoding>>

\* One turn of the loop: a line break if the line is full, and four characters.
EncodeGroup ==
  /\ encoding
  /\ in + 3 <= Len(data)
  /\ str' = str \o (IF wrap = 0 THEN <<CR, LF>> ELSE << >>)
                \o Group(data[in + 1], data[in + 2], data[in + 3])
  /\ wrap' = (IF wrap = 0 THEN LineLength ELSE wrap) - 4
  /\ in' = in + 3
  /\ UNCHANGED <<data, encoding>>

\* The one or two bytes that are left, padded; no line break comes before them.
LastGroup ==
  IF in = Len(data) THEN << >>
  ELSE IF in + 1 < Len(data)
  THEN <<Base64Char0(data[in + 1]), Base64Char1(data[in + 1], data[in + 2]),
         Base64Char2(data[in + 2], 0), PAD>>
  ELSE <<Base64Char0(data[in + 1]), Base64Char1(data[in + 1], 0), PAD, PAD>>

EncodeTail ==
  /\ encoding
  /\ in + 3 > Len(data)
  /\ str' = str \o LastGroup
  /\ encoding' = FALSE
  /\ UNCHANGED <<data, in, wrap>>

EncNext == EncodeGroup \/ EncodeTail

EncSpec == EncInit /\ [][EncNext]_evars

\* The string returned: what was not written is still NUL.
Encoded ==
  [i \in 1..StrSize(Len(data)) |-> IF i <= Len(str) THEN str[i] ELSE NUL]

-----------------------------------------------------------------------------
EncTypeOK ==
  /\ data \in Seq(0..255)
  /\ in \in 0..Len(data)
  /\ wrap \in 0..LineLength
  /\ str \in Seq(Character)
  /\ encoding \in BOOLEAN

\* Nothing is ever written past the end of the string (util.cpp:130-153).
EncodeFits == Len(str) <= StrSize(Len(data))

\* The size computed in advance is the size written: assert(str.size() == out)
\* (util.cpp:155).
EncodedSizeExact == ~encoding => Len(str) = StrSize(Len(data))

\* What the code does instead: the result is two characters short exactly when
\* the input is one or two bytes longer than a whole number of full lines, at
\* least one, because the tail is written without its line break.
BytesPerLine == (LineLength \div 4) * 3
EncodedSizeShort ==
  ~encoding =>
    StrSize(Len(data)) - Len(str) =
      IF Len(data) > BytesPerLine /\ Len(data) % BytesPerLine \in {1, 2}
      THEN 2 ELSE 0
=============================================================================
