---------------------------- MODULE Base64Proofs ----------------------------
(***************************************************************************)
(* Proofs about Base64, for every input, text and line length.             *)
(*                                                                         *)
(* The decoder: nothing is written past its buffer, and what it writes are *)
(* the whole bytes of the bits its text spells.  The encoder: it stays in  *)
(* its string, which is two characters short in exactly the cases that     *)
(* EncodedSizeShort names; what it writes spells its input.  Together: the *)
(* reader gets the writer's bytes back.                                    *)
(***************************************************************************)
EXTENDS Base64, SequenceTheorems, WellFoundedInduction, TLAPS

-----------------------------------------------------------------------------
\* Arithmetic.

\* A quotient is found by bounding it.
LEMMA DivUnique ==
  ASSUME NEW a \in Nat, NEW d \in Nat \ {0}, NEW q \in Nat,
         q * d <= a, a < (q + 1) * d
  PROVE  a \div d = q
BY Z3

\* So is a remainder.
LEMMA ModUnique ==
  ASSUME NEW a \in Nat, NEW d \in Nat \ {0}, NEW q \in Nat, NEW r \in 0..(d - 1),
         a = q * d + r
  PROVE  a % d = r
BY Z3

\* A quotient is no less than what fits in the dividend.
LEMMA DivAtLeast ==
  ASSUME NEW a \in Nat, NEW d \in Nat \ {0}, NEW q \in Nat, q * d <= a
  PROVE  q <= a \div d
BY Z3

-----------------------------------------------------------------------------
\* The decoder.

\* Eight bits are written for at most as many characters as hold them: the six
\* of each character read are written, pending, or lost.
BitsAccounted ==
  8 * Len(decoded) + (IF decoding THEN bitCount ELSE 0) <= 6 * pos

DecInv == DecTypeOK /\ BitsAccounted

\* The low byte is a byte.
LEMMA LowByteType == ASSUME NEW b \in Nat PROVE LowByte(b) \in 0..255
BY DEF LowByte

\* A character of the text is in the range of the alphabet's values.
LEMMA CharacterType ==
  ASSUME text \in Seq(-4..63), pos \in 0..Len(text), pos < Len(text)
  PROVE  /\ pos + 1 \in 0..Len(text)
         /\ text[pos + 1] >= 0 => text[pos + 1] \in Nat /\ text[pos + 1] < 64
<1>1. pos + 1 \in 1..Len(text)
  OBVIOUS
<1>2. \A x \in -4..63 : x >= 0 => x \in Nat /\ x < 64
  OBVIOUS
<1>3. text[pos + 1] \in -4..63
  BY <1>1, ElementOfSeq
<1>4. pos + 1 \in 0..Len(text)
  BY <1>1
<1>5. QED
  BY <1>2, <1>3, <1>4

\* Tuples of bytes are sequences of bytes.
LEMMA ThreeBytesSeq ==
  ASSUME NEW a \in 0..255, NEW b \in 0..255, NEW c \in 0..255
  PROVE  <<a, b, c>> \in Seq(0..255) /\ Len(<<a, b, c>>) = 3
OBVIOUS

LEMMA TwoBytesSeq ==
  ASSUME NEW a \in 0..255, NEW b \in 0..255
  PROVE  <<a, b>> \in Seq(0..255) /\ Len(<<a, b>>) = 2
OBVIOUS

LEMMA OneByteSeq ==
  ASSUME NEW a \in 0..255
  PROVE  <<a>> \in Seq(0..255) /\ Len(<<a>>) = 1
OBVIOUS

\* Bytes are shifted out of the bits as bytes.
LEMMA ThreeBytesType ==
  ASSUME NEW b \in Nat
  PROVE  ThreeBytes(b) \in Seq(0..255) /\ Len(ThreeBytes(b)) = 3
<1>1. b \div (256 * 256) \in Nat /\ b \div 256 \in Nat
  OBVIOUS
<1>2. /\ LowByte(b \div (256 * 256)) \in 0..255
      /\ LowByte(b \div 256) \in 0..255
      /\ LowByte(b) \in 0..255
  BY <1>1, LowByteType
<1>3. PICK x \in 0..255, y \in 0..255, z \in 0..255 :
        x = LowByte(b \div (256 * 256)) /\ y = LowByte(b \div 256) /\ z = LowByte(b)
  BY <1>2, Zenon
<1>4. ThreeBytes(b) = <<x, y, z>>
  BY ONLY <1>3, Zenon DEF ThreeBytes
<1>5. <<x, y, z>> \in Seq(0..255) /\ Len(<<x, y, z>>) = 3
  BY ONLY ThreeBytesSeq, x \in 0..255, y \in 0..255, z \in 0..255
<1>6. QED
  BY ONLY <1>4, <1>5, Zenon

\* Sixteen bits of eighteen are written at the end, or eight of twelve.
LEMMA LastBytesType ==
  ASSUME bits \in Nat, bitCount \in {0, 6, 12, 18}
  PROVE  LastBytes \in Seq(0..255) /\ 8 * Len(LastBytes) <= bitCount
<1>1. bits \div (4 * 256) \in Nat /\ bits \div 4 \in Nat /\ bits \div 16 \in Nat
  OBVIOUS
<1>2. /\ LowByte(bits \div (4 * 256)) \in 0..255
      /\ LowByte(bits \div 4) \in 0..255
      /\ LowByte(bits \div 16) \in 0..255
  BY <1>1, LowByteType
<1>3. CASE bitCount = 18
  <2>1. LastBytes = <<LowByte(bits \div (4 * 256)), LowByte(bits \div 4)>>
    BY <1>3 DEF LastBytes
  <2>2. LastBytes \in Seq(0..255) /\ Len(LastBytes) = 2
    BY <1>2, <2>1, TwoBytesSeq
  <2>3. QED
    BY <1>3, <2>2
<1>4. CASE bitCount = 12
  BY <1>2, <1>4, OneByteSeq DEF LastBytes
<1>5. CASE bitCount \in {0, 6}
  BY <1>5 DEF LastBytes
<1>6. QED
  BY <1>3, <1>4, <1>5

\* Appending bytes to bytes.
LEMMA AppendType ==
  ASSUME NEW s \in Seq(0..255), NEW t \in Seq(0..255)
  PROVE  s \o t \in Seq(0..255) /\ Len(s \o t) = Len(s) + Len(t)
OBVIOUS

\* The invariant holds when a decode starts.
LEMMA DecInitInv == DecInit => DecInv
<1> SUFFICES ASSUME NEW t \in Texts, DecodeStart(t) PROVE DecInv
  BY DEF DecInit
<1>1. text \in Seq(-4..63)
  BY TextsAssumption DEF DecodeStart
<1>2. decoded \in Seq(0..255) /\ Len(decoded) = 0
  BY DEF DecodeStart
<1>3. QED
  BY <1>1, <1>2 DEF DecodeStart, DecInv, DecTypeOK, PendingBits, BitsAccounted

\* Every step of the decoder keeps the invariant.
LEMMA DecNextInv == DecInv /\ [DecNext]_dvars => DecInv'
<1> SUFFICES ASSUME DecInv, [DecNext]_dvars PROVE DecInv'
  OBVIOUS
<1> USE DEF DecInv, DecTypeOK, BitsAccounted
<1>1. CASE Skip
  BY <1>1, CharacterType DEF Skip, PendingBits
<1>2. CASE Accumulate
  <2>1. text \in Seq(-4..63) /\ pos \in 0..Len(text) /\ pos < Len(text)
    BY <1>2 DEF Accumulate
  <2>2. pos + 1 \in 0..Len(text) /\ text[pos + 1] \in Nat /\ text[pos + 1] < 64
    BY <1>2, <2>1, CharacterType DEF Accumulate
  <2>3. /\ bits' = bits * 64 + text[pos + 1]
        /\ bitCount' = bitCount + 6
        /\ bitCount # 18
    BY <1>2 DEF Accumulate, MoreBits
  <2>4. bits' \in Nat
    <3>1. PICK b \in Nat, x \in Nat : b = bits /\ x = text[pos + 1]
      BY <2>2
    <3>2. bits' = b * 64 + x
      BY ONLY <2>3, <3>1, Zenon
    <3>3. QED
      BY ONLY <3>2, b \in Nat, x \in Nat
  <2>5. PendingBits'
    <3>1. CASE bitCount = 0
      BY <2>2, <2>3, <3>1 DEF PendingBits
    <3>2. CASE bitCount = 6
      BY <2>2, <2>3, <3>2 DEF PendingBits
    <3>3. CASE bitCount = 12
      BY <2>2, <2>3, <3>3 DEF PendingBits
    <3>4. QED
      BY <2>3, <3>1, <3>2, <3>3 DEF PendingBits
  <2>6. BitsAccounted'
    BY <1>2, <2>1 DEF Accumulate, PendingBits
  <2>7. QED
    BY <1>2, <2>2, <2>4, <2>5, <2>6 DEF Accumulate
<1>3. CASE WriteThree
  <2>1. text \in Seq(-4..63) /\ pos \in 0..Len(text) /\ pos < Len(text)
    BY <1>3 DEF WriteThree
  <2>2. pos + 1 \in 0..Len(text) /\ text[pos + 1] \in Nat
    BY <1>3, <2>1, CharacterType DEF WriteThree
  <2>4. MoreBits \in Nat
    BY <2>2 DEF MoreBits
  <2>5. decoded' \in Seq(0..255) /\ Len(decoded') = Len(decoded) + 3
    <3>1. ThreeBytes(MoreBits) \in Seq(0..255) /\ Len(ThreeBytes(MoreBits)) = 3
      BY <2>4, ThreeBytesType
    <3>2. decoded' = decoded \o ThreeBytes(MoreBits) /\ decoded \in Seq(0..255)
      BY <1>3 DEF WriteThree
    <3>3. QED
      BY <3>1, <3>2, AppendType
  <2>6. QED
    BY <1>3, <2>2, <2>5 DEF WriteThree, PendingBits
<1>4. CASE Finish
  <2>1. LastBytes \in Seq(0..255) /\ 8 * Len(LastBytes) <= bitCount
    BY LastBytesType DEF PendingBits
  <2>2. decoded' \in Seq(0..255) /\ Len(decoded') = Len(decoded) + Len(LastBytes)
    BY <1>4, <2>1, AppendType DEF Finish
  <2>3. BitsAccounted'
    BY <1>4, <2>1, <2>2 DEF Finish, PendingBits
  <2>4. QED
    BY <1>4, <2>2, <2>3 DEF Finish, PendingBits
<1>5. CASE UNCHANGED dvars
  BY <1>5 DEF dvars, PendingBits
<1>6. QED
  BY <1>1, <1>2, <1>3, <1>4, <1>5 DEF DecNext

\* The bits accounted for fit in the buffer.
LEMMA DecInvFits == DecInv => DecodeFits
BY DEF DecInv, DecTypeOK, BitsAccounted, DecodeFits, MaxDecodedSize, PendingBits

-----------------------------------------------------------------------------
(***************************************************************************)
(* Without is a recursive function of how much of the sequence is read.    *)
(***************************************************************************)
LEMMA LeastNat ==
  ASSUME NEW T \in SUBSET Nat, T # {}
  PROVE  \E k \in T : \A j \in T : k <= j
<1> DEFINE R == OpToRel(<, Nat)
<1>1. IsWellFoundedOn(R, Nat)
  BY ONLY NatLessThanWellFounded, Zenon
<1>2. R = {ss \in Nat \X Nat : ss[1] < ss[2]}
  BY ONLY Zenon DEF OpToRel
<1> HIDE DEF R
<1>3. PICK k \in T : \A j \in T : <<j, k>> \notin R
  BY <1>1, WFMin
<1>4. \A j \in T : ~(j < k)
  BY <1>2, <1>3
<1>5. QED
  BY <1>4

\* That function, and that there is one: were there none for some length, then
\* for a least one, and the function for one element less could be extended.
KeptStep(s, out, f, n) ==
  IF n = 0 THEN << >>
  ELSE IF s[n] \in out THEN f[n - 1] ELSE Append(f[n - 1], s[n])
IsKept(s, out, f, k) == f = [n \in 0..k |-> KeptStep(s, out, f, n)]

LEMMA KeptExists ==
  ASSUME NEW s, NEW out, NEW k \in Nat
  PROVE  \E f : IsKept(s, out, f, k)
<1> DEFINE Bad == {j \in Nat : ~\E f : IsKept(s, out, f, j)}
<1>1. SUFFICES ASSUME Bad # {} PROVE FALSE
  OBVIOUS
<1>2. PICK j \in Bad : \A x \in Bad : j <= x
  <2>1. Bad \in SUBSET Nat
    OBVIOUS
  <2> HIDE DEF Bad
  <2>2. QED
    BY <1>1, <2>1, LeastNat
<1>3. CASE j = 0
  <2> DEFINE g == [n \in 0..0 |-> << >>]
  <2>1. IsKept(s, out, g, 0)
    BY DEF IsKept, KeptStep
  <2>2. QED
    BY <1>2, <1>3, <2>1
<1>4. CASE j # 0
  <2>1. j - 1 \in Nat /\ j - 1 \notin Bad
    BY <1>2, <1>4
  <2>2. PICK f : IsKept(s, out, f, j - 1)
    BY <2>1
  <2> DEFINE g == [n \in 0..j |-> IF n = j THEN KeptStep(s, out, f, j) ELSE f[n]]
  <2>3. \A n \in 0..(j - 1) : g[n] = f[n]
    BY <2>1
  <2>4. g[j] = KeptStep(s, out, f, j) /\ g = [n \in 0..j |-> g[n]]
    BY <2>1
  <2> HIDE DEF g
  <2>5. \A n \in 0..(j - 1) : f[n] = KeptStep(s, out, f, n)
    BY <2>2 DEF IsKept
  <2>6. ASSUME NEW n \in 0..j PROVE g[n] = KeptStep(s, out, g, n)
    <3>1. n # 0 => g[n - 1] = f[n - 1]
      BY <2>1, <2>3
    <3>2. KeptStep(s, out, g, n) = KeptStep(s, out, f, n)
      BY <3>1 DEF KeptStep
    <3>3. QED
      BY <2>3, <2>4, <2>5, <3>2
  <2>7. IsKept(s, out, g, j)
    BY <2>4, <2>6 DEF IsKept
  <2>8. QED
    BY <1>2, <2>7
<1>5. QED
  BY <1>3, <1>4

\* f is what is kept of the first n characters of s, for every n up to k.
Keeps(s, out, f, k) ==
  /\ f[0] = << >>
  /\ \A n \in 1..k :
       /\ s[n] \in out => f[n] = f[n - 1]
       /\ s[n] \notin out => f[n] = Append(f[n - 1], s[n])

LEMMA WithoutIs ==
  ASSUME NEW S, NEW s \in Seq(S), NEW out
  PROVE  \E f : Keeps(s, out, f, Len(s)) /\ Without(s, out) = f[Len(s)]
<1> DEFINE f == CHOOSE kept : IsKept(s, out, kept, Len(s))
<1>1. IsKept(s, out, f, Len(s))
  BY KeptExists, Zenon, LenProperties
<1>2. Without(s, out) = f[Len(s)]
  BY DEF Without, IsKept, KeptStep
<1> HIDE DEF f
<1>3. \A n \in 0..Len(s) : f[n] = KeptStep(s, out, f, n)
  BY <1>1 DEF IsKept
<1>4. f[0] = << >>
  BY <1>3 DEF KeptStep
<1>5. ASSUME NEW n \in 1..Len(s)
      PROVE  /\ s[n] \in out => f[n] = f[n - 1]
             /\ s[n] \notin out => f[n] = Append(f[n - 1], s[n])
  <2>1. n \in 0..Len(s) /\ n # 0
    OBVIOUS
  <2>2. f[n] = KeptStep(s, out, f, n)
    BY <1>3, <2>1, Zenon
  <2>3. QED
    BY <2>1, <2>2, Zenon DEF KeptStep
<1>7. Keeps(s, out, f, Len(s))
  BY <1>4, <1>5, Zenon DEF Keeps
<1>8. QED
  BY <1>2, <1>7, Zenon

LEMMA AppendedSeq == ASSUME NEW S, NEW s \in Seq(S), NEW x \in S PROVE Append(s, x) \in Seq(S)
OBVIOUS

\* A sequence is where itself, and itself with one element more, starts.
Starts(u, v) == Len(u) <= Len(v) /\ \A i \in 1..Len(u) : u[i] = v[i]

LEMMA AppendedStarts ==
  ASSUME NEW S, NEW s \in Seq(S), NEW x
  PROVE  Starts(s, s) /\ Starts(s, Append(s, x))
BY DEF Starts

LEMMA StartsOn ==
  ASSUME NEW S, NEW u \in Seq(S), NEW v \in Seq(S), NEW w \in Seq(S), Starts(u, v), Starts(v, w)
  PROVE  Starts(u, w)
BY DEF Starts

\* What is kept is not left out.
LEMMA KeptType ==
  ASSUME NEW S, NEW s \in Seq(S), NEW out, NEW f, Keeps(s, out, f, Len(s))
  PROVE  \A n \in 0..Len(s) : f[n] \in Seq(S \ out)
<1>1. PICK R : R = S \ out
  OBVIOUS
<1>2. \A x \in S : x \notin out => x \in R
  BY <1>1
<1>3. f[0] \in Seq(R)
  BY EmptySeq, Zenon DEF Keeps
<1> DEFINE Bad == {n \in 0..Len(s) : f[n] \notin Seq(R)}
<1>4. ASSUME Bad # {} PROVE FALSE
  <2>1. PICK n \in Bad : \A x \in Bad : n <= x
    <3>1. Bad \in SUBSET Nat
      OBVIOUS
    <3> HIDE DEF Bad
    <3>2. QED
      BY <1>4, <3>1, LeastNat
  <2>2. n # 0
    BY <2>1, <1>3
  <2>3. n \in 1..Len(s) /\ n - 1 \in 0..Len(s) /\ n - 1 \notin Bad
    BY <2>1, <2>2
  <2>4. s[n] \in S /\ f[n - 1] \in Seq(R)
    BY <2>3
  <2>5. CASE s[n] \in out
    BY <2>1, <2>3, <2>4, <2>5 DEF Keeps
  <2>6. CASE s[n] \notin out
    <3>1. f[n] = Append(f[n - 1], s[n])
      BY <2>3, <2>6, Zenon DEF Keeps
    <3>2. s[n] \in R
      BY <2>4, <2>6, <1>2, Zenon
    <3>3. f[n] \in Seq(R)
      <4>1. Append(f[n - 1], s[n]) \in Seq(R)
        BY ONLY <2>4, <3>2, AppendedSeq, Zenon
      <4>2. QED
        BY ONLY <3>1, <4>1, Zenon
    <3>4. QED
      BY <2>1, <3>3
  <2>7. QED
    BY <2>5, <2>6
<1>5. QED
  BY <1>1, <1>4

LEMMA WithoutType ==
  ASSUME NEW S, NEW s \in Seq(S), NEW out
  PROVE  Without(s, out) \in Seq(S \ out)
<1>1. PICK f : Keeps(s, out, f, Len(s)) /\ Without(s, out) = f[Len(s)]
  BY WithoutIs
<1>2. Len(s) \in 0..Len(s)
  OBVIOUS
<1>3. QED
  BY <1>1, <1>2, KeptType

LEMMA WithoutEmpty == ASSUME NEW out PROVE Without(<< >>, out) = << >>
<1>1. << >> \in Seq({}) /\ Len(<< >>) = 0
  OBVIOUS
<1>2. PICK f : Keeps(<< >>, out, f, 0) /\ Without(<< >>, out) = f[0]
  BY <1>1, WithoutIs
<1>3. QED
  BY <1>2 DEF Keeps

\* One character more is left out or comes last.
LEMMA WithoutAppend ==
  ASSUME NEW S, NEW s \in Seq(S), NEW x \in S, NEW out
  PROVE  /\ x \in out => Without(Append(s, x), out) = Without(s, out)
         /\ x \notin out => Without(Append(s, x), out) = Append(Without(s, out), x)
<1> DEFINE t == Append(s, x)
<1>1. PICK l \in Nat : l = Len(s)
  OBVIOUS
<1>2. t \in Seq(S) /\ Len(t) = l + 1 /\ t[l + 1] = x /\ \A n \in 1..l : t[n] = s[n]
  BY <1>1
<1> HIDE DEF t
<1>3. PICK f : Keeps(s, out, f, l) /\ Without(s, out) = f[l]
  BY <1>1, WithoutIs
<1>4. PICK g : Keeps(t, out, g, l + 1) /\ Without(t, out) = g[l + 1]
  BY <1>2, WithoutIs
<1> DEFINE Bad == {n \in 0..l : f[n] # g[n]}
<1>5. Bad = {}
  <2>1. SUFFICES ASSUME Bad # {} PROVE FALSE
    OBVIOUS
  <2>2. PICK n \in Bad : \A y \in Bad : n <= y
    <3>1. Bad \in SUBSET Nat
      OBVIOUS
    <3> HIDE DEF Bad
    <3>2. QED
      BY <2>1, <3>1, LeastNat
  <2>3. n # 0
    BY <2>2, <1>3, <1>4 DEF Keeps
  <2>4. n \in 1..l /\ n \in 1..(l + 1) /\ f[n - 1] = g[n - 1] /\ s[n] = t[n]
    BY <2>2, <2>3, <1>2
  <2>5. f[n] = g[n]
    BY <2>4, <1>3, <1>4 DEF Keeps
  <2>6. QED
    BY <2>2, <2>5
<1>6. f[l] = g[l] /\ l + 1 \in 1..(l + 1) /\ (l + 1) - 1 = l
  BY <1>5
<1>7. /\ x \in out => g[l + 1] = g[l]
      /\ x \notin out => g[l + 1] = Append(g[l], x)
  BY <1>2, <1>4, <1>6 DEF Keeps
<1>8. QED
  BY <1>3, <1>4, <1>6, <1>7 DEF t

-----------------------------------------------------------------------------
(***************************************************************************)
(* What a text spells: c[p] of the characters of a are among its first p.  *)
(***************************************************************************)
Spells(t, a, c) ==
  /\ c \in [0..Len(t) -> 0..Len(a)]
  /\ c[0] = 0
  /\ \A p \in 1..Len(t) :
       /\ t[p] < 0 => c[p] = c[p - 1]
       /\ t[p] >= 0 => c[p] = c[p - 1] + 1 /\ a[c[p]] = t[p]
  /\ c[Len(t)] = Len(a)

\* A character is in the alphabet, and not negative, or it is not.
LEMMA CharacterKinds ==
  /\ \A x \in -4..63 : (x < 0 <=> x \in -4..-1) /\ (x >= 0 <=> x \notin -4..-1)
  /\ (-4..63) \ (-4..-1) = 0..63
<1>1. ASSUME NEW x \in -4..63 PROVE (x < 0 <=> x \in -4..-1) /\ (x >= 0 <=> x \notin -4..-1)
  OBVIOUS
<1>2. ASSUME NEW x PROVE x \in (-4..63) \ (-4..-1) <=> x \in 0..63
  <2>1. x \in -4..63 /\ x \notin -4..-1 => x \in 0..63
    OBVIOUS
  <2>2. x \in 0..63 => x \in -4..63 /\ x \notin -4..-1
    OBVIOUS
  <2>3. QED
    BY <2>1, <2>2, Zenon
<1>3. QED
  BY <1>1, <1>2, Zenon

LEMMA NeverBoth == ASSUME NEW x \in -4..63 PROVE ~(x < 0 /\ x >= 0)
OBVIOUS

LEMMA AlphabetType ==
  ASSUME NEW t \in Seq(-4..63) PROVE Alphabet(t) \in Seq(0..63)
<1>1. Without(t, -4..-1) \in Seq((-4..63) \ (-4..-1))
  BY WithoutType
<1>2. QED
  BY <1>1, CharacterKinds, Zenon DEF Alphabet

LEMMA AlphabetSpelt ==
  ASSUME NEW t \in Seq(-4..63) PROVE \E c : Spells(t, Alphabet(t), c)
<1>1. PICK l \in Nat : l = Len(t)
  OBVIOUS
<1>2. PICK f : Keeps(t, -4..-1, f, l) /\ Alphabet(t) = f[l]
  BY <1>1, WithoutIs DEF Alphabet
<1>3. \A n \in 0..l : f[n] \in Seq(0..63)
  BY <1>1, <1>2, KeptType, CharacterKinds
<1>4. ASSUME NEW n \in 0..l PROVE Starts(f[n], f[l])
  <2> DEFINE Good == {k \in n..l : Starts(f[k], f[l])}
  <2>1. Good \in SUBSET Nat /\ l \in Good
    <3>1. l \in 0..l /\ l \in n..l
      OBVIOUS
    <3>2. Starts(f[l], f[l])
      BY <1>3, <3>1, AppendedStarts
    <3>3. QED
      BY <3>1, <3>2
  <2>2. PICK m \in Good : \A y \in Good : m <= y
    <3> HIDE DEF Good
    <3>1. QED
      BY <2>1, LeastNat
  <2>3. m = n
    <3>1. SUFFICES ASSUME m # n PROVE FALSE
      OBVIOUS
    <3>2. m - 1 \in n..l /\ m \in 1..l /\ m - 1 \notin Good /\ m - 1 \in 0..l
      BY <2>2, <3>1
    <3>3. f[m] = f[m - 1] \/ f[m] = Append(f[m - 1], t[m])
      BY <1>2, <3>2 DEF Keeps
    <3>4. Starts(f[m - 1], f[m])
      <4>1. PICK u \in Seq(0..63), v \in Seq(0..63) : u = f[m - 1] /\ v = f[m]
        BY ONLY <1>3, <3>2, m \in 1..l, l \in Nat
      <4>2. v = u \/ v = Append(u, t[m])
        BY <3>3, <4>1, Zenon
      <4>3. Starts(u, u) /\ Starts(u, Append(u, t[m]))
        BY ONLY u \in Seq(0..63), AppendedStarts, Zenon
      <4>4. QED
        BY ONLY <4>1, <4>2, <4>3, Zenon
    <3>5. Starts(f[m], f[l])
      BY <2>2
    <3>6. Starts(f[m - 1], f[l])
      <4>1. f[m - 1] \in Seq(0..63) /\ f[m] \in Seq(0..63) /\ f[l] \in Seq(0..63)
        BY <1>3, <3>2
      <4>2. QED
        BY ONLY <3>4, <3>5, <4>1, StartsOn, Zenon
    <3>7. QED
      BY <3>2, <3>6
  <2>4. QED
    BY <2>2, <2>3
<1> DEFINE c == [n \in 0..l |-> Len(f[n])]
<1>5. \A n \in 0..l : c[n] = Len(f[n]) /\ c[n] \in Nat /\ c[n] <= Len(f[l])
  BY <1>3, <1>4 DEF Starts
<1>6. c \in [0..l -> 0..Len(f[l])]
  <2>1. Len(f[l]) \in Nat
    BY <1>3
  <2>2. QED
    BY <1>5, <2>1
<1>7. c[0] = 0
  BY <1>2, <1>5 DEF Keeps
<1>8. c[l] = Len(f[l])
  BY <1>5
<1> HIDE DEF c
<1>9. ASSUME NEW p \in 1..l
      PROVE  /\ t[p] < 0 => c[p] = c[p - 1]
             /\ t[p] >= 0 => c[p] = c[p - 1] + 1 /\ f[l][c[p]] = t[p]
  <2>1. p \in 0..l /\ p - 1 \in 0..l /\ t[p] \in -4..63
    BY <1>1
  <2>2. CASE t[p] < 0
    <3>1. t[p] \in -4..-1
      BY <2>1, <2>2, CharacterKinds, Zenon
    <3>2. f[p] = f[p - 1]
      BY <1>2, <3>1 DEF Keeps
    <3>3. c[p] = c[p - 1]
      BY <1>5, <2>1, <3>2, Zenon
    <3>4. ~(t[p] >= 0)
      BY <2>1, <2>2, NeverBoth, Zenon
    <3>5. QED
      BY <3>3, <3>4, Zenon
  <2>3. CASE t[p] >= 0
    <3>1. t[p] \notin -4..-1
      BY <2>1, <2>3, CharacterKinds, Zenon
    <3>2. f[p] = Append(f[p - 1], t[p])
      BY <1>2, <3>1 DEF Keeps
    <3>3. f[p - 1] \in Seq(0..63)
      BY <1>3, <2>1
    <3>4. Len(f[p]) = Len(f[p - 1]) + 1 /\ f[p][Len(f[p])] = t[p]
      BY <3>2, <3>3
    <3>5. Len(f[p]) \in 1..Len(f[p])
      BY <3>3, <3>4
    <3>6. f[l][Len(f[p])] = t[p]
      BY <1>4, <2>1, <3>4, <3>5 DEF Starts
    <3>7. c[p] = c[p - 1] + 1 /\ f[l][c[p]] = t[p]
      BY <1>5, <2>1, <3>4, <3>6, Zenon
    <3>8. ~(t[p] < 0)
      BY <2>1, <2>3, NeverBoth, Zenon
    <3>9. QED
      BY <3>7, <3>8, Zenon
  <2>4. QED
    BY <2>1, <2>2, <2>3
<1>10. Spells(t, f[l], c)
  BY <1>1, <1>6, <1>7, <1>8, <1>9 DEF Spells
<1>11. QED
  BY <1>2, <1>10
-----------------------------------------------------------------------------
(***************************************************************************)
(* The bits of a text, and the bytes they are taken together to.           *)
(***************************************************************************)
LEMMA BitAt ==
  ASSUME NEW a, NEW g \in Nat, NEW r \in 0..5
  PROVE  Bit(a, 6 * g + r) = (a[g + 1] \div <<32, 16, 8, 4, 2, 1>>[r + 1]) % 2
<1>1. PICK i \in Nat : i = 6 * g + r
  OBVIOUS
<1>2. i \div 6 = g /\ i % 6 = r
  BY <1>1
<1>3. QED
  BY <1>1, <1>2, Zenon DEF Bit

\* Six bits by their weights, and the parts of them that go to a byte.
BitsOf(x, b5, b4, b3, b2, b1, b0) ==
  /\ (x \div 1) % 2 = b0 /\ (x \div 2) % 2 = b1 /\ (x \div 4) % 2 = b2
  /\ (x \div 8) % 2 = b3 /\ (x \div 16) % 2 = b4 /\ (x \div 32) % 2 = b5
  /\ x = 32 * b5 + 16 * b4 + 8 * b3 + 4 * b2 + 2 * b1 + b0
  /\ x \div 16 = 2 * b5 + b4 /\ x \div 4 = 8 * b5 + 4 * b4 + 2 * b3 + b2
  /\ x % 16 = 8 * b3 + 4 * b2 + 2 * b1 + b0 /\ x % 4 = 2 * b1 + b0

LEMMA SixBits ==
  ASSUME NEW x \in 0..63
  PROVE  \E b5, b4, b3, b2, b1, b0 \in 0..1 : BitsOf(x, b5, b4, b3, b2, b1, b0)
<1>1. ASSUME NEW n \in Nat, NEW y \in 0..(2 * n + 1)
      PROVE  \E h \in 0..n, b \in 0..1 : y = 2 * h + b
  <2>1. PICK h \in Nat, b \in 0..1 : h = y \div 2 /\ b = y % 2 /\ y = 2 * h + b
    OBVIOUS
  <2>2. h \in 0..n
    BY <2>1
  <2>3. QED
    BY <2>1, <2>2
<1>2. PICK x1 \in 0..31, b0 \in 0..1 : x = 2 * x1 + b0
  BY <1>1
<1>3. PICK x2 \in 0..15, b1 \in 0..1 : x1 = 2 * x2 + b1
  BY <1>1
<1>4. PICK x3 \in 0..7, b2 \in 0..1 : x2 = 2 * x3 + b2
  BY <1>1
<1>5. PICK x4 \in 0..3, b3 \in 0..1 : x3 = 2 * x4 + b3
  BY <1>1
<1>6. PICK b5 \in 0..1, b4 \in 0..1 : x4 = 2 * b5 + b4
  BY <1>1
<1>7. x \div 1 = x /\ x \div 2 = x1 /\ x \div 4 = x2 /\ x \div 8 = x3 /\ x \div 16 = x4 /\ x \div 32 = b5
  BY ONLY <1>2, <1>3, <1>4, <1>5, <1>6, x \in 0..63
<1>8. x % 2 = b0 /\ x1 % 2 = b1 /\ x2 % 2 = b2 /\ x3 % 2 = b3 /\ x4 % 2 = b4 /\ b5 % 2 = b5
  BY ONLY <1>2, <1>3, <1>4, <1>5, <1>6
<1>9. x % 16 = 8 * b3 + 4 * b2 + 2 * b1 + b0 /\ x % 4 = 2 * b1 + b0
  BY ONLY <1>2, <1>3, <1>4, <1>5, <1>6
<1>10. /\ x4 = 2 * b5 + b4 /\ x2 = 8 * b5 + 4 * b4 + 2 * b3 + b2
       /\ x = 32 * b5 + 16 * b4 + 8 * b3 + 4 * b2 + 2 * b1 + b0
  BY ONLY <1>2, <1>3, <1>4, <1>5, <1>6
<1>11. /\ (x \div 1) % 2 = b0 /\ (x \div 2) % 2 = b1 /\ (x \div 4) % 2 = b2
       /\ (x \div 8) % 2 = b3 /\ (x \div 16) % 2 = b4 /\ (x \div 32) % 2 = b5
  BY ONLY <1>7, <1>8, Zenon
<1>12. /\ x = 32 * b5 + 16 * b4 + 8 * b3 + 4 * b2 + 2 * b1 + b0
       /\ x \div 16 = 2 * b5 + b4 /\ x \div 4 = 8 * b5 + 4 * b4 + 2 * b3 + b2
  BY ONLY <1>7, <1>10, Zenon
<1>13. BitsOf(x, b5, b4, b3, b2, b1, b0)
  BY ONLY <1>9, <1>11, <1>12, Zenon DEF BitsOf
<1>14. QED
  BY <1>13

\* The bits of a character.
LEMMA CharacterBits ==
  ASSUME NEW a, NEW g \in Nat
  PROVE  /\ Bit(a, 6 * g) = (a[g + 1] \div 32) % 2
         /\ Bit(a, 6 * g + 1) = (a[g + 1] \div 16) % 2
         /\ Bit(a, 6 * g + 2) = (a[g + 1] \div 8) % 2
         /\ Bit(a, 6 * g + 3) = (a[g + 1] \div 4) % 2
         /\ Bit(a, 6 * g + 4) = (a[g + 1] \div 2) % 2
         /\ Bit(a, 6 * g + 5) = (a[g + 1] \div 1) % 2
<1> DEFINE W == <<32, 16, 8, 4, 2, 1>>
<1>1. /\ W[0 + 1] = 32 /\ W[1 + 1] = 16 /\ W[2 + 1] = 8
      /\ W[3 + 1] = 4 /\ W[4 + 1] = 2 /\ W[5 + 1] = 1
  OBVIOUS
<1>2. \A r \in 0..5 : Bit(a, 6 * g + r) = (a[g + 1] \div W[r + 1]) % 2
  BY BitAt, Zenon
<1> HIDE DEF W
<1>3. 0 \in 0..5 /\ 1 \in 0..5 /\ 2 \in 0..5 /\ 3 \in 0..5 /\ 4 \in 0..5 /\ 5 \in 0..5
  OBVIOUS
<1>4. 6 * g + 0 = 6 * g
  OBVIOUS
<1>5. QED
  BY <1>1, <1>2, <1>3, <1>4, Zenon

\* Three bytes of four characters.
Sextet == 0..63
Octet == 0..255
High(s1, s2) == 4 * s1 + s2 \div 16
Middle(s2, s3) == 16 * (s2 % 16) + s3 \div 4
Low(s3, s4) == 64 * (s3 % 4) + s4

LEMMA BytesType ==
  ASSUME NEW s \in Sextet, NEW t \in Sextet
  PROVE  High(s, t) \in Octet /\ Middle(s, t) \in Octet /\ Low(s, t) \in Octet
<1> USE DEF Sextet, Octet
<1>1. PICK h \in 0..3, l \in 0..15 : h = t \div 16 /\ l = s % 16
  OBVIOUS
<1>2. PICK q \in 0..15, r \in 0..3 : q = t \div 4 /\ r = s % 4
  OBVIOUS
<1>3. QED
  BY <1>1, <1>2 DEF High, Middle, Low

LEMMA BytesAre ==
  ASSUME NEW a, NEW m \in Nat, NEW s1 \in Sextet, NEW s2 \in Sextet,
         a[4 * m + 1] = s1, a[4 * m + 2] = s2
  PROVE  /\ Byte(a, 3 * m + 1) = High(s1, s2)
         /\ \A s3 \in Sextet : a[4 * m + 3] = s3 =>
              /\ Byte(a, 3 * m + 2) = Middle(s2, s3)
              /\ \A s4 \in Sextet : a[4 * m + 4] = s4 => Byte(a, 3 * m + 3) = Low(s3, s4)
<1> USE DEF Sextet, Octet
<1> DEFINE B(i) == Bit(a, i)
<1>1. ASSUME NEW k, NEW n \in Nat, 8 * (k - 1) = n
      PROVE  Byte(a, k) = 128 * B(n) + 64 * B(n + 1) + 32 * B(n + 2) + 16 * B(n + 3)
                          + 8 * B(n + 4) + 4 * B(n + 5) + 2 * B(n + 6) + B(n + 7)
  <2>1. n + 0 = n
    OBVIOUS
  <2>2. QED
    BY <1>1, <2>1, Zenon DEF Byte
<1> DEFINE Bits(i, x, b5, b4, b3, b2, b1, b0) ==
             /\ B(i) = b5 /\ B(i + 1) = b4 /\ B(i + 2) = b3
             /\ B(i + 3) = b2 /\ B(i + 4) = b1 /\ B(i + 5) = b0
             /\ x = 32 * b5 + 16 * b4 + 8 * b3 + 4 * b2 + 2 * b1 + b0
             /\ x \div 16 = 2 * b5 + b4 /\ x \div 4 = 8 * b5 + 4 * b4 + 2 * b3 + b2
             /\ x % 16 = 8 * b3 + 4 * b2 + 2 * b1 + b0 /\ x % 4 = 2 * b1 + b0
           Spelt(i, x) == \E b5, b4, b3, b2, b1, b0 \in 0..1 : Bits(i, x, b5, b4, b3, b2, b1, b0)
<1>2. ASSUME NEW g \in Nat, NEW x \in Sextet, a[g + 1] = x PROVE Spelt(6 * g, x)
  <2>1. /\ B(6 * g) = (x \div 32) % 2 /\ B(6 * g + 1) = (x \div 16) % 2
        /\ B(6 * g + 2) = (x \div 8) % 2 /\ B(6 * g + 3) = (x \div 4) % 2
        /\ B(6 * g + 4) = (x \div 2) % 2 /\ B(6 * g + 5) = (x \div 1) % 2
    BY <1>2, CharacterBits, Zenon
  <2> HIDE DEF B
  <2>2. PICK b5, b4, b3, b2, b1, b0 \in 0..1 : BitsOf(x, b5, b4, b3, b2, b1, b0)
    BY SixBits
  <2>3. Bits(6 * g, x, b5, b4, b3, b2, b1, b0)
    BY <2>1, <2>2, Zenon DEF BitsOf
  <2> HIDE DEF Bits
  <2>4. QED
    BY <2>3
<1> HIDE DEF B, Spelt
<1>3. PICK n \in Nat : n = 24 * m
  OBVIOUS
<1>4. /\ 6 * (4 * m) = n /\ 6 * (4 * m + 1) = n + 6
      /\ 6 * (4 * m + 2) = n + 12 /\ 6 * (4 * m + 3) = n + 18
      /\ 4 * m \in Nat /\ 4 * m + 1 \in Nat /\ 4 * m + 2 \in Nat /\ 4 * m + 3 \in Nat
      /\ (4 * m + 1) + 1 = 4 * m + 2 /\ (4 * m + 2) + 1 = 4 * m + 3 /\ (4 * m + 3) + 1 = 4 * m + 4
  BY <1>3
<1>5. Spelt(n, s1)
  <2>1. Spelt(6 * (4 * m), s1)
    BY <1>2, <1>4
  <2>2. QED
    BY <1>4, <2>1
<1>6. Spelt(n + 6, s2)
  <2>1. Spelt(6 * (4 * m + 1), s2)
    BY <1>2, <1>4
  <2>2. QED
    BY <1>4, <2>1
<1>7. ASSUME NEW s3 \in Sextet, a[4 * m + 3] = s3 PROVE Spelt(n + 12, s3)
  <2>1. Spelt(6 * (4 * m + 2), s3)
    BY <1>2, <1>4, <1>7
  <2>2. QED
    BY <1>4, <2>1
<1>8. ASSUME NEW s4 \in Sextet, a[4 * m + 4] = s4 PROVE Spelt(n + 18, s4)
  <2>1. Spelt(6 * (4 * m + 3), s4)
    BY <1>2, <1>4, <1>8
  <2>2. QED
    BY <1>4, <2>1
<1>9. PICK p5, p4, p3, p2, p1, p0 \in 0..1 : Bits(n, s1, p5, p4, p3, p2, p1, p0)
  BY <1>5 DEF Spelt
<1>10. PICK q5, q4, q3, q2, q1, q0 \in 0..1 : Bits(n + 6, s2, q5, q4, q3, q2, q1, q0)
  BY <1>6 DEF Spelt
<1>11. Byte(a, 3 * m + 1) = 4 * s1 + s2 \div 16
  <2>1. Byte(a, 3 * m + 1) =
          128 * B(n) + 64 * B(n + 1) + 32 * B(n + 2) + 16 * B(n + 3)
          + 8 * B(n + 4) + 4 * B(n + 5) + 2 * B(n + 6) + B(n + 7)
    <3>1. 8 * ((3 * m + 1) - 1) = n
      BY <1>3
    <3>2. QED
      BY <1>1, <3>1, Zenon
  <2>2. (n + 6) + 1 = n + 7
    OBVIOUS
  <2>3. /\ B(n) = p5 /\ B(n + 1) = p4 /\ B(n + 2) = p3 /\ B(n + 3) = p2
        /\ B(n + 4) = p1 /\ B(n + 5) = p0 /\ B(n + 6) = q5 /\ B(n + 7) = q4
    BY <1>9, <1>10, <2>2, Zenon
  <2>4. QED
    BY <1>9, <1>10, <2>1, <2>3
<1>12. ASSUME NEW s3 \in Sextet, a[4 * m + 3] = s3
       PROVE  Byte(a, 3 * m + 2) = 16 * (s2 % 16) + s3 \div 4
  <2>1. PICK r5, r4, r3, r2, r1, r0 \in 0..1 : Bits(n + 12, s3, r5, r4, r3, r2, r1, r0)
    BY <1>7, <1>12 DEF Spelt
  <2>2. Byte(a, 3 * m + 2) =
          128 * B(n + 8) + 64 * B((n + 8) + 1) + 32 * B((n + 8) + 2) + 16 * B((n + 8) + 3)
          + 8 * B((n + 8) + 4) + 4 * B((n + 8) + 5) + 2 * B((n + 8) + 6) + B((n + 8) + 7)
    <3>1. 8 * ((3 * m + 2) - 1) = n + 8 /\ n + 8 \in Nat
      BY <1>3
    <3>2. QED
      BY <1>1, <3>1, Zenon
  <2>3. /\ (n + 6) + 2 = n + 8 /\ (n + 6) + 3 = (n + 8) + 1 /\ (n + 6) + 4 = (n + 8) + 2
        /\ (n + 6) + 5 = (n + 8) + 3 /\ n + 12 = (n + 8) + 4 /\ (n + 12) + 1 = (n + 8) + 5
        /\ (n + 12) + 2 = (n + 8) + 6 /\ (n + 12) + 3 = (n + 8) + 7
    OBVIOUS
  <2>4. /\ B(n + 8) = q3 /\ B((n + 8) + 1) = q2 /\ B((n + 8) + 2) = q1 /\ B((n + 8) + 3) = q0
        /\ B((n + 8) + 4) = r5 /\ B((n + 8) + 5) = r4 /\ B((n + 8) + 6) = r3 /\ B((n + 8) + 7) = r2
    BY <1>10, <2>1, <2>3, Zenon
  <2>5. QED
    BY <1>10, <2>1, <2>2, <2>4
<1>13. ASSUME NEW s3 \in Sextet, a[4 * m + 3] = s3, NEW s4 \in Sextet, a[4 * m + 4] = s4
       PROVE  Byte(a, 3 * m + 3) = 64 * (s3 % 4) + s4
  <2>1. PICK r5, r4, r3, r2, r1, r0 \in 0..1 : Bits(n + 12, s3, r5, r4, r3, r2, r1, r0)
    BY <1>7, <1>13 DEF Spelt
  <2>2. PICK t5, t4, t3, t2, t1, t0 \in 0..1 : Bits(n + 18, s4, t5, t4, t3, t2, t1, t0)
    BY <1>8, <1>13 DEF Spelt
  <2>3. Byte(a, 3 * m + 3) =
          128 * B(n + 16) + 64 * B((n + 16) + 1) + 32 * B((n + 16) + 2) + 16 * B((n + 16) + 3)
          + 8 * B((n + 16) + 4) + 4 * B((n + 16) + 5) + 2 * B((n + 16) + 6) + B((n + 16) + 7)
    <3>1. 8 * ((3 * m + 3) - 1) = n + 16 /\ n + 16 \in Nat
      BY <1>3
    <3>2. QED
      BY <1>1, <3>1, Zenon
  <2>4. /\ (n + 12) + 4 = n + 16 /\ (n + 12) + 5 = (n + 16) + 1 /\ n + 18 = (n + 16) + 2
        /\ (n + 18) + 1 = (n + 16) + 3 /\ (n + 18) + 2 = (n + 16) + 4 /\ (n + 18) + 3 = (n + 16) + 5
        /\ (n + 18) + 4 = (n + 16) + 6 /\ (n + 18) + 5 = (n + 16) + 7
    OBVIOUS
  <2>5. /\ B(n + 16) = r1 /\ B((n + 16) + 1) = r0 /\ B((n + 16) + 2) = t5 /\ B((n + 16) + 3) = t4
        /\ B((n + 16) + 4) = t3 /\ B((n + 16) + 5) = t2 /\ B((n + 16) + 6) = t1 /\ B((n + 16) + 7) = t0
    BY <2>1, <2>2, <2>4, Zenon
  <2>6. s3 % 4 = 2 * r1 + r0 /\ s4 = 32 * t5 + 16 * t4 + 8 * t3 + 4 * t2 + 2 * t1 + t0
    BY <2>1, <2>2, Zenon
  <2>7. Byte(a, 3 * m + 3) =
          128 * r1 + 64 * r0 + 32 * t5 + 16 * t4 + 8 * t3 + 4 * t2 + 2 * t1 + t0
    BY <2>3, <2>5, Zenon
  <2>8. QED
    BY <2>6, <2>7
<1>14. QED
  BY <1>11, <1>12, <1>13, Zenon DEF High, Middle, Low

\* What the decoder shifts out of the bits it holds.
Shifted(b, x) == b * 64 + x

LEMMA ShiftedType == ASSUME NEW b \in Nat, NEW x \in Sextet PROVE Shifted(b, x) \in Nat
BY DEF Shifted, Sextet

LEMMA ThreeBytesAre ==
  ASSUME NEW s1 \in Sextet, NEW s2 \in Sextet, NEW s3 \in Sextet, NEW s4 \in Sextet
  PROVE  ThreeBytes(Shifted(Shifted(Shifted(s1, s2), s3), s4)) =
           <<High(s1, s2), Middle(s2, s3), Low(s3, s4)>>
<1> USE DEF Sextet
<1>1. PICK b \in Nat : b = ((s1 * 64 + s2) * 64 + s3) * 64 + s4
  OBVIOUS
<1>2. /\ (b \div 65536) % 256 = 4 * s1 + s2 \div 16
      /\ (b \div 256) % 256 = 16 * (s2 % 16) + s3 \div 4
      /\ b % 256 = 64 * (s3 % 4) + s4
  BY <1>1, Z3
<1>3. 256 * 256 = 65536
  OBVIOUS
<1>4. QED
  BY <1>1, <1>2, <1>3 DEF ThreeBytes, LowByte, High, Middle, Low, Shifted

LEMMA TwoLast ==
  ASSUME NEW s1 \in Sextet, NEW s2 \in Sextet, NEW s3 \in Sextet,
         bits = Shifted(Shifted(s1, s2), s3), bitCount = 18
  PROVE  LastBytes = <<High(s1, s2), Middle(s2, s3)>>
<1> USE DEF Sextet
<1>1. PICK b \in Nat : b = (s1 * 64 + s2) * 64 + s3
  OBVIOUS
<1>2. /\ (b \div 1024) % 256 = 4 * s1 + s2 \div 16
      /\ (b \div 4) % 256 = 16 * (s2 % 16) + s3 \div 4
  BY <1>1, Z3
<1>3. 4 * 256 = 1024
  OBVIOUS
<1>4. bits = b
  BY <1>1 DEF Shifted
<1>5. QED
  BY <1>2, <1>3, <1>4 DEF LastBytes, LowByte, High, Middle

LEMMA OneLast ==
  ASSUME NEW s1 \in Sextet, NEW s2 \in Sextet, bits = Shifted(s1, s2), bitCount = 12
  PROVE  LastBytes = <<High(s1, s2)>>
<1> USE DEF Sextet
<1>1. PICK b \in Nat : b = s1 * 64 + s2
  OBVIOUS
<1>2. (b \div 16) % 256 = 4 * s1 + s2 \div 16
  BY <1>1, Z3
<1>3. bits = b
  BY <1>1 DEF Shifted
<1>4. QED
  BY <1>2, <1>3 DEF LastBytes, LowByte, High

\* Bytes that are appended come last.
LEMMA OneJoined ==
  ASSUME NEW S, NEW s \in Seq(S), NEW y1 \in S, NEW n \in Nat, Len(s) = n
  PROVE  s \o <<y1>> = [k \in 1..(n + 1) |-> IF k <= n THEN s[k] ELSE y1]
OBVIOUS

LEMMA TwoJoined ==
  ASSUME NEW S, NEW s \in Seq(S), NEW y1 \in S, NEW y2 \in S, NEW n \in Nat, Len(s) = n
  PROVE  s \o <<y1, y2>> =
           [k \in 1..(n + 2) |-> IF k <= n THEN s[k] ELSE IF k = n + 1 THEN y1 ELSE y2]
OBVIOUS

ThreeMore(s, n, y1, y2, y3, t) ==
  /\ Len(t) = n + 3
  /\ \A k \in 1..n : t[k] = s[k]
  /\ t[n + 1] = y1 /\ t[n + 2] = y2 /\ t[n + 3] = y3

LEMMA ThreeJoined ==
  ASSUME NEW S, NEW s \in Seq(S), NEW y1 \in S, NEW y2 \in S, NEW y3 \in S
  PROVE  ThreeMore(s, Len(s), y1, y2, y3, s \o <<y1, y2, y3>>)
<1> DEFINE t == s \o <<y1, y2, y3>>
<1>6. PICK n \in Nat : n = Len(s)
  OBVIOUS
<1>1. PICK u \in Seq(S) : u = <<y1, y2, y3>> /\ Len(u) = 3 /\ u[1] = y1 /\ u[2] = y2 /\ u[3] = y3
  <2> DEFINE v == <<y1, y2, y3>>
  <2>1. v \in Seq(S)
    OBVIOUS
  <2>2. Len(v) = 3 /\ v[1] = y1 /\ v[2] = y2 /\ v[3] = y3
    OBVIOUS
  <2> HIDE DEF v
  <2>3. QED
    BY <2>1, <2>2 DEF v
<1>2. t = s \o u
  BY <1>1
<1> HIDE DEF t
<1>3. Len(t) = n + 3 /\ \A k \in 1..n : t[k] = s[k]
  BY <1>1, <1>2, <1>6
<1>4. \A k \in 1..3 : t[n + k] = u[k]
  BY <1>1, <1>2, <1>6
<1>5. ThreeMore(s, n, y1, y2, y3, t)
  BY <1>1, <1>3, <1>4 DEF ThreeMore
<1>7. QED
  BY <1>5, <1>6 DEF t

LEMMA CharacterOf ==
  ASSUME NEW a \in Seq(Sextet), NEW i \in 1..Len(a) PROVE \E x \in Sextet : a[i] = x
BY ElementOfSeq

\* The bytes of group m, at its places.
LEMMA GroupBytes ==
  ASSUME NEW a \in Seq(Sextet), NEW m \in Nat
  PROVE  /\ 4 * m + 2 <= Len(a) => Byte(a, 3 * m + 1) = High(a[4 * m + 1], a[4 * m + 2])
         /\ 4 * m + 3 <= Len(a) => Byte(a, 3 * m + 2) = Middle(a[4 * m + 2], a[4 * m + 3])
         /\ 4 * m + 4 <= Len(a) => Byte(a, 3 * m + 3) = Low(a[4 * m + 3], a[4 * m + 4])
<1>1. ASSUME NEW i \in 1..4, 4 * m + i <= Len(a) PROVE \E x \in Sextet : a[4 * m + i] = x
  <2>1. 4 * m + i \in 1..Len(a)
    BY <1>1
  <2>2. QED
    BY <2>1, CharacterOf
<1>2. ASSUME 4 * m + 2 <= Len(a)
      PROVE  Byte(a, 3 * m + 1) = High(a[4 * m + 1], a[4 * m + 2])
  <2>1. PICK s1 \in Sextet, s2 \in Sextet : a[4 * m + 1] = s1 /\ a[4 * m + 2] = s2
    BY <1>1, <1>2
  <2>2. QED
    BY <2>1, BytesAre
<1>3. ASSUME 4 * m + 3 <= Len(a)
      PROVE  Byte(a, 3 * m + 2) = Middle(a[4 * m + 2], a[4 * m + 3])
  <2>1. PICK s1 \in Sextet, s2 \in Sextet, s3 \in Sextet :
          a[4 * m + 1] = s1 /\ a[4 * m + 2] = s2 /\ a[4 * m + 3] = s3
    BY <1>1, <1>3
  <2>2. QED
    BY <2>1, BytesAre
<1>4. ASSUME 4 * m + 4 <= Len(a)
      PROVE  Byte(a, 3 * m + 3) = Low(a[4 * m + 3], a[4 * m + 4])
  <2>1. PICK s1 \in Sextet, s2 \in Sextet, s3 \in Sextet, s4 \in Sextet :
          a[4 * m + 1] = s1 /\ a[4 * m + 2] = s2 /\ a[4 * m + 3] = s3 /\ a[4 * m + 4] = s4
    BY <1>1, <1>4
  <2>2. QED
    BY <2>1, BytesAre
<1>5. QED
  BY <1>2, <1>3, <1>4
-----------------------------------------------------------------------------
(***************************************************************************)
(* The decoder after n characters of the alphabet: whole groups of four    *)
(* are bytes, and the bits of the rest are pending.                        *)
(***************************************************************************)
Pending(a, m, r) ==
  IF r = 0 THEN 0
  ELSE IF r = 1 THEN a[4 * m + 1]
  ELSE IF r = 2 THEN Shifted(a[4 * m + 1], a[4 * m + 2])
  ELSE Shifted(Shifted(a[4 * m + 1], a[4 * m + 2]), a[4 * m + 3])

Groups(a, n, m, r) ==
  /\ n = 4 * m + r
  /\ bitCount = 6 * r /\ bits = Pending(a, m, r)
  /\ Len(decoded) = 3 * m
  /\ \A k \in 1..(3 * m) : decoded[k] = Byte(a, k)

Grouped(a, n) == \E m \in Nat, r \in 0..3 : Groups(a, n, m, r)

\* One more character is pending.
LEMMA AccumulateGroups ==
  ASSUME NEW a \in Seq(Sextet), NEW n \in Nat, n < Len(a), Grouped(a, n),
         Accumulate, text[pos + 1] = a[n + 1]
  PROVE  Grouped(a, n + 1)'
<1>1. PICK m \in Nat, r \in 0..3 : Groups(a, n, m, r)
  BY DEF Grouped
<1>2. PICK x \in Sextet : a[n + 1] = x
  <2>1. n + 1 \in 1..Len(a)
    OBVIOUS
  <2>2. QED
    BY <2>1, CharacterOf
<1>3. r \in 0..2 /\ n = 4 * m + r
  BY <1>1 DEF Groups, Accumulate
<1>4. /\ bits' = Shifted(bits, x) /\ bitCount' = bitCount + 6 /\ decoded' = decoded
  BY <1>2 DEF Accumulate, MoreBits, Shifted
<1>5. bits = Pending(a, m, r) /\ bitCount = 6 * r
  BY <1>1 DEF Groups
<1>6. bits' = Pending(a, m, r + 1)
  <2>1. CASE r = 0
    BY <1>2, <1>3, <1>4, <1>5, <2>1 DEF Pending, Shifted, Sextet
  <2>2. CASE r = 1
    BY <1>2, <1>3, <1>4, <1>5, <2>2 DEF Pending
  <2>3. CASE r = 2
    BY <1>2, <1>3, <1>4, <1>5, <2>3 DEF Pending
  <2>4. QED
    BY <1>3, <2>1, <2>2, <2>3
<1>7. n + 1 = 4 * m + (r + 1) /\ bitCount' = 6 * (r + 1) /\ r + 1 \in 0..3
  BY <1>3, <1>4, <1>5
<1>8. Groups(a, n + 1, m, r + 1)'
  BY <1>1, <1>4, <1>6, <1>7 DEF Groups
<1>9. QED
  BY <1>7, <1>8 DEF Grouped

\* The fourth of a group completes three bytes.
LEMMA WriteGroups ==
  ASSUME NEW a \in Seq(Sextet), NEW n \in Nat, n < Len(a), Grouped(a, n),
         decoded \in Seq(Octet), WriteThree, text[pos + 1] = a[n + 1]
  PROVE  Grouped(a, n + 1)'
<1>1. PICK m \in Nat, r \in 0..3 : Groups(a, n, m, r)
  BY DEF Grouped
<1>2. r = 3 /\ n = 4 * m + 3 /\ bits = Pending(a, m, r)
  BY <1>1 DEF Groups, WriteThree
<1>3. PICK s1 \in Sextet, s2 \in Sextet, s3 \in Sextet, s4 \in Sextet :
        a[4 * m + 1] = s1 /\ a[4 * m + 2] = s2 /\ a[4 * m + 3] = s3 /\ a[4 * m + 4] = s4
  <2>1. 4 * m + 1 \in 1..Len(a) /\ 4 * m + 2 \in 1..Len(a) /\ 4 * m + 3 \in 1..Len(a) /\ 4 * m + 4 \in 1..Len(a)
    BY ONLY <1>2, a \in Seq(Sextet), m \in Nat, n < Len(a)
  <2>2. \E x \in Sextet : a[4 * m + 1] = x
    BY ONLY <2>1, a \in Seq(Sextet), CharacterOf, Zenon
  <2>3. \E x \in Sextet : a[4 * m + 2] = x
    BY ONLY <2>1, a \in Seq(Sextet), CharacterOf, Zenon
  <2>4. \E x \in Sextet : a[4 * m + 3] = x
    BY ONLY <2>1, a \in Seq(Sextet), CharacterOf, Zenon
  <2>5. \E x \in Sextet : a[4 * m + 4] = x
    BY ONLY <2>1, a \in Seq(Sextet), CharacterOf, Zenon
  <2>6. QED
    BY ONLY <2>2, <2>3, <2>4, <2>5, Zenon
<1>4. MoreBits = Shifted(Shifted(Shifted(s1, s2), s3), s4)
  <2>1. bits = Shifted(Shifted(s1, s2), s3)
    BY <1>2, <1>3 DEF Pending
  <2>2. n + 1 = 4 * m + 4
    BY <1>2
  <2>3. text[pos + 1] = s4
    BY <1>3, <2>2
  <2>4. MoreBits = Shifted(bits, text[pos + 1])
    BY DEF MoreBits, Shifted
  <2>5. QED
    BY <2>1, <2>3, <2>4
<1>5. PICK y1 \in Octet, y2 \in Octet, y3 \in Octet :
        High(s1, s2) = y1 /\ Middle(s2, s3) = y2 /\ Low(s3, s4) = y3
  BY BytesType
<1>6. decoded' = decoded \o <<y1, y2, y3>>
  <2>1. ThreeBytes(MoreBits) = <<High(s1, s2), Middle(s2, s3), Low(s3, s4)>>
    BY <1>4, ThreeBytesAre
  <2>2. QED
    BY <1>5, <2>1 DEF WriteThree
<1>7. 4 * m + 2 <= Len(a) /\ 4 * m + 3 <= Len(a) /\ 4 * m + 4 <= Len(a)
  BY <1>2
<1>8. y1 = Byte(a, 3 * m + 1) /\ y2 = Byte(a, 3 * m + 2) /\ y3 = Byte(a, 3 * m + 3)
  BY <1>3, <1>5, <1>7, GroupBytes
<1>9. PICK l \in Nat : l = 3 * m
  OBVIOUS
<1>10. Len(decoded) = l /\ \A k \in 1..l : decoded[k] = Byte(a, k)
  BY <1>1, <1>9 DEF Groups
<1>11. /\ Len(decoded') = l + 3
       /\ \A k \in 1..l : decoded'[k] = decoded[k]
       /\ decoded'[l + 1] = y1 /\ decoded'[l + 2] = y2 /\ decoded'[l + 3] = y3
  <2>1. ThreeMore(decoded, Len(decoded), y1, y2, y3, decoded \o <<y1, y2, y3>>)
    BY ThreeJoined, Zenon
  <2>2. ThreeMore(decoded, l, y1, y2, y3, decoded')
    BY <1>6, <1>10, <2>1, Zenon
  <2>3. QED
    BY <2>2, Zenon DEF ThreeMore
<1>12. \A k \in 1..(l + 3) : decoded'[k] = Byte(a, k)
  <2>1. ASSUME NEW k \in 1..(l + 3) PROVE decoded'[k] = Byte(a, k)
    <3>1. k \in 1..l \/ k = l + 1 \/ k = l + 2 \/ k = l + 3
      OBVIOUS
    <3>2. QED
      BY <1>8, <1>9, <1>10, <1>11, <3>1
  <2>2. QED
    BY <2>1
<1>13. bits' = 0 /\ bitCount' = 0
  BY DEF WriteThree
<1>14. /\ n + 1 = 4 * (m + 1) + 0 /\ l + 3 = 3 * (m + 1)
       /\ m + 1 \in Nat /\ 0 \in 0..3 /\ Len(decoded') = l + 3
  BY ONLY <1>2, <1>9, <1>11, m \in Nat, l \in Nat
<1>15. Groups(a, n + 1, m + 1, 0)'
  BY <1>12, <1>13, <1>14 DEF Groups, Pending
<1>16. QED
  BY <1>14, <1>15 DEF Grouped

\* What is pending in the end is one byte or two, or six bits that are no byte.
LEMMA FinishGroups ==
  ASSUME NEW a \in Seq(Sextet), Grouped(a, Len(a)), decoded \in Seq(Octet), Finish
  PROVE  decoded' = WholeBytes(a)
<1>1. PICK m \in Nat, r \in 0..3 : Groups(a, Len(a), m, r)
  BY DEF Grouped
<1>2. Len(a) = 4 * m + r /\ bitCount = 6 * r /\ bits = Pending(a, m, r)
  BY <1>1 DEF Groups
<1>3. PICK l \in Nat : l = 3 * m
  OBVIOUS
<1>4. Len(decoded) = l /\ \A k \in 1..l : decoded[k] = Byte(a, k)
  BY <1>1, <1>3 DEF Groups
<1>5. decoded' = decoded \o LastBytes
  BY DEF Finish
<1>6. CASE r \in {0, 1}
  <2>1. (6 * Len(a)) \div 8 = l
    BY <1>2, <1>3, <1>6
  <2>2. LastBytes = << >>
    BY <1>2, <1>6 DEF LastBytes
  <2>3. decoded' = decoded
    BY <1>5, <2>2
  <2>4. WholeBytes(a) = [k \in 1..l |-> Byte(a, k)]
    BY <2>1 DEF WholeBytes
  <2>5. QED
    BY <1>4, <2>3, <2>4
<1>7. CASE r = 2
  <2>1. PICK s1 \in Sextet, s2 \in Sextet : a[4 * m + 1] = s1 /\ a[4 * m + 2] = s2
    <3>1. 4 * m + 1 \in 1..Len(a) /\ 4 * m + 2 \in 1..Len(a)
      BY <1>2, <1>7
    <3>2. \E x \in Sextet : a[4 * m + 1] = x
      BY ONLY <3>1, a \in Seq(Sextet), CharacterOf, Zenon
    <3>3. \E x \in Sextet : a[4 * m + 2] = x
      BY ONLY <3>1, a \in Seq(Sextet), CharacterOf, Zenon
    <3>4. QED
      BY ONLY <3>2, <3>3, Zenon
  <2>2. PICK y1 \in Octet : High(s1, s2) = y1
    BY BytesType
  <2>3. (6 * Len(a)) \div 8 = l + 1 /\ 4 * m + 2 <= Len(a)
    BY <1>2, <1>3, <1>7
  <2>4. Byte(a, l + 1) = y1
    BY <1>3, <2>1, <2>2, <2>3, GroupBytes
  <2>5. LastBytes = <<y1>>
    <3>1. bits = Shifted(s1, s2) /\ bitCount = 12
      BY <1>2, <1>7, <2>1 DEF Pending
    <3>2. QED
      BY <2>2, <3>1, OneLast
  <2>6. decoded' = [k \in 1..(l + 1) |-> IF k <= l THEN decoded[k] ELSE y1]
    BY <1>4, <1>5, <2>5, OneJoined
  <2>7. WholeBytes(a) = [k \in 1..(l + 1) |-> Byte(a, k)]
    BY <2>3 DEF WholeBytes
  <2>8. ASSUME NEW k \in 1..(l + 1) PROVE (IF k <= l THEN decoded[k] ELSE y1) = Byte(a, k)
    BY <1>4, <2>4
  <2>9. QED
    BY <2>6, <2>7, <2>8
<1>8. CASE r = 3
  <2>1. PICK s1 \in Sextet, s2 \in Sextet, s3 \in Sextet :
          a[4 * m + 1] = s1 /\ a[4 * m + 2] = s2 /\ a[4 * m + 3] = s3
    <3>1. 4 * m + 1 \in 1..Len(a) /\ 4 * m + 2 \in 1..Len(a) /\ 4 * m + 3 \in 1..Len(a)
      BY <1>2, <1>8
    <3>2. \E x \in Sextet : a[4 * m + 1] = x
      BY ONLY <3>1, a \in Seq(Sextet), CharacterOf, Zenon
    <3>3. \E x \in Sextet : a[4 * m + 2] = x
      BY ONLY <3>1, a \in Seq(Sextet), CharacterOf, Zenon
    <3>4. \E x \in Sextet : a[4 * m + 3] = x
      BY ONLY <3>1, a \in Seq(Sextet), CharacterOf, Zenon
    <3>5. QED
      BY ONLY <3>2, <3>3, <3>4, Zenon
  <2>2. PICK y1 \in Octet, y2 \in Octet : High(s1, s2) = y1 /\ Middle(s2, s3) = y2
    BY BytesType
  <2>3. (6 * Len(a)) \div 8 = l + 2 /\ 4 * m + 2 <= Len(a) /\ 4 * m + 3 <= Len(a)
    BY <1>2, <1>3, <1>8
  <2>4. Byte(a, l + 1) = y1 /\ Byte(a, l + 2) = y2
    BY <1>3, <2>1, <2>2, <2>3, GroupBytes
  <2>5. LastBytes = <<y1, y2>>
    <3>1. bits = Shifted(Shifted(s1, s2), s3) /\ bitCount = 18
      BY <1>2, <1>8, <2>1 DEF Pending
    <3>2. QED
      BY <2>2, <3>1, TwoLast
  <2>6. decoded' = [k \in 1..(l + 2) |-> IF k <= l THEN decoded[k] ELSE IF k = l + 1 THEN y1 ELSE y2]
    BY <1>4, <1>5, <2>5, TwoJoined
  <2>7. WholeBytes(a) = [k \in 1..(l + 2) |-> Byte(a, k)]
    BY <2>3 DEF WholeBytes
  <2>8. ASSUME NEW k \in 1..(l + 2)
        PROVE  (IF k <= l THEN decoded[k] ELSE IF k = l + 1 THEN y1 ELSE y2) = Byte(a, k)
    <3>1. k \in 1..l \/ (~(k <= l) /\ k = l + 1) \/ (~(k <= l) /\ k # l + 1 /\ k = l + 2)
      OBVIOUS
    <3>2. QED
      BY <1>4, <2>4, <3>1
  <2>9. QED
    BY <2>6, <2>7, <2>8
<1>9. QED
  BY <1>6, <1>7, <1>8
-----------------------------------------------------------------------------
(***************************************************************************)
(* The decoder reads what its text spells.                                 *)
(***************************************************************************)
ReadSoFar(c) ==
  /\ Spells(text, Alphabet(text), c)
  /\ decoding => Grouped(Alphabet(text), c[pos])
  /\ ~decoding => decoded = WholeBytes(Alphabet(text))

ReadInv == DecTypeOK /\ \E c : ReadSoFar(c)

\* The alphabet of a text is its sextets.
LEMMA TextSpelt ==
  ASSUME NEW t \in Seq(-4..63)
  PROVE  Alphabet(t) \in Seq(Sextet) /\ \E c : Spells(t, Alphabet(t), c)
BY AlphabetType, AlphabetSpelt DEF Sextet

\* Nothing has been read when a decode starts.
LEMMA StartReads ==
  ASSUME text \in Seq(-4..63), pos = 0, bits = 0, bitCount = 0, decoded = << >>, decoding = TRUE
  PROVE  ReadInv
<1>1. PICK c : Spells(text, Alphabet(text), c)
  BY TextSpelt
<1>2. c[0] = 0
  BY <1>1 DEF Spells
<1>3. Groups(Alphabet(text), 0, 0, 0)
  BY DEF Groups, Pending
<1>4. Grouped(Alphabet(text), c[pos])
  BY <1>2, <1>3 DEF Grouped
<1>5. DecTypeOK
  BY DEF DecTypeOK, PendingBits
<1>6. QED
  BY <1>1, <1>4, <1>5 DEF ReadInv, ReadSoFar

\* What the next character adds to what has been read.
LEMMA NextSpelt ==
  ASSUME NEW t \in Seq(-4..63), NEW a \in Seq(Sextet), NEW c, Spells(t, a, c),
         NEW p \in 0..Len(t), p < Len(t)
  PROVE  /\ c[p] \in Nat
         /\ t[p + 1] < 0 => c[p + 1] = c[p]
         /\ t[p + 1] >= 0 => c[p + 1] = c[p] + 1 /\ c[p] < Len(a) /\ a[c[p] + 1] = t[p + 1]
<1>1. p + 1 \in 1..Len(t) /\ (p + 1) - 1 = p /\ p + 1 \in 0..Len(t)
  OBVIOUS
<1>2. c[p] \in 0..Len(a) /\ c[p + 1] \in 0..Len(a)
  BY <1>1 DEF Spells
<1>3. /\ t[p + 1] < 0 => c[p + 1] = c[p]
      /\ t[p + 1] >= 0 => c[p + 1] = c[p] + 1 /\ a[c[p + 1]] = t[p + 1]
  BY <1>1 DEF Spells
<1>4. QED
  BY <1>2, <1>3

\* Every step of the decoder keeps to its text.
LEMMA ReadNextInv == DecInv /\ ReadInv /\ [DecNext]_dvars => ReadInv'
<1> SUFFICES ASSUME DecInv, ReadInv, [DecNext]_dvars PROVE ReadInv'
  OBVIOUS
<1>1. DecTypeOK'
  BY DecNextInv DEF DecInv
<1>2. PICK c : ReadSoFar(c)
  BY DEF ReadInv
<1>3. PICK t : t = text
  OBVIOUS
<1>4. PICK a : a = Alphabet(t)
  OBVIOUS
<1>5. t \in Seq(-4..63) /\ pos \in 0..Len(t) /\ decoded \in Seq(Octet)
  BY <1>3 DEF ReadInv, DecTypeOK, Octet
<1>6. a \in Seq(Sextet)
  BY <1>4, <1>5, TextSpelt, Zenon
<1>7. /\ Spells(t, a, c)
      /\ decoding => Grouped(a, c[pos])
      /\ ~decoding => decoded = WholeBytes(a)
  BY <1>2, <1>3, <1>4, Zenon DEF ReadSoFar
<1>8. ASSUME text' = text, decoding' => Grouped(a, c[pos])', ~decoding' => decoded' = WholeBytes(a)
      PROVE  ReadInv'
  <2>1. text' = t /\ Alphabet(text)' = a
    <3>1. text' = t
      BY <1>3, <1>8
    <3>2. Alphabet(text') = a
      BY <1>4, <3>1
    <3>3. QED
      BY <3>1, <3>2
  <2>2. ReadSoFar(c)'
    BY <1>7, <1>8, <2>1 DEF ReadSoFar
  <2>3. QED
    BY <1>1, <2>2 DEF ReadInv
<1>9. ASSUME text' = text, pos' = pos + 1, decoding', NEW n, c[pos + 1] = n, Grouped(a, n)'
      PROVE  ReadInv'
  <2>1. c[pos'] = n
    BY <1>9
  <2>2. Grouped(a, c[pos])'
    BY <1>9, <2>1 DEF Grouped, Groups
  <2>3. QED
    BY <1>8, <1>9, <2>2
<1>10. ASSUME pos < Len(t)
       PROVE  /\ c[pos] \in Nat
              /\ t[pos + 1] < 0 => c[pos + 1] = c[pos]
              /\ t[pos + 1] >= 0 => c[pos + 1] = c[pos] + 1 /\ c[pos] < Len(a) /\ a[c[pos] + 1] = t[pos + 1]
  <2>1. PICK p : p = pos
    OBVIOUS
  <2>2. p \in 0..Len(t) /\ p < Len(t)
    BY <1>5, <1>10, <2>1
  <2>3. Spells(t, a, c)
    BY <1>7
  <2>4. /\ c[p] \in Nat
        /\ t[p + 1] < 0 => c[p + 1] = c[p]
        /\ t[p + 1] >= 0 => c[p + 1] = c[p] + 1 /\ c[p] < Len(a) /\ a[c[p] + 1] = t[p + 1]
    BY ONLY <1>5, <1>6, <2>2, <2>3, NextSpelt
  <2>5. QED
    BY <2>1, <2>4
<1>11. CASE Skip
  <2>1. /\ decoding /\ pos < Len(t) /\ t[pos + 1] < 0 /\ pos' = pos + 1
        /\ text' = text /\ bits' = bits /\ bitCount' = bitCount /\ decoded' = decoded /\ decoding'
    BY <1>3, <1>11, Zenon DEF Skip
  <2>2. PICK n : n = c[pos]
    OBVIOUS
  <2>3. c[pos + 1] = n /\ Grouped(a, n)
    <3>1. c[pos + 1] = c[pos]
      BY <1>10, <2>1
    <3>2. Grouped(a, c[pos])
      BY <1>7, <2>1, Zenon
    <3>3. QED
      BY <2>2, <3>1, <3>2, Zenon
  <2>4. Grouped(a, n)'
    BY <2>1, <2>3 DEF Grouped, Groups
  <2>5. QED
    BY <1>9, <2>1, <2>3, <2>4
<1>12. ASSUME decoding, pos < Len(text), text[pos + 1] >= 0
       PROVE  \E n \in Nat : /\ c[pos + 1] = n + 1 /\ n < Len(a) /\ a[n + 1] = text[pos + 1]
                             /\ Grouped(a, n)
  <2>1. PICK n : n = c[pos]
    OBVIOUS
  <2>2. pos < Len(t) /\ t[pos + 1] >= 0 /\ Grouped(a, n)
    BY <1>3, <1>7, <1>12, <2>1, Zenon
  <2>3. n \in Nat /\ c[pos + 1] = n + 1 /\ n < Len(a) /\ a[n + 1] = text[pos + 1]
    BY <1>3, <1>10, <2>1, <2>2
  <2>4. QED
    BY <2>2, <2>3, Zenon
<1>13. CASE Accumulate
  <2>1. /\ decoding /\ pos < Len(text) /\ text[pos + 1] >= 0 /\ pos' = pos + 1
        /\ text' = text /\ decoding'
    BY <1>13, Zenon DEF Accumulate
  <2>2. PICK n \in Nat : c[pos + 1] = n + 1 /\ n < Len(a) /\ a[n + 1] = text[pos + 1] /\ Grouped(a, n)
    BY <1>12, <2>1
  <2>3. Grouped(a, n + 1)'
    BY <1>6, <1>13, <2>2, AccumulateGroups
  <2>4. QED
    BY <1>9, <2>1, <2>2, <2>3
<1>14. CASE WriteThree
  <2>1. /\ decoding /\ pos < Len(text) /\ text[pos + 1] >= 0 /\ pos' = pos + 1
        /\ text' = text /\ decoding'
    BY <1>14, Zenon DEF WriteThree
  <2>2. PICK n \in Nat : c[pos + 1] = n + 1 /\ n < Len(a) /\ a[n + 1] = text[pos + 1] /\ Grouped(a, n)
    BY <1>12, <2>1
  <2>3. Grouped(a, n + 1)'
    BY <1>5, <1>6, <1>14, <2>2, WriteGroups
  <2>4. QED
    BY <1>9, <2>1, <2>2, <2>3
<1>15. CASE Finish
  <2>1. decoding /\ pos = Len(t) /\ ~decoding' /\ text' = text
    BY <1>3, <1>15 DEF Finish
  <2>2. c[pos] = Len(a) /\ Grouped(a, Len(a))
    BY <1>7, <2>1 DEF Spells
  <2>3. decoded' = WholeBytes(a)
    BY <1>5, <1>6, <1>15, <2>2, FinishGroups
  <2>4. QED
    BY <1>8, <2>1, <2>3
<1>16. CASE UNCHANGED dvars
  BY <1>1, <1>2, <1>16 DEF dvars, ReadInv, ReadSoFar, Grouped, Groups, Alphabet, WholeBytes
<1>17. QED
  BY <1>11, <1>13, <1>14, <1>15, <1>16 DEF DecNext

LEMMA ReadInvMatches == ReadInv => DecodeMatchesBits
BY DEF ReadInv, ReadSoFar, DecodeMatchesBits

LEMMA ReadInitInv == DecInit => ReadInv
<1> SUFFICES ASSUME NEW t \in Texts, DecodeStart(t) PROVE ReadInv
  BY DEF DecInit
<1>1. text \in Seq(-4..63)
  BY TextsAssumption DEF DecodeStart
<1>2. QED
  BY <1>1, StartReads DEF DecodeStart

\* Whatever the text, its bytes are the whole bytes of the bits its characters of
\* the alphabet stand for (util.cpp:169-191).
THEOREM DecodesWholeBytes == DecSpec => []DecodeMatchesBits
<1>1. DecInit => DecInv /\ ReadInv
  BY DecInitInv, ReadInitInv
<1>2. DecInv /\ ReadInv /\ [DecNext]_dvars => DecInv' /\ ReadInv'
  BY DecNextInv, ReadNextInv
<1>3. QED
  BY <1>1, <1>2, ReadInvMatches, PTL DEF DecSpec
\* Whatever the text, the decoder stays within its buffer, and its pending bits
\* within their integer: assert(data.size() >= out) (util.cpp:159-193).
THEOREM DecodeStaysInBounds == DecSpec => [](DecTypeOK /\ DecodeFits)
<1>1. DecInv => DecTypeOK
  BY DEF DecInv
<1>2. QED
  BY DecInitInv, DecNextInv, DecInvFits, <1>1, PTL DEF DecSpec

-----------------------------------------------------------------------------
(***************************************************************************)
(* What the encoder writes spells its input.                               *)
(***************************************************************************)
\* Three bytes are restored from four characters.
LEMMA Restored ==
  ASSUME NEW b1 \in Octet, NEW b2 \in Octet, NEW b3 \in Octet
  PROVE  /\ Base64Char0(b1) \in Sextet /\ Base64Char1(b1, b2) \in Sextet
         /\ Base64Char2(b2, b3) \in Sextet /\ Base64Char3(b3) \in Sextet
         /\ High(Base64Char0(b1), Base64Char1(b1, b2)) = b1
         /\ Middle(Base64Char1(b1, b2), Base64Char2(b2, b3)) = b2
         /\ Low(Base64Char2(b2, b3), Base64Char3(b3)) = b3
<1> USE DEF Sextet, Octet
<1>1. PICK p \in 0..63, q \in 0..3 : b1 = 4 * p + q
  <2>1. PICK p \in Nat, q \in 0..3 : p = b1 \div 4 /\ q = b1 % 4 /\ b1 = 4 * p + q
    OBVIOUS
  <2>2. p \in 0..63
    BY <2>1
  <2>3. QED
    BY <2>1, <2>2
<1>2. PICK r \in 0..15, s \in 0..15 : b2 = 16 * r + s
  <2>1. PICK r \in Nat, s \in 0..15 : r = b2 \div 16 /\ s = b2 % 16 /\ b2 = 16 * r + s
    OBVIOUS
  <2>2. r \in 0..15
    BY <2>1
  <2>3. QED
    BY <2>1, <2>2
<1>3. PICK t \in 0..3, u \in 0..63 : b3 = 64 * t + u
  <2>1. PICK t \in Nat, u \in 0..63 : t = b3 \div 64 /\ u = b3 % 64 /\ b3 = 64 * t + u
    OBVIOUS
  <2>2. t \in 0..3
    BY <2>1
  <2>3. QED
    BY <2>1, <2>2
<1>4. Base64Char0(b1) = p
  BY <1>1 DEF Base64Char0
<1>5. Base64Char1(b1, b2) = 16 * q + r
  BY <1>1, <1>2 DEF Base64Char1
<1>6. Base64Char2(b2, b3) = 4 * s + t
  BY <1>2, <1>3 DEF Base64Char2
<1>7. Base64Char3(b3) = u
  BY <1>3 DEF Base64Char3
<1>8. High(p, 16 * q + r) = b1
  BY <1>1, <1>2 DEF High
<1>9. Middle(16 * q + r, 4 * s + t) = b2
  BY <1>1, <1>2, <1>3 DEF Middle
<1>10. Low(4 * s + t, u) = b3
  BY <1>2, <1>3 DEF Low
<1>11. 16 * q + r \in 0..63 /\ 4 * s + t \in 0..63
  BY <1>1, <1>2, <1>3
<1>12. QED
  BY <1>4, <1>5, <1>6, <1>7, <1>8, <1>9, <1>10, <1>11, Zenon

\* The input, with a zero for a byte it does not have.
Padded(d, i) == IF i <= Len(d) THEN d[i] ELSE 0

LEMMA PaddedType ==
  ASSUME NEW d \in Seq(Octet), NEW i \in Nat, i >= 1
  PROVE  Padded(d, i) \in Octet
<1>1. CASE i <= Len(d)
  <2>1. i \in 1..Len(d)
    BY <1>1
  <2>2. QED
    BY <1>1, <2>1, ElementOfSeq DEF Padded
<1>2. CASE ~(i <= Len(d))
  BY <1>2 DEF Padded, Octet
<1>3. QED
  BY <1>1, <1>2

\* As far as group g is there, it is the characters of its three bytes.
GroupSpelt(a, d, g) ==
  /\ 4 * g + 1 <= Len(a) => a[4 * g + 1] = Base64Char0(Padded(d, 3 * g + 1))
  /\ 4 * g + 2 <= Len(a) => a[4 * g + 2] = Base64Char1(Padded(d, 3 * g + 1), Padded(d, 3 * g + 2))
  /\ 4 * g + 3 <= Len(a) => a[4 * g + 3] = Base64Char2(Padded(d, 3 * g + 2), Padded(d, 3 * g + 3))
  /\ 4 * g + 4 <= Len(a) => a[4 * g + 4] = Base64Char3(Padded(d, 3 * g + 3))

SpeltSo(a, d) == \A g \in Nat : GroupSpelt(a, d, g)

\* Characters that spell so many bytes are those bytes.
LEMMA SpeltBytes ==
  ASSUME NEW a \in Seq(Sextet), NEW d \in Seq(Octet), SpeltSo(a, d),
         (6 * Len(a)) \div 8 = Len(d)
  PROVE  WholeBytes(a) = d
<1>1. PICK l \in Nat, n \in Nat : l = Len(a) /\ n = Len(d) /\ (6 * l) \div 8 = n
  OBVIOUS
<1>2. ASSUME NEW k \in 1..n PROVE Byte(a, k) = d[k]
  <2>1. PICK m \in Nat, j \in 1..3 : k = 3 * m + j
    <3>1. (k - 1) \div 3 \in Nat /\ ((k - 1) % 3) + 1 \in 1..3 /\ k = 3 * ((k - 1) \div 3) + (((k - 1) % 3) + 1)
      OBVIOUS
    <3>2. QED
      BY <3>1
  <2>2. PICK b1 \in Octet, b2 \in Octet, b3 \in Octet :
          b1 = Padded(d, 3 * m + 1) /\ b2 = Padded(d, 3 * m + 2) /\ b3 = Padded(d, 3 * m + 3)
    <3>1. 3 * m + 1 \in Nat /\ 3 * m + 1 >= 1 /\ 3 * m + 2 \in Nat /\ 3 * m + 2 >= 1 /\ 3 * m + 3 \in Nat /\ 3 * m + 3 >= 1
      OBVIOUS
    <3>2. QED
      BY <3>1, PaddedType
  <2>3. /\ 4 * m + 1 <= l => a[4 * m + 1] = Base64Char0(b1)
        /\ 4 * m + 2 <= l => a[4 * m + 2] = Base64Char1(b1, b2)
        /\ 4 * m + 3 <= l => a[4 * m + 3] = Base64Char2(b2, b3)
        /\ 4 * m + 4 <= l => a[4 * m + 4] = Base64Char3(b3)
    <3>1. GroupSpelt(a, d, m)
      BY DEF SpeltSo
    <3>2. QED
      BY <1>1, <2>2, <3>1, Zenon DEF GroupSpelt
  <2>4. /\ High(Base64Char0(b1), Base64Char1(b1, b2)) = b1
        /\ Middle(Base64Char1(b1, b2), Base64Char2(b2, b3)) = b2
        /\ Low(Base64Char2(b2, b3), Base64Char3(b3)) = b3
    BY Restored
  <2>5. Padded(d, k) = d[k]
    BY <1>1, <1>2 DEF Padded
  <2>6. CASE j = 1
    <3>1. 4 * m + 1 <= l /\ 4 * m + 2 <= l
      BY <1>1, <1>2, <2>1, <2>6
    <3>2. Byte(a, 3 * m + 1) = High(a[4 * m + 1], a[4 * m + 2])
      BY <1>1, <3>1, GroupBytes
    <3>3. Byte(a, 3 * m + 1) = b1
      BY <2>3, <2>4, <3>1, <3>2, Zenon
    <3>4. QED
      BY <2>1, <2>2, <2>5, <2>6, <3>3, Zenon
  <2>7. CASE j = 2
    <3>1. 4 * m + 2 <= l /\ 4 * m + 3 <= l
      BY <1>1, <1>2, <2>1, <2>7
    <3>2. Byte(a, 3 * m + 2) = Middle(a[4 * m + 2], a[4 * m + 3])
      BY <1>1, <3>1, GroupBytes
    <3>3. Byte(a, 3 * m + 2) = b2
      BY <2>3, <2>4, <3>1, <3>2, Zenon
    <3>4. QED
      BY <2>1, <2>2, <2>5, <2>7, <3>3, Zenon
  <2>8. CASE j = 3
    <3>1. 4 * m + 3 <= l /\ 4 * m + 4 <= l
      BY <1>1, <1>2, <2>1, <2>8
    <3>2. Byte(a, 3 * m + 3) = Low(a[4 * m + 3], a[4 * m + 4])
      BY <1>1, <3>1, GroupBytes
    <3>3. Byte(a, 3 * m + 3) = b3
      BY <2>3, <2>4, <3>1, <3>2, Zenon
    <3>4. QED
      BY <2>1, <2>2, <2>5, <2>8, <3>3, Zenon
  <2>9. QED
    BY <2>6, <2>7, <2>8
<1>3. WholeBytes(a) = [k \in 1..n |-> Byte(a, k)]
  BY <1>1 DEF WholeBytes
<1>4. d = [k \in 1..n |-> d[k]]
  BY <1>1
<1>5. QED
  BY <1>2, <1>3, <1>4

\* One group more, or what the tail has of it.
LEMMA SpeltOn ==
  ASSUME NEW a \in Seq(Sextet), NEW d, NEW m \in Nat, SpeltSo(a, d), Len(a) = 4 * m,
         NEW b \in Seq(Sextet), Len(b) <= 4 * m + 4,
         \A i \in 1..(4 * m) : b[i] = a[i], GroupSpelt(b, d, m)
  PROVE  SpeltSo(b, d)
<1>1. PICK l \in Nat : l = Len(b) /\ l <= 4 * m + 4
  OBVIOUS
<1>2. ASSUME NEW g \in Nat PROVE GroupSpelt(b, d, g)
  <2>1. CASE g < m
    <3>1. 4 * g + 1 \in 1..(4 * m) /\ 4 * g + 2 \in 1..(4 * m) /\ 4 * g + 3 \in 1..(4 * m) /\ 4 * g + 4 \in 1..(4 * m)
      BY <2>1
    <3>2. /\ 4 * g + 1 <= Len(a) /\ 4 * g + 2 <= Len(a) /\ 4 * g + 3 <= Len(a) /\ 4 * g + 4 <= Len(a)
          /\ b[4 * g + 1] = a[4 * g + 1] /\ b[4 * g + 2] = a[4 * g + 2]
          /\ b[4 * g + 3] = a[4 * g + 3] /\ b[4 * g + 4] = a[4 * g + 4]
      <4>1. /\ 4 * g + 1 <= 4 * m /\ 4 * g + 2 <= 4 * m /\ 4 * g + 3 <= 4 * m /\ 4 * g + 4 <= 4 * m
        BY ONLY <2>1, g \in Nat, m \in Nat
      <4>2. QED
        BY <3>1, <4>1, Zenon
    <3>3. GroupSpelt(a, d, g)
      BY DEF SpeltSo
    <3>4. QED
      BY <3>2, <3>3, Zenon DEF GroupSpelt
  <2>2. CASE g = m
    BY <2>2
  <2>3. CASE g > m
    <3>1. ~(4 * g + 1 <= l) /\ ~(4 * g + 2 <= l) /\ ~(4 * g + 3 <= l) /\ ~(4 * g + 4 <= l)
      BY <1>1, <2>3
    <3>2. QED
      BY <1>1, <3>1, Zenon DEF GroupSpelt
  <2>4. QED
    BY <2>1, <2>2, <2>3
<1>3. QED
  BY <1>2 DEF SpeltSo

-----------------------------------------------------------------------------
(***************************************************************************)
(* The characters of the alphabet in what is written, which the reader     *)
(* finds whatever else is there.                                           *)
(***************************************************************************)
Letters(s) == Alphabet(Normalised(s))

\* A character is in the alphabet, or it is a negative number.
LEMMA LettersKinds ==
  /\ Character \ {CR} \subseteq -4..63
  /\ \A x \in Sextet : x \in Character /\ x \notin {CR} /\ x \notin -4..-1
  /\ \A x \in {PAD, LF} : x \in Character /\ x \notin {CR} /\ x \in -4..-1
  /\ CR \in Character /\ CR \in {CR}
<1>1. Character \ {CR} \subseteq -4..63
  BY DEF Character, PAD, CR, LF, NUL
<1>2. ASSUME NEW x \in Sextet PROVE x \in Character /\ x \notin {CR} /\ x \notin -4..-1
  BY DEF Sextet, Character, CR
<1>3. ASSUME NEW x \in {PAD, LF} PROVE x \in Character /\ x \notin {CR} /\ x \in -4..-1
  BY DEF Character, PAD, CR, LF
<1>4. CR \in Character /\ CR \in {CR}
  BY DEF Character
<1>5. QED
  BY <1>1, <1>2, <1>3, <1>4

LEMMA WiderSeq == ASSUME NEW S, NEW T, S \subseteq T, NEW s \in Seq(S) PROVE s \in Seq(T)
OBVIOUS

LEMMA NormalisedType ==
  ASSUME NEW s \in Seq(Character) PROVE Normalised(s) \in Seq(-4..63)
<1>1. Normalised(s) \in Seq(Character \ {CR})
  BY WithoutType DEF Normalised
<1>2. Character \ {CR} \subseteq -4..63
  BY LettersKinds, Zenon
<1>3. QED
  BY ONLY <1>1, <1>2, WiderSeq

LEMMA LettersType ==
  ASSUME NEW s \in Seq(Character) PROVE Letters(s) \in Seq(Sextet)
BY NormalisedType, AlphabetType DEF Letters, Sextet

LEMMA LettersAppend ==
  ASSUME NEW s \in Seq(Character)
  PROVE  /\ \A x \in {PAD, CR, LF} : Append(s, x) \in Seq(Character) /\ Letters(Append(s, x)) = Letters(s)
         /\ \A x \in Sextet : /\ Append(s, x) \in Seq(Character)
                              /\ Letters(Append(s, x)) = Append(Letters(s), x)
<1>1. PICK n : n = Normalised(s)
  OBVIOUS
<1>2. n \in Seq(-4..63)
  BY <1>1, NormalisedType
<1>3. ASSUME NEW x \in Character
      PROVE  /\ Append(s, x) \in Seq(Character)
             /\ x \in {CR} => Normalised(Append(s, x)) = n
             /\ x \notin {CR} => Normalised(Append(s, x)) = Append(n, x)
  BY <1>1, WithoutAppend DEF Normalised
<1>4. ASSUME NEW x \in -4..63
      PROVE  /\ x \in -4..-1 => Alphabet(Append(n, x)) = Alphabet(n)
             /\ x \notin -4..-1 => Alphabet(Append(n, x)) = Append(Alphabet(n), x)
  <2>1. /\ x \in -4..-1 => Without(Append(n, x), -4..-1) = Without(n, -4..-1)
        /\ x \notin -4..-1 => Without(Append(n, x), -4..-1) = Append(Without(n, -4..-1), x)
    BY <1>2, WithoutAppend
  <2>2. QED
    BY <2>1, Zenon DEF Alphabet
<1>5. ASSUME NEW x \in {PAD, LF}
      PROVE  Append(s, x) \in Seq(Character) /\ Letters(Append(s, x)) = Letters(s)
  <2>1. x \in Character /\ x \notin {CR} /\ x \in -4..-1 /\ x \in -4..63
    BY LettersKinds
  <2>2. QED
    BY <1>1, <1>3, <1>4, <2>1, Zenon DEF Letters
<1>6. Append(s, CR) \in Seq(Character) /\ Letters(Append(s, CR)) = Letters(s)
  BY <1>1, <1>3, LettersKinds, Zenon DEF Letters
<1>7. ASSUME NEW x \in Sextet
      PROVE  Append(s, x) \in Seq(Character) /\ Letters(Append(s, x)) = Append(Letters(s), x)
  <2>1. x \in Character /\ x \notin {CR} /\ x \notin -4..-1 /\ x \in -4..63
    BY LettersKinds
  <2>2. QED
    BY <1>1, <1>3, <1>4, <2>1, Zenon DEF Letters
<1>8. QED
  BY <1>5, <1>6, <1>7

LEMMA Joined ==
  ASSUME NEW S, NEW s \in Seq(S), NEW x1 \in S, NEW x2 \in S, NEW x3 \in S, NEW x4 \in S
  PROVE  /\ s \o <<x1, x2>> = Append(Append(s, x1), x2)
         /\ s \o <<x1, x2, x3, x4>> = Append(Append(Append(Append(s, x1), x2), x3), x4)
OBVIOUS

\* What the encoder writes: characters of the alphabet, padding and line breaks,
\* and never a NUL.
Written == Sextet \cup {PAD, CR, LF}

LEMMA WrittenKinds ==
  /\ Written \subseteq Character /\ NUL \notin Written
  /\ PAD \in Written /\ CR \in Written /\ LF \in Written
  /\ \A x \in Sextet : x \in Written
BY DEF Written, Sextet, Character, PAD, CR, LF, NUL

\* One character more, in what is written and in its letters.
LEMMA LettersMore ==
  ASSUME NEW s \in Seq(Written)
  PROVE  /\ Letters(s) \in Seq(Sextet)
         /\ \A x \in {PAD, CR, LF} : Append(s, x) \in Seq(Written) /\ Letters(Append(s, x)) = Letters(s)
         /\ \A x \in Sextet : /\ Append(s, x) \in Seq(Written)
                              /\ Letters(Append(s, x)) = Append(Letters(s), x)
<1>1. s \in Seq(Character)
  BY WrittenKinds, WiderSeq
<1>2. \A x \in Written : Append(s, x) \in Seq(Written)
  BY AppendedSeq, Zenon
<1>3. \A x \in {PAD, CR, LF} : x \in Written
  BY WrittenKinds, Zenon
<1>4. QED
  BY <1>1, <1>2, <1>3, LettersType, LettersAppend, WrittenKinds, Zenon

\* Two, three or four characters more.
TwoOn(s, x1, x2) == Append(Append(s, x1), x2)
ThreeOn(s, x1, x2, x3) == Append(Append(Append(s, x1), x2), x3)
FourOf(x1, x2, x3, x4) == x1 \in Sextet /\ x2 \in Sextet /\ x3 \in Sextet /\ x4 \in Sextet
FourOn(s, x1, x2, x3, x4) == Append(Append(Append(Append(s, x1), x2), x3), x4)

\* The groups: whole, of two bytes and of one, and the line break.
LEMMA LettersGroup ==
  ASSUME NEW s \in Seq(Written), NEW x1, NEW x2, NEW x3, NEW x4, FourOf(x1, x2, x3, x4)
  PROVE  /\ s \o <<x1, x2, x3, x4>> \in Seq(Written)
         /\ Letters(s \o <<x1, x2, x3, x4>>) = FourOn(Letters(s), x1, x2, x3, x4)
<1>0. x1 \in Sextet /\ x2 \in Sextet /\ x3 \in Sextet /\ x4 \in Sextet
  BY DEF FourOf
<1>1. s \o <<x1, x2, x3, x4>> = Append(Append(Append(Append(s, x1), x2), x3), x4)
  BY <1>0, WrittenKinds, Joined
<1>2. Append(s, x1) \in Seq(Written) /\ Letters(Append(s, x1)) = Append(Letters(s), x1)
  BY <1>0, LettersMore, Zenon
<1>3. PICK t : t = Append(s, x1)
  OBVIOUS
<1>4. Append(t, x2) \in Seq(Written) /\ Letters(Append(t, x2)) = Append(Letters(t), x2)
  BY <1>2, <1>3, <1>0, LettersMore, Zenon
<1>5. PICK u : u = Append(t, x2)
  OBVIOUS
<1>6. Append(u, x3) \in Seq(Written) /\ Letters(Append(u, x3)) = Append(Letters(u), x3)
  BY <1>4, <1>5, <1>0, LettersMore, Zenon
<1>7. PICK v : v = Append(u, x3)
  OBVIOUS
<1>8. Append(v, x4) \in Seq(Written) /\ Letters(Append(v, x4)) = Append(Letters(v), x4)
  BY <1>6, <1>7, <1>0, LettersMore, Zenon
<1>9. QED
  BY <1>1, <1>2, <1>3, <1>4, <1>5, <1>6, <1>7, <1>8, Zenon DEF FourOn

LEMMA LettersTwoBytes ==
  ASSUME NEW s \in Seq(Written), NEW x1 \in Sextet, NEW x2 \in Sextet, NEW x3 \in Sextet
  PROVE  /\ s \o <<x1, x2, x3, PAD>> \in Seq(Written)
         /\ Letters(s \o <<x1, x2, x3, PAD>>) = ThreeOn(Letters(s), x1, x2, x3)
<1>1. s \o <<x1, x2, x3, PAD>> = Append(Append(Append(Append(s, x1), x2), x3), PAD)
  BY WrittenKinds, Joined
<1>2. Append(s, x1) \in Seq(Written) /\ Letters(Append(s, x1)) = Append(Letters(s), x1)
  BY LettersMore, Zenon
<1>3. PICK t : t = Append(s, x1)
  OBVIOUS
<1>4. Append(t, x2) \in Seq(Written) /\ Letters(Append(t, x2)) = Append(Letters(t), x2)
  BY <1>2, <1>3, LettersMore, Zenon
<1>5. PICK u : u = Append(t, x2)
  OBVIOUS
<1>6. Append(u, x3) \in Seq(Written) /\ Letters(Append(u, x3)) = Append(Letters(u), x3)
  BY <1>4, <1>5, LettersMore, Zenon
<1>7. PICK v : v = Append(u, x3)
  OBVIOUS
<1>8. Append(v, PAD) \in Seq(Written) /\ Letters(Append(v, PAD)) = Letters(v)
  BY <1>6, <1>7, LettersMore, Zenon
<1>9. QED
  BY <1>1, <1>2, <1>3, <1>4, <1>5, <1>6, <1>7, <1>8, Zenon DEF ThreeOn

LEMMA LettersOneByte ==
  ASSUME NEW s \in Seq(Written), NEW x1 \in Sextet, NEW x2 \in Sextet
  PROVE  /\ s \o <<x1, x2, PAD, PAD>> \in Seq(Written)
         /\ Letters(s \o <<x1, x2, PAD, PAD>>) = TwoOn(Letters(s), x1, x2)
<1>1. s \o <<x1, x2, PAD, PAD>> = Append(Append(Append(Append(s, x1), x2), PAD), PAD)
  BY WrittenKinds, Joined
<1>2. Append(s, x1) \in Seq(Written) /\ Letters(Append(s, x1)) = Append(Letters(s), x1)
  BY LettersMore, Zenon
<1>3. PICK t : t = Append(s, x1)
  OBVIOUS
<1>4. Append(t, x2) \in Seq(Written) /\ Letters(Append(t, x2)) = Append(Letters(t), x2)
  BY <1>2, <1>3, LettersMore, Zenon
<1>5. PICK u : u = Append(t, x2)
  OBVIOUS
<1>6. Append(u, PAD) \in Seq(Written) /\ Letters(Append(u, PAD)) = Letters(u)
  BY <1>4, <1>5, LettersMore, Zenon
<1>7. PICK v : v = Append(u, PAD)
  OBVIOUS
<1>8. Append(v, PAD) \in Seq(Written) /\ Letters(Append(v, PAD)) = Letters(v)
  BY <1>6, <1>7, LettersMore, Zenon
<1>9. QED
  BY <1>1, <1>2, <1>3, <1>4, <1>5, <1>6, <1>7, <1>8, Zenon DEF TwoOn

LEMMA LettersBreak ==
  ASSUME NEW s \in Seq(Written)
  PROVE  s \o <<CR, LF>> \in Seq(Written) /\ Letters(s \o <<CR, LF>>) = Letters(s)
<1>1. s \o <<CR, LF>> = Append(Append(s, CR), LF)
  BY WrittenKinds, Joined
<1>2. Append(s, CR) \in Seq(Written) /\ Letters(Append(s, CR)) = Letters(s)
  BY LettersMore, Zenon
<1>3. PICK t : t = Append(s, CR)
  OBVIOUS
<1>4. Append(t, LF) \in Seq(Written) /\ Letters(Append(t, LF)) = Letters(t)
  BY <1>2, <1>3, LettersMore, Zenon
<1>5. QED
  BY <1>1, <1>2, <1>3, <1>4, Zenon

\* What is appended comes last.
Grown(a, b, n, m) == b \in Seq(Sextet) /\ Len(b) = n + m /\ \A i \in 1..n : b[i] = a[i]

FourCame(a, n, x1, x2, x3, x4, b) ==
  Grown(a, b, n, 4) /\ b[n + 1] = x1 /\ b[n + 2] = x2 /\ b[n + 3] = x3 /\ b[n + 4] = x4
ThreeCame(a, n, x1, x2, x3, b) == Grown(a, b, n, 3) /\ b[n + 1] = x1 /\ b[n + 2] = x2 /\ b[n + 3] = x3
TwoCame(a, n, x1, x2, b) == Grown(a, b, n, 2) /\ b[n + 1] = x1 /\ b[n + 2] = x2

LEMMA FourCome ==
  ASSUME NEW a \in Seq(Sextet), NEW x1, NEW x2, NEW x3, NEW x4, FourOf(x1, x2, x3, x4)
  PROVE  FourCame(a, Len(a), x1, x2, x3, x4, FourOn(a, x1, x2, x3, x4))
BY DEF FourCame, FourOf, Grown, FourOn

LEMMA ThreeCome ==
  ASSUME NEW a \in Seq(Sextet), NEW x1 \in Sextet, NEW x2 \in Sextet, NEW x3 \in Sextet
  PROVE  ThreeCame(a, Len(a), x1, x2, x3, ThreeOn(a, x1, x2, x3))
BY DEF ThreeCame, Grown, ThreeOn

LEMMA TwoCome ==
  ASSUME NEW a \in Seq(Sextet), NEW x1 \in Sextet, NEW x2 \in Sextet
  PROVE  TwoCame(a, Len(a), x1, x2, TwoOn(a, x1, x2))
BY DEF TwoCame, Grown, TwoOn
-----------------------------------------------------------------------------
\* The encoder.

\* k groups and c line breaks have been written, w characters are left.
Counts(k, c, w) ==
  /\ w \in 0..LineLength
  /\ w % 4 = 0
  /\ 4 * k + w = (c + 1) * LineLength
  /\ c > 0 => w < LineLength

\* A line is only broken when it is full and another group follows.
LEMMA FullLinesBroken ==
  ASSUME NEW k \in Nat, NEW c \in Nat, NEW w, Counts(k, c, w)
  PROVE  /\ c * LineLength <= 4 * k
         /\ k > 0 => c * LineLength < 4 * k
         /\ k = 0 => c = 0
<1> DEFINE p == c * LineLength
<1>1. p \in Nat /\ 4 * k + w = p + LineLength /\ w \in Nat /\ w <= LineLength /\ LineLength \in Nat
  BY LineLengthAssumption, Z3 DEF Counts
<1>2. c = 0 => p = 0
  BY LineLengthAssumption
<1>3. c > 0 => w < LineLength
  BY DEF Counts
<1>4. p <= 4 * k
  BY <1>1
<1>5. k > 0 => p < 4 * k
  BY <1>1, <1>2, <1>3
<1>6. k = 0 => c = 0
  BY <1>1, <1>2, <1>3
<1>7. QED
  BY <1>4, <1>5, <1>6

\* What the groups and their line breaks take is in the size computed.
LEMMA FitsSoFar ==
  ASSUME NEW k \in Nat, NEW c \in Nat, NEW w, Counts(k, c, w),
         NEW n \in Nat, 3 * k <= n
  PROVE  4 * k + 2 * c <= StrSize(n)
<1>1. CASE k = 0
  <2>1. c = 0
    BY <1>1, FullLinesBroken
  <2>2. StrSize(n) \in Nat
    <3>1. CASE n = 0
      BY <3>1 DEF StrSize
    <3>2. CASE n > 0
      <4>1. EncodedSize(n) \in Nat /\ EncodedSize(n) > 0
        BY <3>2 DEF EncodedSize
      <4>2. (EncodedSize(n) - 1) \div LineLength \in Nat
        BY <4>1, LineLengthAssumption, DivAtLeast
      <4>3. QED
        BY <4>1, <4>2, <3>2 DEF StrSize
    <3>3. QED
      BY <3>1, <3>2
  <2>3. QED
    BY <1>1, <2>1, <2>2
<1>2. CASE k > 0
  <2>1. EncodedSize(n) \in Nat /\ EncodedSize(n) >= 4 * k
    BY DEF EncodedSize
  <2>2. c * LineLength <= EncodedSize(n) - 1
    <3>1. c * LineLength < 4 * k /\ c * LineLength \in Int
      BY <1>2, FullLinesBroken, LineLengthAssumption
    <3>2. QED
      BY <2>1, <3>1
  <2>3. EncodedSize(n) - 1 \in Nat
    BY <1>2, <2>1
  <2>4. c <= (EncodedSize(n) - 1) \div LineLength
    BY <2>2, <2>3, DivAtLeast, LineLengthAssumption
  <2>5. (EncodedSize(n) - 1) \div LineLength \in Int
    BY <2>3, LineLengthAssumption
  <2>6. n # 0
    BY <1>2
  <2>7. QED
    BY <2>1, <2>4, <2>5, <2>6 DEF StrSize
<1>3. QED
  BY <1>1, <1>2

\* The size computed, by what is left when no whole group is.
LEMMA SizeAtEnd ==
  ASSUME NEW k \in Nat, NEW c \in Nat, NEW w, Counts(k, c, w),
         NEW n \in Nat, 3 * k <= n, n < 3 * k + 3
  PROVE  StrSize(n) = 4 * k + 2 * c +
           (IF n = 3 * k THEN 0 ELSE IF w = 0 THEN 6 ELSE 4)
<1> DEFINE p == c * LineLength
<1>1. p \in Nat /\ 4 * k + w = p + LineLength /\ w \in Nat /\ w <= LineLength /\ LineLength \in Nat
  BY LineLengthAssumption, Z3 DEF Counts
<1>2. /\ p <= 4 * k
      /\ k > 0 => p < 4 * k
      /\ k = 0 => c = 0
  BY FullLinesBroken
<1>3. (c + 1) * LineLength = p + LineLength /\ (c + 2) * LineLength = p + 2 * LineLength
  BY LineLengthAssumption, Z3
<1>4. LineLength >= 4
  BY LineLengthAssumption
<1>5. LineLength \in Nat \ {0}
  BY LineLengthAssumption
<1> HIDE DEF p
<1>6. CASE n = 0
  <2>1. k = 0
    BY <1>6
  <2>2. QED
    BY <1>6, <2>1, <1>2 DEF StrSize
<1>7. CASE n > 0 /\ n = 3 * k
  <2>1. EncodedSize(n) = 4 * k /\ k > 0
    BY <1>7 DEF EncodedSize
  <2>2. p <= 4 * k - 1 /\ 4 * k - 1 < p + LineLength /\ 4 * k - 1 \in Nat
    BY <2>1, <1>1, <1>2
  <2>3. (4 * k - 1) \div LineLength = c
    BY <2>2, <1>3, <1>5, DivUnique DEF p
  <2>4. QED
    BY <1>7, <2>1, <2>3 DEF StrSize
<1>8. CASE n # 3 * k /\ w # 0
  <2>1. EncodedSize(n) = 4 * k + 4 /\ n # 0
    BY <1>8 DEF EncodedSize
  <2>2. w >= 4
    BY <1>8, <1>1 DEF Counts
  <2>3. p <= 4 * k + 3 /\ 4 * k + 3 < p + LineLength /\ 4 * k + 3 \in Nat
    BY <2>2, <1>1, <1>2
  <2>4. (4 * k + 3) \div LineLength = c
    BY <2>3, <1>3, <1>5, DivUnique DEF p
  <2>5. EncodedSize(n) - 1 = 4 * k + 3
    BY <2>1
  <2>6. StrSize(n) = 4 * k + 4 + 2 * c
    BY <2>1, <2>4, <2>5 DEF StrSize
  <2>7. QED
    BY <1>8, <2>6
<1>9. CASE n # 3 * k /\ w = 0
  <2>1. EncodedSize(n) = 4 * k + 4 /\ n # 0
    BY <1>9 DEF EncodedSize
  <2>2. p + LineLength <= 4 * k + 3 /\ 4 * k + 3 < p + 2 * LineLength /\ 4 * k + 3 \in Nat
    BY <1>9, <1>1, <1>4
  <2>3. PICK d \in Nat : d = c + 1
    OBVIOUS
  <2>4. d * LineLength <= 4 * k + 3 /\ 4 * k + 3 < (d + 1) * LineLength
    <3>1. d + 1 = c + 2
      BY <2>3
    <3>2. QED
      BY <2>2, <2>3, <3>1, <1>3
  <2>5. (4 * k + 3) \div LineLength = c + 1
    BY <2>2, <2>3, <2>4, <1>5, DivUnique
  <2>6. EncodedSize(n) - 1 = 4 * k + 3
    BY <2>1
  <2>7. StrSize(n) = 4 * k + 4 + 2 * (c + 1)
    BY <2>1, <2>5, <2>6 DEF StrSize
  <2>8. QED
    BY <1>9, <2>7
<1>10. QED
  BY <1>6, <1>7, <1>8, <1>9

\* A tail after full lines, in terms of the length of the input.
LEMMA FullLines ==
  ASSUME NEW k \in Nat, NEW c \in Nat, NEW w, Counts(k, c, w),
         NEW n \in Nat, 3 * k <= n, n < 3 * k + 3
  PROVE  n > BytesPerLine /\ n % BytesPerLine \in {1, 2} <=> n # 3 * k /\ w = 0
<1> DEFINE q == LineLength \div 4
<1>1. q \in Nat /\ q > 0 /\ LineLength = 4 * q /\ BytesPerLine = 3 * q
  BY LineLengthAssumption DEF BytesPerLine
<1> HIDE DEF q
<1>2. 4 * k + w = (c + 1) * (4 * q) /\ w \in Nat /\ w <= 4 * q /\ (c > 0 => w < 4 * q)
  BY <1>1 DEF Counts
<1>3. ASSUME n # 3 * k, w = 0
      PROVE  n > BytesPerLine /\ n % BytesPerLine \in {1, 2}
  <2>1. 4 * k = 4 * ((c + 1) * q)
    BY <1>1, <1>2, <1>3, Z3
  <2>2. k = (c + 1) * q
    BY <1>1, <2>1
  <2>3. 3 * k = (c + 1) * (3 * q)
    BY <1>1, <2>2, Z3
  <2>4. PICK r \in {1, 2} : n = 3 * k + r
    BY <1>3
  <2>5. 3 * q \in Nat \ {0} /\ r \in 0..(3 * q - 1) /\ c + 1 \in Nat
    BY <1>1, <2>4
  <2>6. n = (c + 1) * (3 * q) + r
    BY <2>3, <2>4
  <2>7. n % (3 * q) = r
    BY <2>5, <2>6, ModUnique
  <2>8. (c + 1) * (3 * q) >= 3 * q
    BY <2>5, Z3
  <2>9. n > 3 * q
    BY <2>5, <2>6, <2>8, <1>1
  <2>10. QED
    BY <1>1, <2>4, <2>7, <2>9
<1>4. ASSUME n > BytesPerLine, n % BytesPerLine \in {1, 2}
      PROVE  n # 3 * k /\ w = 0
  <2> DEFINE a == n \div (3 * q)
             r == n % (3 * q)
  <2>1. r \in {1, 2} /\ n > 3 * q
    BY <1>1, <1>4
  <2>2. a \in Nat /\ n = a * (3 * q) + r
    BY <1>1, Z3
  <2>3. a > 0
    BY <1>1, <2>1, <2>2, Z3
  <2>4. n = 3 * (a * q) + r /\ a * q \in Nat
    BY <1>1, <2>2, Z3
  <2> HIDE DEF a, r
  <2>5. k = a * q /\ n # 3 * k
    BY <2>1, <2>4
  <2>6. 4 * k = a * (4 * q)
    BY <1>1, <2>2, <2>5, Z3
  <2>7. w = (c + 1 - a) * (4 * q)
    BY <1>1, <1>2, <2>2, <2>6, Z3
  <2>8. c + 1 - a <= 1 /\ c + 1 - a >= 0
    BY <1>1, <1>2, <2>2, <2>7, Z3
  <2>9. c + 1 - a # 1
    <3>1. SUFFICES ASSUME c + 1 - a = 1 PROVE FALSE
      OBVIOUS
    <3>2. w = 4 * q /\ c > 0
      BY <1>1, <2>2, <2>3, <2>7, <3>1
    <3>3. QED
      BY <1>1, <1>2, <3>2
  <2>10. c + 1 - a = 0
    BY <2>2, <2>8, <2>9
  <2>11. w = 0
    BY <1>1, <2>7, <2>10
  <2>12. QED
    BY <2>5, <2>11
<1>5. QED
  BY <1>3, <1>4

\* Where the encoder is: the tail's four characters come last.
Progress(k, c) ==
  /\ in = 3 * k
  /\ Counts(k, c, wrap)
  /\ Len(str) = 4 * k + 2 * c
       + (IF encoding \/ in = Len(data) THEN 0 ELSE 4)
  /\ ~encoding => Len(data) < in + 3

EncInv == EncTypeOK /\ \E k, c \in Nat : Progress(k, c)

\* Appending characters to characters.
LEMMA AppendCharacters ==
  ASSUME NEW s \in Seq(Character), NEW t \in Seq(Character)
  PROVE  s \o t \in Seq(Character) /\ Len(s \o t) = Len(s) + Len(t)
OBVIOUS

\* Four characters, and a line break, are sequences of characters.
LEMMA CharactersSeq ==
  /\ \A a, b, c, d \in Character :
       <<a, b, c, d>> \in Seq(Character) /\ Len(<<a, b, c, d>>) = 4
  /\ <<CR, LF>> \in Seq(Character) /\ Len(<<CR, LF>>) = 2
  /\ << >> \in Seq(Character) /\ Len(<< >>) = 0
<1>1. CR \in Character /\ LF \in Character
  BY DEF Character
<1>2. <<CR, LF>> \in Seq(Character) /\ Len(<<CR, LF>>) = 2
  BY <1>1
<1>3. ASSUME NEW a \in Character, NEW b \in Character,
             NEW c \in Character, NEW d \in Character
      PROVE  <<a, b, c, d>> \in Seq(Character) /\ Len(<<a, b, c, d>>) = 4
  OBVIOUS
<1>4. << >> \in Seq(Character) /\ Len(<< >>) = 0
  OBVIOUS
<1>5. QED
  BY <1>2, <1>3, <1>4

\* Every six bits are a character of the alphabet.
LEMMA Base64CharType ==
  ASSUME NEW a \in 0..255, NEW b \in 0..255
  PROVE  /\ Base64Char0(a) \in Character /\ Base64Char1(a, b) \in Character
         /\ Base64Char2(a, b) \in Character /\ Base64Char3(a) \in Character
<1>1. Base64Char0(a) \in 0..63
  BY DEF Base64Char0
<1>2. Base64Char1(a, b) \in 0..63
  BY DEF Base64Char1
<1>3. Base64Char2(a, b) \in 0..63
  BY DEF Base64Char2
<1>4. Base64Char3(a) \in 0..63
  BY DEF Base64Char3
<1>5. QED
  BY <1>1, <1>2, <1>3, <1>4 DEF Character

\* A byte of the input is a byte.
LEMMA ByteType ==
  ASSUME data \in Seq(0..255), NEW i \in 1..Len(data)
  PROVE  data[i] \in 0..255
BY ElementOfSeq

\* The tail takes four characters, if there is one.
LEMMA LastGroupType ==
  ASSUME EncTypeOK, in + 3 > Len(data)
  PROVE  /\ LastGroup \in Seq(Character)
         /\ Len(LastGroup) = (IF in = Len(data) THEN 0 ELSE 4)
<1>1. PAD \in Character /\ 0 \in 0..255
  BY DEF Character
<1>2. CASE in = Len(data)
  BY <1>2, CharactersSeq DEF LastGroup
<1>3. CASE in + 1 < Len(data)
  <2>1. in + 1 \in 1..Len(data) /\ in + 2 \in 1..Len(data)
    BY <1>3 DEF EncTypeOK
  <2>2. data[in + 1] \in 0..255 /\ data[in + 2] \in 0..255
    BY <2>1, ByteType DEF EncTypeOK
  <2>3. LastGroup =
          <<Base64Char0(data[in + 1]), Base64Char1(data[in + 1], data[in + 2]),
            Base64Char2(data[in + 2], 0), PAD>>
    BY <1>3 DEF LastGroup, EncTypeOK
  <2>4. in # Len(data)
    BY <1>3 DEF EncTypeOK
  <2>5. QED
    BY <1>1, <2>2, <2>3, <2>4, Base64CharType, CharactersSeq
<1>4. CASE in # Len(data) /\ ~(in + 1 < Len(data))
  <2>1. in + 1 \in 1..Len(data)
    BY <1>4 DEF EncTypeOK
  <2>2. data[in + 1] \in 0..255
    BY <2>1, ByteType DEF EncTypeOK
  <2>3. LastGroup =
          <<Base64Char0(data[in + 1]), Base64Char1(data[in + 1], 0), PAD, PAD>>
    BY <1>4 DEF LastGroup
  <2>4. QED
    BY <1>1, <1>4, <2>2, <2>3, Base64CharType, CharactersSeq
<1>5. QED
  BY <1>2, <1>3, <1>4 DEF EncTypeOK

\* The invariant holds before anything is written.
LEMMA EncInitInv == EncInit => EncInv
<1> SUFFICES ASSUME EncInit PROVE EncInv
  OBVIOUS
<1>1. EncTypeOK
  BY DataAssumption, LineLengthAssumption, CharactersSeq DEF EncInit, EncTypeOK
<1>2. Counts(0, 0, wrap)
  BY LineLengthAssumption DEF EncInit, Counts
<1>3. Len(str) = 0 /\ (~encoding => Len(data) = 0)
  <2>1. data = << >> => Len(data) = 0
    OBVIOUS
  <2>2. Len(str) = 0
    BY DEF EncInit
  <2>3. QED
    BY <2>1, <2>2 DEF EncInit
<1>4. Progress(0, 0)
  BY <1>2, <1>3 DEF EncInit, Progress
<1>5. QED
  BY <1>1, <1>4 DEF EncInv

\* Every step of the encoder keeps the invariant.
LEMMA EncNextInv == EncInv /\ [EncNext]_evars => EncInv'
<1> SUFFICES ASSUME EncInv, [EncNext]_evars PROVE EncInv'
  OBVIOUS
<1>1. EncTypeOK
  BY DEF EncInv
<1>2. PICK k, c \in Nat : Progress(k, c)
  BY DEF EncInv
<1>3. CASE EncodeGroup
  <2> DEFINE break == IF wrap = 0 THEN <<CR, LF>> ELSE << >>
             group == Group(data[in + 1], data[in + 2], data[in + 3])
  <2>1. in + 1 \in 1..Len(data) /\ in + 2 \in 1..Len(data) /\ in + 3 \in 1..Len(data)
    BY <1>1, <1>3 DEF EncTypeOK, EncodeGroup
  <2>2. data[in + 1] \in 0..255 /\ data[in + 2] \in 0..255 /\ data[in + 3] \in 0..255
    BY <1>1, <2>1, ByteType DEF EncTypeOK
  <2>3. group \in Seq(Character) /\ Len(group) = 4
    BY <2>2, Base64CharType, CharactersSeq DEF Group
  <2>4. break \in Seq(Character) /\ Len(break) = (IF wrap = 0 THEN 2 ELSE 0)
    BY CharactersSeq
  <2>5. str' = str \o break \o group
    BY <1>3 DEF EncodeGroup
  <2> HIDE DEF break, group
  <2>6. /\ str' \in Seq(Character)
        /\ Len(str') = Len(str) + (IF wrap = 0 THEN 2 ELSE 0) + 4
    <3>1. str \in Seq(Character)
      BY <1>1 DEF EncTypeOK
    <3>2. /\ str \o break \in Seq(Character)
          /\ Len(str \o break) = Len(str) + (IF wrap = 0 THEN 2 ELSE 0)
      BY <2>4, <3>1, AppendCharacters
    <3>3. QED
      BY <2>3, <2>5, <3>2, AppendCharacters
  <2>7. /\ in' = in + 3 /\ data' = data /\ encoding /\ encoding'
        /\ wrap' = (IF wrap = 0 THEN LineLength ELSE wrap) - 4
    BY <1>1, <1>3 DEF EncodeGroup, EncTypeOK
  <2>8. Counts(k, c, wrap) /\ wrap \in 0..LineLength /\ wrap % 4 = 0
    BY <1>2 DEF Progress, Counts
  <2>9. LineLength >= 4 /\ LineLength \in Nat /\ LineLength % 4 = 0
    BY LineLengthAssumption
  <2>10. EncTypeOK'
    <3>1. wrap' \in 0..LineLength
      BY <2>7, <2>8, <2>9
    <3>2. in' \in 0..Len(data)
      BY <1>1, <2>1, <2>7 DEF EncTypeOK
    <3>3. QED
      BY <1>1, <2>6, <2>7, <3>1, <3>2 DEF EncTypeOK
  <2>11. CASE wrap = 0
    <3>1. Counts(k + 1, c + 1, wrap')
      <4>1. wrap' = LineLength - 4
        BY <2>7, <2>11
      <4>2. 4 * k = (c + 1) * LineLength
        BY <2>8, <2>11 DEF Counts
      <4>3. (c + 2) * LineLength = (c + 1) * LineLength + LineLength
        BY <2>9, Z3
      <4>4. 4 * (k + 1) + wrap' = (c + 2) * LineLength
        BY <2>9, <4>1, <4>2, <4>3
      <4>5. wrap' \in 0..LineLength /\ wrap' % 4 = 0 /\ wrap' < LineLength
        BY <2>9, <4>1
      <4>6. (c + 1) + 1 = c + 2
        OBVIOUS
      <4>7. QED
        BY <4>4, <4>5, <4>6 DEF Counts
    <3>2. Progress(k + 1, c + 1)'
      BY <1>2, <2>6, <2>7, <2>11, <3>1 DEF Progress
    <3>3. k + 1 \in Nat /\ c + 1 \in Nat
      OBVIOUS
    <3>4. QED
      BY <2>10, <3>2, <3>3 DEF EncInv
  <2>12. CASE wrap # 0
    <3>1. Counts(k + 1, c, wrap')
      BY <2>7, <2>8, <2>9, <2>12 DEF Counts
    <3>2. Progress(k + 1, c)'
      BY <1>2, <2>6, <2>7, <2>12, <3>1 DEF Progress
    <3>3. k + 1 \in Nat
      OBVIOUS
    <3>4. QED
      BY <2>10, <3>2, <3>3 DEF EncInv
  <2>13. QED
    BY <2>11, <2>12
<1>4. CASE EncodeTail
  <2>1. /\ in' = in /\ data' = data /\ wrap' = wrap /\ encoding /\ ~encoding'
        /\ encoding' \in BOOLEAN /\ in + 3 > Len(data) /\ str' = str \o LastGroup
    BY <1>4 DEF EncodeTail
  <2>2. str \in Seq(Character)
    BY <1>1 DEF EncTypeOK
  <2>3. /\ str' \in Seq(Character)
        /\ Len(str') = Len(str) + (IF in = Len(data) THEN 0 ELSE 4)
    BY <1>1, <2>1, <2>2, LastGroupType, AppendCharacters
  <2>4. EncTypeOK'
    BY <1>1, <2>1, <2>3 DEF EncTypeOK
  <2>5. Progress(k, c)'
    BY <1>1, <1>2, <2>1, <2>3 DEF Progress, EncTypeOK
  <2>6. QED
    BY <2>4, <2>5 DEF EncInv
<1>5. CASE UNCHANGED evars
  <2>1. EncTypeOK' /\ Progress(k, c)'
    BY <1>1, <1>2, <1>5 DEF evars, EncTypeOK, Progress
  <2>2. QED
    BY <2>1 DEF EncInv
<1>6. QED
  BY <1>3, <1>4, <1>5 DEF EncNext

\* What is written by then fits, and what is missing in the end is known.
LEMMA EncInvImplies == EncInv => EncodeFits /\ EncodedSizeShort
<1> SUFFICES ASSUME EncInv PROVE EncodeFits /\ EncodedSizeShort
  OBVIOUS
<1>1. PICK k, c \in Nat : Progress(k, c)
  BY DEF EncInv
<1>2. /\ data \in Seq(0..255) /\ in \in 0..Len(data)
      /\ Len(data) \in Nat /\ in = 3 * k /\ 3 * k <= Len(data)
      /\ Counts(k, c, wrap) /\ encoding \in BOOLEAN
  BY <1>1 DEF EncInv, EncTypeOK, Progress
<1>3. CASE encoding
  <2>1. Len(str) = 4 * k + 2 * c
    BY <1>1, <1>3 DEF Progress
  <2>2. QED
    BY <1>2, <1>3, <2>1, FitsSoFar DEF EncodeFits, EncodedSizeShort
<1>4. CASE ~encoding
  <2>1. /\ Len(str) = 4 * k + 2 * c + (IF Len(data) = 3 * k THEN 0 ELSE 4)
        /\ Len(data) < 3 * k + 3
    BY <1>1, <1>2, <1>4 DEF Progress
  <2>2. StrSize(Len(data)) = 4 * k + 2 * c +
          (IF Len(data) = 3 * k THEN 0 ELSE IF wrap = 0 THEN 6 ELSE 4)
    BY <1>2, <2>1, SizeAtEnd
  <2>3. Len(data) > BytesPerLine /\ Len(data) % BytesPerLine \in {1, 2}
          <=> Len(data) # 3 * k /\ wrap = 0
    BY <1>2, <2>1, FullLines
  <2>4. QED
    BY <1>2, <1>4, <2>1, <2>2, <2>3 DEF EncodeFits, EncodedSizeShort
<1>5. QED
  BY <1>2, <1>3, <1>4

\* Whatever the input and the length of a line, the encoder stays within the
\* string it sized in advance, and leaves two characters of it unwritten in
\* exactly one case: a tail after full lines (util.cpp:116-157).
THEOREM EncoderStaysInBounds ==
  EncSpec => [](EncTypeOK /\ EncodeFits /\ EncodedSizeShort)
<1>1. EncInv => EncTypeOK
  BY DEF EncInv
<1>2. QED
  BY EncInitInv, EncNextInv, EncInvImplies, <1>1, PTL DEF EncSpec

\* The same of the encoder inside the pipeline: nothing the reader does
\* disturbs it (xmlwriter.cpp:150-157).
THEOREM WriterStaysInBounds ==
  Spec => [](EncTypeOK /\ EncodeFits /\ EncodedSizeShort)
<1>1. Init => EncInit
  BY DEF Init
<1>2. [Next]_vars => [EncNext]_evars
  BY DEF Next, Encode, Read, Decode, vars, evars
<1>3. EncInv => EncTypeOK
  BY DEF EncInv
<1>4. QED
  BY <1>1, <1>2, <1>3, EncInitInv, EncNextInv, EncInvImplies, PTL DEF Spec

\* The letters written spell the input as far as it has been encoded, and when
\* the encoder is done their bits are as many whole bytes as the input.
Encodes(s, d, n) == SpeltSo(Letters(s), d) /\ Len(Letters(s)) = n

SpeltInv ==
  /\ str \in Seq(Written)
  /\ encoding => \E k \in Nat : in = 3 * k /\ Encodes(str, data, 4 * k)
  /\ ~encoding => \E n \in Nat : Encodes(str, data, n) /\ (6 * n) \div 8 = Len(data)

LEMMA NothingSpelt == ASSUME NEW d PROVE << >> \in Seq(Written) /\ Encodes(<< >>, d, 0)
<1>1. Letters(<< >>) = << >>
  BY WithoutEmpty DEF Letters, Normalised, Alphabet
<1>2. Len(<< >>) = 0 /\ << >> \in Seq(Written)
  OBVIOUS
<1>3. ASSUME NEW g \in Nat PROVE GroupSpelt(<< >>, d, g)
  <2>1. ~(4 * g + 1 <= 0) /\ ~(4 * g + 2 <= 0) /\ ~(4 * g + 3 <= 0) /\ ~(4 * g + 4 <= 0)
    OBVIOUS
  <2>2. QED
    BY <1>2, <2>1, Zenon DEF GroupSpelt
<1>4. QED
  BY <1>1, <1>2, <1>3 DEF Encodes, SpeltSo

\* A group of four, of three bytes.
LEMMA GroupEncodes ==
  ASSUME NEW s \in Seq(Written), NEW d \in Seq(Octet), NEW k \in Nat, Encodes(s, d, 4 * k),
         NEW t, t = s \o Group(Padded(d, 3 * k + 1), Padded(d, 3 * k + 2), Padded(d, 3 * k + 3))
  PROVE  t \in Seq(Written) /\ Encodes(t, d, 4 * k + 4)
<1>1. PICK b1 \in Octet, b2 \in Octet, b3 \in Octet :
        b1 = Padded(d, 3 * k + 1) /\ b2 = Padded(d, 3 * k + 2) /\ b3 = Padded(d, 3 * k + 3)
  BY PaddedType
<1>2. PICK x1 \in Sextet, x2 \in Sextet, x3 \in Sextet, x4 \in Sextet :
        x1 = Base64Char0(b1) /\ x2 = Base64Char1(b1, b2) /\ x3 = Base64Char2(b2, b3) /\ x4 = Base64Char3(b3)
  BY Restored
<1>3. t = s \o <<x1, x2, x3, x4>>
  BY <1>1, <1>2 DEF Group
<1>4. PICK n \in Nat : n = 4 * k
  OBVIOUS
<1>5. PICK a \in Seq(Sextet) : a = Letters(s) /\ SpeltSo(a, d) /\ Len(a) = n
  BY <1>4, LettersMore DEF Encodes
<1>6. PICK b : b = Letters(t)
  OBVIOUS
<1>7. t \in Seq(Written) /\ b = FourOn(a, x1, x2, x3, x4)
  <2>1. /\ s \o <<x1, x2, x3, x4>> \in Seq(Written)
        /\ Letters(s \o <<x1, x2, x3, x4>>) = FourOn(Letters(s), x1, x2, x3, x4)
    <3>1. FourOf(x1, x2, x3, x4)
      BY DEF FourOf
    <3>2. QED
      BY ONLY s \in Seq(Written), <3>1, LettersGroup, Zenon
  <2>2. QED
    BY ONLY <1>3, <1>5, <1>6, <2>1, Zenon
<1>8. Grown(a, b, n, 4) /\ b[n + 1] = x1 /\ b[n + 2] = x2 /\ b[n + 3] = x3 /\ b[n + 4] = x4
  <2>1. FourOf(x1, x2, x3, x4)
    BY DEF FourOf
  <2>2. FourCame(a, Len(a), x1, x2, x3, x4, FourOn(a, x1, x2, x3, x4))
    BY ONLY a \in Seq(Sextet), <2>1, FourCome, Zenon
  <2>3. FourCame(a, n, x1, x2, x3, x4, b)
    BY ONLY <1>5, <1>7, <2>2, Zenon
  <2>4. QED
    BY <2>3, Zenon DEF FourCame
<1>9. b \in Seq(Sextet) /\ Len(b) = n + 4 /\ \A i \in 1..n : b[i] = a[i]
  BY <1>8 DEF Grown
<1>10. GroupSpelt(b, d, k)
  BY <1>1, <1>2, <1>4, <1>8, Zenon DEF GroupSpelt
<1>11. SpeltSo(b, d)
  <2>1. Len(a) = 4 * k /\ Len(b) <= 4 * k + 4 /\ \A i \in 1..(4 * k) : b[i] = a[i]
    BY <1>4, <1>5, <1>9
  <2>2. QED
    BY ONLY <1>5, <1>9, <1>10, <2>1, SpeltOn, Zenon
<1>12. QED
  BY <1>4, <1>6, <1>7, <1>9, <1>11 DEF Encodes

\* The two bytes that are left, or the one.
LEMMA TwoBytesEncode ==
  ASSUME NEW s \in Seq(Written), NEW d \in Seq(Octet), NEW k \in Nat, Encodes(s, d, 4 * k),
         Len(d) = 3 * k + 2,
         NEW t, t = s \o <<Base64Char0(d[3 * k + 1]), Base64Char1(d[3 * k + 1], d[3 * k + 2]),
                           Base64Char2(d[3 * k + 2], 0), PAD>>
  PROVE  t \in Seq(Written) /\ Encodes(t, d, 4 * k + 3)
<1>1. PICK b1 \in Octet, b2 \in Octet, b3 \in Octet :
        b1 = Padded(d, 3 * k + 1) /\ b2 = Padded(d, 3 * k + 2) /\ b3 = Padded(d, 3 * k + 3)
  BY PaddedType
<1>2. b1 = d[3 * k + 1] /\ b2 = d[3 * k + 2] /\ b3 = 0
  BY <1>1 DEF Padded
<1>3. PICK x1 \in Sextet, x2 \in Sextet, x3 \in Sextet :
        x1 = Base64Char0(b1) /\ x2 = Base64Char1(b1, b2) /\ x3 = Base64Char2(b2, b3)
  BY Restored
<1>4. t = s \o <<x1, x2, x3, PAD>>
  BY <1>2, <1>3
<1>5. PICK n \in Nat : n = 4 * k
  OBVIOUS
<1>6. PICK a \in Seq(Sextet) : a = Letters(s) /\ SpeltSo(a, d) /\ Len(a) = n
  BY <1>5, LettersMore DEF Encodes
<1>7. PICK b : b = Letters(t)
  OBVIOUS
<1>8. t \in Seq(Written) /\ b = ThreeOn(a, x1, x2, x3)
  <2>1. /\ s \o <<x1, x2, x3, PAD>> \in Seq(Written)
        /\ Letters(s \o <<x1, x2, x3, PAD>>) = ThreeOn(Letters(s), x1, x2, x3)
    BY ONLY s \in Seq(Written), x1 \in Sextet, x2 \in Sextet, x3 \in Sextet, LettersTwoBytes, Zenon
  <2>2. QED
    BY ONLY <1>4, <1>6, <1>7, <2>1, Zenon
<1>9. Grown(a, b, n, 3) /\ b[n + 1] = x1 /\ b[n + 2] = x2 /\ b[n + 3] = x3
  <2>1. ThreeCame(a, Len(a), x1, x2, x3, ThreeOn(a, x1, x2, x3))
    BY ONLY a \in Seq(Sextet), x1 \in Sextet, x2 \in Sextet, x3 \in Sextet, ThreeCome, Zenon
  <2>2. ThreeCame(a, n, x1, x2, x3, b)
    BY ONLY <1>6, <1>8, <2>1, Zenon
  <2>3. QED
    BY <2>2, Zenon DEF ThreeCame
<1>10. b \in Seq(Sextet) /\ Len(b) = n + 3 /\ ~(n + 4 <= n + 3) /\ \A i \in 1..n : b[i] = a[i]
  BY <1>9 DEF Grown
<1>11. GroupSpelt(b, d, k)
  BY <1>1, <1>3, <1>5, <1>9, <1>10, Zenon DEF GroupSpelt
<1>12. SpeltSo(b, d)
  <2>1. Len(a) = 4 * k /\ Len(b) <= 4 * k + 4 /\ \A i \in 1..(4 * k) : b[i] = a[i]
    BY <1>5, <1>6, <1>10
  <2>2. QED
    BY ONLY <1>6, <1>10, <1>11, <2>1, SpeltOn, Zenon
<1>13. QED
  BY <1>5, <1>7, <1>8, <1>10, <1>12 DEF Encodes

LEMMA OneByteEncodes ==
  ASSUME NEW s \in Seq(Written), NEW d \in Seq(Octet), NEW k \in Nat, Encodes(s, d, 4 * k),
         Len(d) = 3 * k + 1,
         NEW t, t = s \o <<Base64Char0(d[3 * k + 1]), Base64Char1(d[3 * k + 1], 0), PAD, PAD>>
  PROVE  t \in Seq(Written) /\ Encodes(t, d, 4 * k + 2)
<1>1. PICK b1 \in Octet, b2 \in Octet : b1 = Padded(d, 3 * k + 1) /\ b2 = Padded(d, 3 * k + 2)
  BY PaddedType
<1>2. b1 = d[3 * k + 1] /\ b2 = 0
  BY <1>1 DEF Padded
<1>3. PICK x1 \in Sextet, x2 \in Sextet : x1 = Base64Char0(b1) /\ x2 = Base64Char1(b1, b2)
  BY Restored
<1>4. t = s \o <<x1, x2, PAD, PAD>>
  BY <1>2, <1>3
<1>5. PICK n \in Nat : n = 4 * k
  OBVIOUS
<1>6. PICK a \in Seq(Sextet) : a = Letters(s) /\ SpeltSo(a, d) /\ Len(a) = n
  BY <1>5, LettersMore DEF Encodes
<1>7. PICK b : b = Letters(t)
  OBVIOUS
<1>8. t \in Seq(Written) /\ b = TwoOn(a, x1, x2)
  <2>1. /\ s \o <<x1, x2, PAD, PAD>> \in Seq(Written)
        /\ Letters(s \o <<x1, x2, PAD, PAD>>) = TwoOn(Letters(s), x1, x2)
    BY ONLY s \in Seq(Written), x1 \in Sextet, x2 \in Sextet, LettersOneByte, Zenon
  <2>2. QED
    BY ONLY <1>4, <1>6, <1>7, <2>1, Zenon
<1>9. Grown(a, b, n, 2) /\ b[n + 1] = x1 /\ b[n + 2] = x2
  <2>1. TwoCame(a, Len(a), x1, x2, TwoOn(a, x1, x2))
    BY ONLY a \in Seq(Sextet), x1 \in Sextet, x2 \in Sextet, TwoCome, Zenon
  <2>2. TwoCame(a, n, x1, x2, b)
    BY ONLY <1>6, <1>8, <2>1, Zenon
  <2>3. QED
    BY <2>2, Zenon DEF TwoCame
<1>10. /\ b \in Seq(Sextet) /\ Len(b) = n + 2 /\ ~(n + 3 <= n + 2) /\ ~(n + 4 <= n + 2)
       /\ \A i \in 1..n : b[i] = a[i]
  BY <1>9 DEF Grown
<1>11. GroupSpelt(b, d, k)
  BY <1>1, <1>3, <1>5, <1>9, <1>10, Zenon DEF GroupSpelt
<1>12. SpeltSo(b, d)
  <2>1. Len(a) = 4 * k /\ Len(b) <= 4 * k + 4 /\ \A i \in 1..(4 * k) : b[i] = a[i]
    BY <1>5, <1>6, <1>10
  <2>2. QED
    BY ONLY <1>6, <1>10, <1>11, <2>1, SpeltOn, Zenon
<1>13. QED
  BY <1>5, <1>7, <1>8, <1>10, <1>12 DEF Encodes

LEMMA SpeltInitInv == EncInit => SpeltInv
<1> SUFFICES ASSUME EncInit PROVE SpeltInv
  OBVIOUS
<1>1. in = 0 /\ str = << >> /\ (~encoding => data = << >>)
  BY DEF EncInit
<1>2. str \in Seq(Written) /\ Encodes(str, data, 0)
  BY <1>1, NothingSpelt
<1>3. 3 * 0 = 0 /\ 4 * 0 = 0 /\ (6 * 0) \div 8 = 0 /\ Len(<< >>) = 0 /\ 0 \in Nat
  OBVIOUS
<1>4. encoding => \E k \in Nat : in = 3 * k /\ Encodes(str, data, 4 * k)
  BY <1>1, <1>2, <1>3
<1>5. ~encoding => \E n \in Nat : Encodes(str, data, n) /\ (6 * n) \div 8 = Len(data)
  BY <1>1, <1>2, <1>3
<1>6. QED
  BY <1>2, <1>4, <1>5 DEF SpeltInv

LEMMA SpeltNextInv == EncTypeOK /\ SpeltInv /\ [EncNext]_evars => SpeltInv'
<1> SUFFICES ASSUME EncTypeOK, SpeltInv, [EncNext]_evars PROVE SpeltInv'
  OBVIOUS
<1>1. PICK d \in Seq(Octet), s \in Seq(Written) : d = data /\ s = str
  BY DEF EncTypeOK, Octet, SpeltInv
<1>2. in \in 0..Len(d)
  BY <1>1 DEF EncTypeOK
<1>3. CASE EncodeGroup
  <2>1. /\ encoding /\ in + 3 <= Len(d) /\ in' = in + 3 /\ data' = d /\ encoding'
        /\ str' = s \o (IF wrap = 0 THEN <<CR, LF>> ELSE << >>)
                    \o Group(d[in + 1], d[in + 2], d[in + 3])
    BY <1>1, <1>3 DEF EncodeGroup
  <2>2. PICK k \in Nat : in = 3 * k /\ Encodes(s, d, 4 * k)
    BY <1>1, <2>1 DEF SpeltInv
  <2>3. PICK u \in Seq(Written) : Encodes(u, d, 4 * k) /\ str' = u \o Group(d[in + 1], d[in + 2], d[in + 3])
    <3>1. CASE wrap = 0
      <4>1. s \o <<CR, LF>> \in Seq(Written) /\ Encodes(s \o <<CR, LF>>, d, 4 * k)
        BY <2>2, LettersBreak DEF Encodes
      <4>2. QED
        BY <2>1, <3>1, <4>1
    <3>2. CASE wrap # 0
      <4>1. s \o << >> = s
        OBVIOUS
      <4>2. QED
        BY <2>1, <2>2, <3>2, <4>1
    <3>3. QED
      BY <3>1, <3>2
  <2>4. Group(d[in + 1], d[in + 2], d[in + 3]) =
          Group(Padded(d, 3 * k + 1), Padded(d, 3 * k + 2), Padded(d, 3 * k + 3))
    <3>1. 3 * k + 1 <= Len(d) /\ 3 * k + 2 <= Len(d) /\ 3 * k + 3 <= Len(d)
      BY <2>1, <2>2
    <3>2. QED
      BY <2>2, <3>1, Zenon DEF Padded
  <2>5. str' \in Seq(Written) /\ Encodes(str', d, 4 * k + 4)
    <3>1. PICK t : t = str'
      OBVIOUS
    <3>2. t \in Seq(Written) /\ Encodes(t, d, 4 * k + 4)
      BY <2>3, <2>4, <3>1, GroupEncodes
    <3>3. QED
      BY <3>1, <3>2
  <2>6. k + 1 \in Nat /\ in' = 3 * (k + 1) /\ 4 * k + 4 = 4 * (k + 1)
    BY <2>1, <2>2
  <2>7. (\E j \in Nat : in = 3 * j /\ Encodes(str, data, 4 * j))'
    BY <2>1, <2>5, <2>6
  <2>8. QED
    BY <2>1, <2>5, <2>7 DEF SpeltInv
<1>4. CASE EncodeTail
  <2>1. /\ encoding /\ in + 3 > Len(d) /\ data' = d /\ ~encoding' /\ str' = s \o LastGroup
    BY <1>1, <1>4 DEF EncodeTail
  <2>2. PICK k \in Nat : in = 3 * k /\ Encodes(s, d, 4 * k)
    BY <1>1, <2>1 DEF SpeltInv
  <2>3. ASSUME NEW t \in Seq(Written), str' = t, NEW n \in Nat, Encodes(t, d, n), (6 * n) \div 8 = Len(d)
        PROVE  SpeltInv'
    <3>1. (\E j \in Nat : Encodes(str, data, j) /\ (6 * j) \div 8 = Len(data))'
      BY <2>1, <2>3
    <3>2. QED
      BY <2>1, <2>3, <3>1 DEF SpeltInv
  <2>4. CASE Len(d) = 3 * k
    <3>1. LastGroup = << >>
      BY <1>1, <2>2, <2>4 DEF LastGroup
    <3>2. str' = s
      BY <2>1, <3>1
    <3>3. (6 * (4 * k)) \div 8 = Len(d) /\ 4 * k \in Nat
      BY <2>4
    <3>4. QED
      BY <2>2, <2>3, <3>2, <3>3
  <2>5. CASE Len(d) = 3 * k + 2
    <3>1. LastGroup = <<Base64Char0(d[3 * k + 1]), Base64Char1(d[3 * k + 1], d[3 * k + 2]),
                        Base64Char2(d[3 * k + 2], 0), PAD>>
      BY <1>1, <2>2, <2>5 DEF LastGroup
    <3>2. PICK t : t = str'
      OBVIOUS
    <3>3. t \in Seq(Written) /\ Encodes(t, d, 4 * k + 3)
      BY <2>1, <2>2, <2>5, <3>1, <3>2, TwoBytesEncode
    <3>4. (6 * (4 * k + 3)) \div 8 = Len(d) /\ 4 * k + 3 \in Nat
      BY <2>5
    <3>5. QED
      BY <2>3, <3>2, <3>3, <3>4
  <2>6. CASE Len(d) = 3 * k + 1
    <3>1. LastGroup = <<Base64Char0(d[3 * k + 1]), Base64Char1(d[3 * k + 1], 0), PAD, PAD>>
      BY <1>1, <2>2, <2>6 DEF LastGroup
    <3>2. PICK t : t = str'
      OBVIOUS
    <3>3. t \in Seq(Written) /\ Encodes(t, d, 4 * k + 2)
      BY <2>1, <2>2, <2>6, <3>1, <3>2, OneByteEncodes
    <3>4. (6 * (4 * k + 2)) \div 8 = Len(d) /\ 4 * k + 2 \in Nat
      BY <2>6
    <3>5. QED
      BY <2>3, <3>2, <3>3, <3>4
  <2>7. QED
    BY <1>2, <2>1, <2>2, <2>4, <2>5, <2>6
<1>5. CASE UNCHANGED evars
  BY <1>5 DEF evars, SpeltInv, Encodes
<1>6. QED
  BY <1>3, <1>4, <1>5 DEF EncNext

\* The input is the whole bytes of what is written.
LEMMA SpeltInput ==
  EncTypeOK /\ SpeltInv /\ ~encoding => WholeBytes(Letters(str)) = data
<1> SUFFICES ASSUME EncTypeOK, SpeltInv, ~encoding PROVE WholeBytes(Letters(str)) = data
  OBVIOUS
<1>1. PICK d \in Seq(Octet), s \in Seq(Written) : d = data /\ s = str
  BY DEF EncTypeOK, Octet, SpeltInv
<1>2. PICK n \in Nat : Encodes(s, d, n) /\ (6 * n) \div 8 = Len(d)
  BY <1>1 DEF SpeltInv
<1>3. PICK a \in Seq(Sextet) : a = Letters(s) /\ SpeltSo(a, d) /\ Len(a) = n
  BY <1>2, LettersMore DEF Encodes
<1>4. WholeBytes(a) = d
  BY <1>2, <1>3, SpeltBytes
<1>5. QED
  BY <1>1, <1>3, <1>4

-----------------------------------------------------------------------------
(***************************************************************************)
(* What is handed from the writer to the reader.                           *)
(***************************************************************************)
\* Up to its first NUL a string is what was written.
LEMMA FirstNul ==
  ASSUME NEW s \in Seq(Written), NEW n \in Nat, Len(s) <= n
  PROVE  CString([i \in 1..n |-> IF i <= Len(s) THEN s[i] ELSE NUL]) = s
<1> DEFINE t == [i \in 1..n |-> IF i <= Len(s) THEN s[i] ELSE NUL]
           Ends(l) == (\A i \in 1..l : t[i] # NUL) /\ (l < Len(t) => t[l + 1] = NUL)
<1>1. PICK m \in Nat : m = Len(s) /\ m <= n
  OBVIOUS
<1>2. \A i \in 1..m : s[i] # NUL
  <2>1. ASSUME NEW i \in 1..m PROVE s[i] # NUL
    <3>1. s[i] \in Written
      BY <1>1, ElementOfSeq
    <3>2. QED
      BY <3>1, WrittenKinds
  <2>2. QED
    BY <2>1
<1>3. \A i \in 1..n : t[i] = IF i <= m THEN s[i] ELSE NUL
  BY <1>1
<1>4. Len(t) = n
  OBVIOUS
<1>5. t \in Seq({s[i] : i \in 1..m} \cup {NUL})
  BY <1>1
<1> HIDE DEF t
<1>6. m \in 0..n /\ Ends(m)
  BY <1>1, <1>2, <1>3, <1>4
<1>7. ASSUME NEW l \in 0..n, Ends(l) PROVE l = m
  <2>1. ~(l < m)
    <3>1. SUFFICES ASSUME l < m PROVE FALSE
      OBVIOUS
    <3>2. l + 1 \in 1..m /\ l + 1 \in 1..n /\ l < Len(t)
      BY <1>1, <1>4, <3>1
    <3>3. t[l + 1] = NUL /\ t[l + 1] = s[l + 1]
      BY <1>3, <1>7, <3>2
    <3>4. QED
      BY <1>2, <3>2, <3>3
  <2>2. ~(l > m)
    <3>1. SUFFICES ASSUME l > m PROVE FALSE
      OBVIOUS
    <3>2. m + 1 \in 1..l /\ m + 1 \in 1..n /\ ~(m + 1 <= m)
      BY <1>1, <3>1
    <3>3. t[m + 1] = NUL
      BY <1>3, <3>2
    <3>4. QED
      BY <1>7, <3>2, <3>3
  <2>3. QED
    BY <2>1, <2>2
<1>8. (CHOOSE l \in 0..n : Ends(l)) = m
  <2> HIDE DEF Ends
  <2>1. QED
    BY <1>6, <1>7
<1>9. CString(t) = SubSeq(t, 1, m)
  BY <1>4, <1>8, Zenon DEF CString
<1>10. SubSeq(t, 1, m) = s
  <2>1. SubSeq(t, 1, m) = [i \in 1..m |-> t[i]]
    BY <1>1, <1>4, <1>5
  <2>2. s = [i \in 1..m |-> s[i]]
    BY <1>1
  <2>3. \A i \in 1..m : t[i] = s[i]
    BY <1>1, <1>3
  <2>4. QED
    BY <2>1, <2>2, <2>3
<1>11. QED
  BY <1>9, <1>10, Zenon DEF t

LEMMA StrSizeType == ASSUME NEW n \in Nat PROVE StrSize(n) \in Nat
<1>1. CASE n = 0
  BY <1>1 DEF StrSize
<1>2. CASE n # 0
  <2>1. EncodedSize(n) \in Nat /\ EncodedSize(n) > 0
    BY <1>2 DEF EncodedSize
  <2>2. PICK e \in Nat : e = EncodedSize(n) - 1
    BY <2>1
  <2>3. PICK q \in Nat : q = e \div LineLength
    BY LineLengthAssumption
  <2>4. QED
    BY <1>2, <2>1, <2>2, <2>3 DEF StrSize
<1>3. QED
  BY <1>1, <1>2

\* So the reader sees what was written, also when it is short.
LEMMA WhatIsSeen ==
  EncTypeOK /\ EncodeFits /\ SpeltInv => CString(Encoded) = str
<1> SUFFICES ASSUME EncTypeOK, EncodeFits, SpeltInv PROVE CString(Encoded) = str
  OBVIOUS
<1>1. PICK s \in Seq(Written) : s = str
  BY DEF SpeltInv
<1>2. Len(data) \in Nat
  BY DEF EncTypeOK
<1>3. PICK n \in Nat : n = StrSize(Len(data)) /\ Len(s) <= n
  BY <1>1, <1>2, StrSizeType DEF EncodeFits
<1>4. CString([i \in 1..n |-> IF i <= Len(s) THEN s[i] ELSE NUL]) = s
  BY <1>3, FirstNul
<1>5. QED
  BY <1>1, <1>3, <1>4, Zenon DEF Encoded

\* The reader has nothing before the writer is done, and then its text.
Handed ==
  /\ outcome \in {"none", "reading", "value", "fault"}
  /\ outcome = "none" =>
       text = << >> /\ pos = 0 /\ bits = 0 /\ bitCount = 0 /\ decoded = << >> /\ ~decoding
  /\ outcome # "none" => ~encoding /\ text = Normalised(str)
  /\ outcome = "reading" => decoding
  /\ outcome \in {"value", "fault"} => ~decoding
  /\ outcome = "fault" => text = << >>

RoundInv == EncInv /\ SpeltInv /\ DecInv /\ ReadInv /\ Handed

\* A decoder that has not started has read nothing.
LEMMA IdleReads ==
  text = << >> /\ pos = 0 /\ bits = 0 /\ bitCount = 0 /\ decoded = << >> /\ decoding = FALSE
    => DecInv /\ ReadInv
<1> SUFFICES ASSUME text = << >>, pos = 0, bits = 0, bitCount = 0, decoded = << >>, decoding = FALSE
             PROVE  DecInv /\ ReadInv
  OBVIOUS
<1>1. << >> \in Seq(-4..63) /\ << >> \in Seq(0..255) /\ Len(<< >>) = 0
  OBVIOUS
<1>2. DecTypeOK
  <2>1. text \in Seq(-4..63) /\ Len(text) = 0 /\ decoded \in Seq(0..255)
    BY <1>1
  <2>2. pos \in 0..Len(text) /\ bits \in Nat
    BY <2>1
  <2>3. decoding \in BOOLEAN
    BY Zenon
  <2>4. PendingBits
    BY DEF PendingBits
  <2>5. QED
    BY <2>1, <2>2, <2>3, <2>4, Zenon DEF DecTypeOK
<1>3. DecInv
  BY <1>1, <1>2 DEF DecInv, BitsAccounted
<1>4. PICK c : Spells(text, Alphabet(text), c)
  BY <1>1, TextSpelt
<1>5. Alphabet(text) = << >>
  BY WithoutEmpty DEF Alphabet
<1>6. WholeBytes(<< >>) = << >>
  <2>1. (6 * Len(<< >>)) \div 8 = 0
    BY <1>1
  <2>2. WholeBytes(<< >>) = [k \in 1..0 |-> Byte(<< >>, k)]
    BY <2>1 DEF WholeBytes
  <2>3. QED
    BY <2>2
<1>7. ReadSoFar(c)
  BY <1>4, <1>5, <1>6 DEF ReadSoFar
<1>8. QED
  BY <1>2, <1>3, <1>7 DEF ReadInv

LEMMA StartReadsInv ==
  /\ text \in Seq(-4..63) /\ pos = 0 /\ bits = 0 /\ bitCount = 0 /\ decoded = << >> /\ decoding = TRUE
  => DecInv /\ ReadInv
<1> SUFFICES ASSUME text \in Seq(-4..63), pos = 0, bits = 0, bitCount = 0, decoded = << >>, decoding = TRUE
             PROVE  DecInv /\ ReadInv
  OBVIOUS
<1>1. ReadInv
  BY StartReads
<1>2. BitsAccounted
  BY DEF BitsAccounted
<1>3. QED
  BY <1>1, <1>2 DEF ReadInv, DecInv

LEMMA RoundInitInv == Init => RoundInv
<1> SUFFICES ASSUME Init PROVE RoundInv
  OBVIOUS
<1>1. EncInv /\ SpeltInv
  BY EncInitInv, SpeltInitInv DEF Init
<1>2. DecInv /\ ReadInv
  BY IdleReads DEF Init
<1>3. QED
  BY <1>1, <1>2 DEF Init, RoundInv, Handed

LEMMA RoundNextInv == RoundInv /\ [Next]_vars => RoundInv'
<1> SUFFICES ASSUME RoundInv, [Next]_vars PROVE RoundInv'
  OBVIOUS
<1>1. EncInv /\ SpeltInv /\ DecInv /\ ReadInv /\ Handed /\ EncTypeOK
  BY DEF RoundInv, EncInv
<1>2. ASSUME UNCHANGED dvars PROVE DecInv' /\ ReadInv'
  BY <1>1, <1>2, DecNextInv, ReadNextInv
<1>3. ASSUME UNCHANGED evars PROVE EncInv' /\ SpeltInv'
  BY <1>1, <1>3, EncNextInv, SpeltNextInv
<1>4. CASE Encode
  <2>1. EncNext /\ UNCHANGED dvars /\ outcome' = outcome /\ encoding
    BY <1>4 DEF Encode, EncNext, EncodeGroup, EncodeTail
  <2>2. EncInv' /\ SpeltInv'
    BY <1>1, <2>1, EncNextInv, SpeltNextInv
  <2>3. Handed'
    BY <1>1, <2>1 DEF Handed, dvars
  <2>4. QED
    BY <1>2, <2>1, <2>2, <2>3 DEF RoundInv
<1>5. CASE Read
  <2>1. /\ ~encoding /\ outcome = "none" /\ UNCHANGED evars
        /\ pos' = pos /\ bits' = bits /\ bitCount' = bitCount /\ decoded' = decoded
    BY <1>5 DEF Read
  <2>2. /\ text' = Normalised(CString(Encoded))
        /\ decoding' = (text' # << >>)
        /\ outcome' = IF text' = << >> THEN "fault" ELSE "reading"
    BY <1>5 DEF Read
  <2>3. text' = Normalised(str)
    BY <1>1, <2>2, WhatIsSeen, EncInvImplies
  <2>4. Normalised(str) \in Seq(-4..63)
    BY <1>1, NormalisedType DEF EncTypeOK
  <2>5. pos = 0 /\ bits = 0 /\ bitCount = 0 /\ decoded = << >>
    BY <1>1, <2>1 DEF Handed
  <2>6. DecInv' /\ ReadInv'
    <3>1. CASE text' = << >>
      <4>1. (text = << >> /\ pos = 0 /\ bits = 0 /\ bitCount = 0 /\ decoded = << >> /\ decoding = FALSE)'
        BY <2>1, <2>2, <2>5, <3>1
      <4>2. QED
        BY <4>1, IdleReads, PTL
    <3>2. CASE text' # << >>
      <4>1. (text \in Seq(-4..63) /\ pos = 0 /\ bits = 0 /\ bitCount = 0 /\ decoded = << >> /\ decoding = TRUE)'
        BY <2>1, <2>2, <2>3, <2>4, <2>5, <3>2
      <4>2. QED
        BY <4>1, StartReadsInv, PTL
    <3>3. QED
      BY <3>1, <3>2
  <2>7. Handed'
    <3>1. ~encoding' /\ str' = str
      BY <2>1 DEF evars
    <3>2. text' = Normalised(str')
      BY <2>3, <3>1
    <3>3. QED
      BY <2>2, <3>1, <3>2 DEF Handed
  <2>8. QED
    BY <1>3, <2>1, <2>6, <2>7 DEF RoundInv
<1>6. CASE Decode
  <2>1. DecNext /\ UNCHANGED evars /\ decoding /\ text' = text
        /\ outcome' = IF decoding' THEN outcome ELSE "value"
    BY <1>6 DEF Decode, DecNext, Skip, Accumulate, WriteThree, Finish
  <2>2. DecInv' /\ ReadInv'
    BY <1>1, <2>1, DecNextInv, ReadNextInv
  <2>3. Handed'
    <3>1. outcome = "reading"
      BY <1>1, <2>1 DEF Handed
    <3>2. ~encoding' /\ str' = str /\ text' = Normalised(str)
      BY <1>1, <2>1, <3>1 DEF evars, Handed
    <3>3. text' = Normalised(str')
      BY <3>2
    <3>4. QED
      BY <2>1, <3>1, <3>2, <3>3 DEF Handed
  <2>4. QED
    BY <1>3, <2>1, <2>2, <2>3 DEF RoundInv
<1>7. CASE UNCHANGED vars
  <2>1. UNCHANGED dvars /\ UNCHANGED evars /\ outcome' = outcome
    BY <1>7 DEF vars
  <2>2. Handed'
    BY <1>1, <2>1 DEF Handed, dvars, evars
  <2>3. QED
    BY <1>2, <1>3, <2>1, <2>2 DEF RoundInv
<1>8. QED
  BY <1>4, <1>5, <1>6, <1>7 DEF Next

\* A value is the whole bytes of the letters written, and those are the input.
LEMMA RoundInvRestores == RoundInv => RoundTrip
<1> SUFFICES ASSUME RoundInv PROVE RoundTrip
  OBVIOUS
<1>1. EncTypeOK /\ SpeltInv /\ ReadInv /\ Handed
  BY DEF RoundInv, EncInv
<1>2. ASSUME outcome = "value" PROVE decoded = data
  <2>1. ~encoding /\ ~decoding /\ text = Normalised(str)
    BY <1>1, <1>2 DEF Handed
  <2>2. decoded = WholeBytes(Letters(str))
    BY <1>1, <2>1, ReadInvMatches DEF DecodeMatchesBits, Letters
  <2>3. QED
    BY <1>1, <2>1, <2>2, SpeltInput
<1>3. ASSUME outcome = "fault" PROVE data = << >>
  <2>1. ~encoding /\ Normalised(str) = << >>
    BY <1>1, <1>3 DEF Handed
  <2>2. Letters(str) = << >>
    BY <2>1, WithoutEmpty DEF Letters, Alphabet
  <2>3. WholeBytes(<< >>) = data
    BY <1>1, <2>1, <2>2, SpeltInput
  <2>4. (6 * Len(<< >>)) \div 8 = 0
    OBVIOUS
  <2>5. WholeBytes(<< >>) = [k \in 1..0 |-> Byte(<< >>, k)]
    BY <2>4 DEF WholeBytes
  <2>6. QED
    BY <2>3, <2>5
<1>4. QED
  BY <1>2, <1>3 DEF RoundTrip

\* Whatever bytes the writer is given, and whatever the length of a line, the
\* reader gets them back, or finds no text because there were none
\* (xmlwriter.cpp:150-157, xmlreader.cpp:137-142).
THEOREM SpecRoundTrip == Spec => []RoundTrip
<1>1. QED
  BY RoundInitInv, RoundNextInv, RoundInvRestores, PTL DEF Spec

\* Both halves keep their types, nothing is written past a buffer, and what is
\* decoded is what the text spells, also in the pipeline (util.cpp:116-195).
THEOREM SpecStaysInBounds == Spec => [](TypeOK /\ EncodeFits /\ DecodeFits /\ DecodeMatchesBits)
<1>1. RoundInv => TypeOK /\ EncodeFits /\ DecodeFits /\ DecodeMatchesBits
  BY EncInvImplies, DecInvFits, ReadInvMatches DEF RoundInv, EncInv, DecInv, TypeOK
<1>2. QED
  BY RoundInitInv, RoundNextInv, <1>1, PTL DEF Spec
=============================================================================
