--------------------------- MODULE XmlTextProofs ---------------------------
(***************************************************************************)
(* Proofs about decoding a text in place, whatever the text and the buffer *)
(* around it: it stays inside the text (IInv), what comes into it is bytes *)
(* (TypeInv), and what was printed is read as it was, a character after    *)
(* the other (Faithful).                                                   *)
(***************************************************************************)
EXTENDS XmlText, SequenceTheorems, WellFoundedInduction, TLAPS

N == Len(Before) + Len(body) + Len(After)

\* The buffer as it was when the document was parsed.
Original == Before \o body \o After

\* The buffer keeps its size; whatever its elements are does not matter here.
BufferOK == mem = [i \in 1..N |-> mem[i]]

\* The text that is being read always ends with a NUL, at its end or before.
Ended ==
  /\ stage = "decoding" => mem[end] = NUL
  /\ stage = "trimming" => \E m \in start..end : mem[m] = NUL
  /\ stage = "collapsing" => \E m \in r..end : mem[m] = NUL

\* StaysInside with what it rests on.
IInv ==
  /\ body \in Seq(Char \ {NUL})
  /\ BufferOK
  /\ first \in Nat /\ r \in Nat /\ w \in Nat
  /\ stage \in {"parsed", "decoding", "trimming", "collapsing", "read"}
  /\ stage = "parsed" => first = start /\ r = start /\ w = start
  /\ stage \in {"decoding", "trimming"} => first = start
  /\ Ended
  /\ StaysInside

-----------------------------------------------------------------------------
\* The places: the text lies inside the buffer, and something comes after it.
LEMMA Places ==
  ASSUME body \in Seq(Char \ {NUL})
  PROVE  /\ start \in Nat /\ end \in Nat /\ N \in Nat
         /\ 1 <= start /\ start <= end /\ end <= N
<1>1. Len(Before) \in Nat /\ Len(body) \in Nat
  BY TextAssumption
<1>2. Len(After) \in Nat /\ Len(After) >= 1
  <2>1. After \in Seq(Char) /\ After # << >>
    BY TextAssumption
  <2>2. QED
    BY <2>1, EmptySeq, LenProperties
<1>3. QED
  BY <1>1, <1>2 DEF start, end, N

\* Every set of natural numbers that is not empty has a least one.
LEMMA LeastNat ==
  ASSUME NEW T \in SUBSET Nat, T # {}
  PROVE  \E k \in T : \A j \in T : k <= j
<1> DEFINE R == OpToRel(<, Nat)
<1>1. IsWellFoundedOn(R, Nat)
  BY ONLY NatLessThanWellFounded, Zenon
<1>2. R = {ss \in Nat \X Nat : ss[1] < ss[2]}
  BY ONLY Zenon DEF OpToRel
<1> HIDE DEF R
<1>3. PICK k \in T : \A j \in T : <<j, k>> \notin R
  BY <1>1, WFMin
<1>4. \A j \in T : ~(j < k)
  BY <1>2, <1>3
<1>5. QED
  BY <1>4

\* Induction up to n, over a set of numbers.
LEMMA UpTo ==
  ASSUME NEW n \in Nat, NEW T, 0 \in T, \A i \in 0..(n - 1) : i \in T => i + 1 \in T
  PROVE  \A i \in 0..n : i \in T
<1> DEFINE Bad == {i \in 0..n : i \notin T}
<1> SUFFICES ASSUME Bad # {} PROVE FALSE
  OBVIOUS
<1>1. Bad \in SUBSET Nat
  OBVIOUS
<1>2. PICK x \in Bad : \A y \in Bad : x <= y
  <2> HIDE DEF Bad
  <2>1. QED
    BY <1>1, LeastNat
<1>3. x \in 0..n /\ x \notin T /\ x # 0
  OBVIOUS
<1>4. x - 1 \in 0..(n - 1) /\ (x - 1) + 1 = x /\ x - 1 \in 0..n /\ ~(x <= x - 1)
  BY <1>3
<1>5. x - 1 \in T
  BY <1>2, <1>4
<1>6. QED
  BY <1>3, <1>4, <1>5

\* A recursion on numbers, where each value is a function of the one before.
LEMMA Solved ==
  ASSUME NEW n \in Nat, NEW z \in Nat, NEW G \in [(1..n) \X Nat -> Nat]
  PROVE  \E f \in [0..n -> Nat] : f[0] = z /\ \A i \in 1..n : f[i] = G[<<i, f[i - 1]>>]
<1> DEFINE Fits(f, k) == f[0] = z /\ \A i \in 1..k : f[i] = G[<<i, f[i - 1]>>]
           T == {k \in 0..n : \E f \in [0..k -> Nat] : Fits(f, k)}
<1>1. 0 \in T
  <2> DEFINE g == [i \in 0..0 |-> z]
  <2>1. g \in [0..0 -> Nat] /\ g[0] = z
    OBVIOUS
  <2> HIDE DEF g
  <2>2. Fits(g, 0) /\ 0 \in 0..n
    BY <2>1
  <2> HIDE DEF Fits
  <2>3. QED
    BY <2>1, <2>2
<1>2. ASSUME NEW k \in 0..(n - 1), k \in T PROVE k + 1 \in T
  <2>1. PICK f \in [0..k -> Nat] : Fits(f, k)
    BY <1>2
  <2>2. <<k + 1, f[k]>> \in (1..n) \X Nat
    OBVIOUS
  <2> DEFINE next == G[<<k + 1, f[k]>>]
             g == [i \in 0..(k + 1) |-> IF i = k + 1 THEN next ELSE f[i]]
  <2>3. next \in Nat
    BY <2>2
  <2> HIDE DEF next
  <2>4. g \in [0..(k + 1) -> Nat] /\ g[k + 1] = next /\ \A i \in 0..k : g[i] = f[i]
    BY <2>3
  <2> HIDE DEF g
  <2>5. Fits(g, k + 1)
    <3>1. g[0] = z
      BY <2>1, <2>4
    <3>2. ASSUME NEW i \in 1..(k + 1) PROVE g[i] = G[<<i, g[i - 1]>>]
      <4>1. CASE i = k + 1
        <5>1. i - 1 = k /\ g[k] = f[k]
          BY <2>4, <4>1
        <5>2. QED
          BY <2>4, <4>1, <5>1 DEF next
      <4>2. CASE i \in 1..k
        BY <2>1, <2>4, <4>2
      <4>3. QED
        BY <4>1, <4>2
    <3>3. QED
      BY <3>1, <3>2
  <2>6. k + 1 \in 0..n
    OBVIOUS
  <2> HIDE DEF Fits
  <2>7. QED
    BY <2>4, <2>5, <2>6
<1>3. \A k \in 0..n : k \in T
  <2> HIDE DEF T
  <2>1. QED
    BY ONLY n \in Nat, <1>1, <1>2, UpTo
<1>4. QED
  BY <1>3

\* The counts of the digits.
IsMult(base, n, f) ==
  f = [i \in 0..n |-> IF i = 0 THEN 1 ELSE (base * f[i - 1]) % UnsignedRange]
Mult(base, n) == CHOOSE f : IsMult(base, n, f)

LEMMA MultType ==
  ASSUME NEW base \in Nat, NEW n \in Nat
  PROVE  Mult(base, n) \in [0..n -> Nat]
<1> DEFINE G == [p \in (1..n) \X Nat |-> (base * p[2]) % UnsignedRange]
<1>0. \A x \in Int : x % UnsignedRange \in Nat
  BY TextAssumption
<1>1. G \in [(1..n) \X Nat -> Nat] /\ 1 \in Nat
  BY <1>0
<1>2. \A i \in 1..n, x \in Nat : G[<<i, x>>] = (base * x) % UnsignedRange
  OBVIOUS
<1> HIDE DEF G
<1>3. PICK f \in [0..n -> Nat] : f[0] = 1 /\ \A i \in 1..n : f[i] = G[<<i, f[i - 1]>>]
  BY <1>1, Solved
<1>4. IsMult(base, n, f)
  <2>1. ASSUME NEW i \in 0..n
        PROVE  f[i] = IF i = 0 THEN 1 ELSE (base * f[i - 1]) % UnsignedRange
    <3>1. CASE i = 0
      BY <1>3, <3>1
    <3>2. CASE i \in 1..n
      <4>1. f[i - 1] \in Nat /\ f[i] = G[<<i, f[i - 1]>>] /\ i # 0
        BY <1>3, <3>2
      <4>2. QED
        BY <1>2, <3>2, <4>1
    <3>3. QED
      BY <3>1, <3>2
  <2>2. QED
    BY <2>1 DEF IsMult
<1> DEFINE g == Mult(base, n)
<1>5. IsMult(base, n, g)
  BY <1>4 DEF Mult
<1> HIDE DEF g
<1>6. DOMAIN g = 0..n /\ g = [i \in 0..n |-> g[i]] /\ g[0] = 1
      /\ \A i \in 0..n : g[i] = IF i = 0 THEN 1 ELSE (base * g[i - 1]) % UnsignedRange
  BY <1>5 DEF IsMult
<1>7. \A i \in 0..n : g[i] \in Nat
  <2> DEFINE T == {i \in 0..n : g[i] \in Nat}
  <2>1. 0 \in T
    BY <1>6
  <2>2. ASSUME NEW i \in 0..(n - 1), i \in T PROVE i + 1 \in T
    <3>1. i + 1 \in 0..n /\ i + 1 # 0 /\ (i + 1) - 1 = i /\ g[i] \in Nat
      BY <2>2
    <3>2. g[i + 1] = (base * g[i]) % UnsignedRange
      BY <1>6, <3>1
    <3>3. base * g[i] \in Int
      BY <3>1
    <3>4. QED
      BY <1>0, <3>1, <3>2, <3>3
  <2>3. \A i \in 0..n : i \in T
    <3> HIDE DEF T
    <3>1. QED
      BY ONLY n \in Nat, <2>1, <2>2, UpTo
  <2>4. QED
    BY <2>3
<1>8. QED
  BY <1>6, <1>7 DEF g

\* What a reference counts is a number, and without digits it is 0.
LEMMA NumberType ==
  ASSUME NEW digits, NEW base \in Nat, Len(digits) \in Nat,
         \A i \in 1..Len(digits) : DigitValue(digits[i], base) \in Int
  PROVE  Number(digits, base) \in Nat /\ (Len(digits) = 0 => Number(digits, base) = 0)
<1> DEFINE n == Len(digits)
           mult == Mult(base, n)
           scaled(i) == (mult[n - i] * DigitValue(digits[i], base)) % UnsignedRange
           IsUcs(f) == f = [i \in 0..n |-> IF i = 0 THEN 0 ELSE f[i - 1] + scaled(i)]
           ucs == CHOOSE f : IsUcs(f)
<1>1. Number(digits, base) = ucs[n]
  BY DEF Number, Mult, IsMult
<1>0. \A x \in Int : x % UnsignedRange \in Nat
  BY TextAssumption
<1>2. \A i \in 1..n : scaled(i) \in Nat
  <2> SUFFICES ASSUME NEW i \in 1..n PROVE scaled(i) \in Nat
    OBVIOUS
  <2>1. mult[n - i] \in Nat
    <3>1. mult \in [0..n -> Nat]
      BY MultType
    <3> HIDE DEF mult
    <3>2. QED
      BY <3>1
  <2> HIDE DEF mult
  <2>2. mult[n - i] * DigitValue(digits[i], base) \in Int
    BY <2>1
  <2>3. QED
    BY <1>0, <2>2
<1>3. n \in Nat
  OBVIOUS
<1> DEFINE G == [p \in (1..n) \X Nat |-> p[2] + scaled(p[1])]
<1> HIDE DEF n, scaled
<1>4. G \in [(1..n) \X Nat -> Nat] /\ 0 \in Nat
  BY <1>2
<1>5. \A i \in 1..n, x \in Nat : G[<<i, x>>] = x + scaled(i)
  OBVIOUS
<1> HIDE DEF G
<1>6. PICK f \in [0..n -> Nat] : f[0] = 0 /\ \A i \in 1..n : f[i] = G[<<i, f[i - 1]>>]
  BY <1>3, <1>4, Solved
<1>7. IsUcs(f)
  <2>1. ASSUME NEW i \in 0..n PROVE f[i] = IF i = 0 THEN 0 ELSE f[i - 1] + scaled(i)
    <3>1. CASE i = 0
      BY <1>6, <3>1
    <3>2. CASE i \in 1..n
      <4>1. f[i - 1] \in Nat /\ f[i] = G[<<i, f[i - 1]>>] /\ i # 0
        BY <1>3, <1>6, <3>2
      <4>2. QED
        BY <1>5, <3>2, <4>1
    <3>3. QED
      BY <1>3, <3>1, <3>2
  <2>2. QED
    BY <2>1
<1>8. IsUcs(ucs)
  <2> HIDE DEF IsUcs
  <2>1. QED
    BY <1>7
<1> HIDE DEF ucs
<1>9. ucs[0] = 0 /\ \A i \in 0..n : ucs[i] = IF i = 0 THEN 0 ELSE ucs[i - 1] + scaled(i)
  BY <1>3, <1>8
<1>10. \A i \in 0..n : ucs[i] \in Nat
  <2> DEFINE T == {i \in 0..n : ucs[i] \in Nat}
  <2>1. 0 \in T
    BY <1>3, <1>9
  <2>2. ASSUME NEW i \in 0..(n - 1), i \in T PROVE i + 1 \in T
    <3>1. i + 1 \in 0..n /\ i + 1 \in 1..n /\ i + 1 # 0 /\ (i + 1) - 1 = i /\ ucs[i] \in Nat
      BY <1>3, <2>2
    <3>2. ucs[i + 1] = ucs[i] + scaled(i + 1)
      BY <1>9, <3>1
    <3>3. scaled(i + 1) \in Nat
      BY <1>2, <3>1
    <3>4. QED
      BY <3>1, <3>2, <3>3
  <2>3. \A i \in 0..n : i \in T
    <3> HIDE DEF T
    <3>1. QED
      BY ONLY <1>3, <2>1, <2>2, UpTo
  <2>4. QED
    BY <2>3
<1>11. QED
  <2>1. n \in 0..n
    BY <1>3
  <2>2. Number(digits, base) \in Nat /\ (n = 0 => Number(digits, base) = 0)
    BY <1>1, <1>9, <1>10, <2>1
  <2>3. QED
    BY <2>2 DEF n

\* Find returns the first position: between where it starts and any that fits.
LEMMA FindFirst ==
  ASSUME NEW b, NEW n \in Nat, DOMAIN b = 1..n, NEW i \in 1..n, NEW S,
         NEW m \in i..n, b[m] \in S
  PROVE  /\ Find(b, i, S) \in i..m
         /\ b[Find(b, i, S)] \in S
         /\ \A j \in i..(Find(b, i, S) - 1) : b[j] \notin S
<1> DEFINE T == {j \in i..n : b[j] \in S}
<1>1. T \in SUBSET Nat /\ T # {}
  OBVIOUS
<1>2. PICK x \in T : \A y \in T : x <= y
  <2> HIDE DEF T
  <2>1. QED
    BY <1>1, LeastNat
<1>3. /\ x \in DOMAIN b /\ x >= i /\ b[x] \in S
      /\ \A j \in i..(x - 1) : b[j] \notin S
  BY <1>2
<1>4. /\ Find(b, i, S) \in DOMAIN b /\ Find(b, i, S) >= i /\ b[Find(b, i, S)] \in S
      /\ \A j \in i..(Find(b, i, S) - 1) : b[j] \notin S
  BY <1>3 DEF Find
<1>5. Find(b, i, S) <= m
  BY <1>4
<1>6. QED
  BY <1>4, <1>5

\* FindBack returns the last position, if there is any.
LEMMA FindBackLast ==
  ASSUME NEW b, NEW m \in Nat, NEW p \in Nat, m < p, NEW ch, b[m] = ch
  PROVE  FindBack(b, m, p, ch) \in m..(p - 1)
<1> DEFINE T == {k \in 0..(p - 1 - m) : b[p - 1 - k] = ch}
<1>1. p - 1 - m \in T /\ T \in SUBSET Nat
  <2>1. p - 1 - m \in 0..(p - 1 - m) /\ p - 1 - (p - 1 - m) = m
    OBVIOUS
  <2>2. QED
    BY <2>1
<1>2. PICK k \in T : \A l \in T : k <= l
  <2> HIDE DEF T
  <2>1. QED
    BY <1>1, LeastNat
<1> DEFINE i == p - 1 - k
<1>3. k \in 0..(p - 1 - m) /\ b[i] = ch /\ i \in m..(p - 1)
  BY <1>2
<1>4. ASSUME NEW j \in (i + 1)..(p - 1), b[j] = ch PROVE FALSE
  <2>1. p - 1 - j \in 0..(p - 1 - m) /\ p - 1 - (p - 1 - j) = j /\ p - 1 - j < k
    BY <1>3
  <2>2. p - 1 - j \in T
    BY <1>4, <2>1
  <2>3. QED
    BY <1>2, <1>3, <2>1, <2>2
<1> HIDE DEF i
<1>5. QED
  BY <1>3, <1>4 DEF FindBack

\* A code becomes at most four bytes, and 0 a single one.
LEMMA Utf8Lengths ==
  ASSUME NEW code
  PROVE  /\ Len(Utf8(code)) \in 0..4
         /\ code = 0 => Len(Utf8(code)) = 1
<1>1. Utf8Length(code) \in 0..4 /\ (code = 0 => Utf8Length(code) = 1)
  BY DEF Utf8Length
<1>2. Len(Utf8(code)) = Utf8Length(code)
  <2> DEFINE byte(i) == LET rest == code \div Sextet[Utf8Length(code) - i + 1]
                        IN  IF i = 1 THEN FirstByteMark[Utf8Length(code)] + rest
                            ELSE Utf8Tail(rest)
  <2>1. Utf8(code) = [i \in 1..Utf8Length(code) |-> byte(i)]
    BY DEF Utf8
  <2> HIDE DEF byte
  <2>2. QED
    BY <1>1, <2>1
<1>3. QED
  BY <1>1, <1>2

\* The bytes of a code are bytes.
LEMMA Utf8Bytes ==
  ASSUME NEW code \in Nat
  PROVE  \A i \in 1..Len(Utf8(code)) : Utf8(code)[i] \in Char
<1> DEFINE l == Utf8Length(code)
           byte(i) == LET rest == code \div Sextet[l - i + 1]
                      IN  IF i = 1 THEN FirstByteMark[l] + rest ELSE Utf8Tail(rest)
<1>1. Utf8(code) = [i \in 1..l |-> byte(i)]
  BY DEF Utf8
<1>2. /\ l \in 0..4
  BY DEF Utf8Length
<1>3. /\ l = 1 => code < 128
      /\ l = 2 => code < 2048
      /\ l = 3 => code < 65536
      /\ l = 4 => code < 2097152
  BY DEF Utf8Length
<1>4. ASSUME NEW i \in 1..l PROVE byte(i) \in Char
  <2>1. l \in 1..4 /\ l - i + 1 \in 1..l
    BY <1>2
  <2> HIDE DEF l
  <2>2. CASE i = 1
    <3>1. CASE l = 1
      BY <1>3, <2>2, <3>1 DEF Sextet, FirstByteMark, Char
    <3>2. CASE l = 2
      BY <1>3, <2>2, <3>2 DEF Sextet, FirstByteMark, Char
    <3>3. CASE l = 3
      BY <1>3, <2>2, <3>3 DEF Sextet, FirstByteMark, Char
    <3>4. CASE l = 4
      BY <1>3, <2>2, <3>4 DEF Sextet, FirstByteMark, Char
    <3>5. QED
      BY <2>1, <3>1, <3>2, <3>3, <3>4
  <2>3. CASE i # 1
    <3>1. Sextet[l - i + 1] \in Nat \ {0}
      <4>1. \A k \in 1..4 : Sextet[k] \in Nat \ {0}
        BY DEF Sextet
      <4>2. QED
        BY <2>1, <4>1
    <3> DEFINE rest == code \div Sextet[l - i + 1]
    <3>2. rest \in Nat
      BY <3>1
    <3>3. byte(i) = Utf8Tail(rest)
      BY <2>3
    <3> HIDE DEF rest
    <3>4. QED
      BY <3>2, <3>3 DEF Utf8Tail, ByteMark, Char
  <2>4. QED
    BY <2>2, <2>3
<1> HIDE DEF byte
<1>5. Len(Utf8(code)) = l
  BY <1>1, <1>2
<1>6. QED
  BY <1>1, <1>4, <1>5

\* A reference that is taken lies inside the text, and what it becomes is not
\* longer.
LEMMA ReferenceShrinks ==
  ASSUME NEW b, NEW n \in Nat, DOMAIN b = 1..n, NEW e \in 1..n, b[e] = NUL,
         NEW i \in 1..n, i < e, b[i + 1] = HASH, CharacterRef(b, i) # NoRef
  PROVE  /\ CharacterRef(b, i).length \in 1..(e - i)
         /\ Len(CharacterRef(b, i).bytes) \in 0..CharacterRef(b, i).length
<1>1. i + 2 <= e
  BY DEF NUL, HASH
<1>2. CASE b[i + 2] = NUL
  <2>1. CharacterRef(b, i) = [length |-> 1, bytes |-> << >>]
    BY <1>2 DEF CharacterRef
  <2>2. QED
    BY <1>1, <2>1
<1>3. CASE b[i + 2] # NUL
  <2> DEFINE hex == b[i + 2] = LOWER_X
             from == IF hex THEN i + 3 ELSE i + 2
             semicolon == Find(b, from, {SEMICOLON, NUL})
             mark == FindBack(b, from - 1, semicolon, IF hex THEN LOWER_X ELSE HASH)
             digits == SubSeq(b, mark + 1, semicolon - 1)
             base == IF hex THEN 16 ELSE 10
  <2>1. from \in 1..n /\ from <= e /\ from >= i + 2
    BY <1>1, <1>3
  <2>2. semicolon \in from..e /\ b[semicolon] \in {SEMICOLON, NUL}
    <3> HIDE DEF from
    <3>1. e \in from..n /\ b[e] \in {SEMICOLON, NUL}
      BY <2>1
    <3>2. QED
      BY <2>1, <3>1, FindFirst
  <2>8. mark \in (from - 1)..(semicolon - 1)
    <3>1. /\ b[from - 1] = IF hex THEN LOWER_X ELSE HASH
          /\ from - 1 \in Nat /\ semicolon \in Nat /\ from - 1 < semicolon
      BY <2>1, <2>2
    <3> HIDE DEF hex, from, semicolon
    <3>2. QED
      BY <3>1, FindBackLast
  <2>3. /\ CharacterRef(b, i) =
             [length |-> semicolon + 1 - i, bytes |-> Utf8(Number(digits, base))]
        /\ b[semicolon] # NUL
    <3>1. CharacterRef(b, i) =
            IF b[i + 2] = NUL THEN [length |-> 1, bytes |-> << >>]
            ELSE IF \/ b[semicolon] = NUL
                    \/ \E j \in DOMAIN digits : DigitValue(digits[j], base) = -1
            THEN NoRef
            ELSE [length |-> semicolon + 1 - i, bytes |-> Utf8(Number(digits, base))]
      BY DEF CharacterRef
    <3> HIDE DEF hex, from, semicolon, mark, digits, base
    <3>2. QED
      BY <1>3, <3>1
  <2> HIDE DEF hex, from, semicolon, mark, base
  <2>4. semicolon < e
    BY <2>2, <2>3
  <2>5. semicolon + 1 - i \in 1..(e - i)
    BY <2>1, <2>2, <2>4
  <2>6. Len(Utf8(Number(digits, base))) \in 0..(semicolon + 1 - i)
    <3>1. CASE semicolon = mark + 1
      <4>1. digits = << >>
        BY <2>1, <2>2, <2>8, <3>1, SubSeqEmpty
      <4>2. Number(digits, base) = 0
        <5>1. base \in Nat /\ Len(digits) = 0
          BY <4>1 DEF base
        <5> HIDE DEF digits
        <5>2. QED
          BY <5>1, NumberType
      <4>3. QED
        <5>1. Len(Utf8(Number(digits, base))) = 1
          BY <4>2, Utf8Lengths
        <5>2. 1 \in 0..(semicolon + 1 - i)
          BY <2>1, <2>2
        <5>3. QED
          BY <5>1, <5>2
    <3>2. CASE semicolon > mark + 1
      <4>1. Len(Utf8(Number(digits, base))) \in 0..4
        BY Utf8Lengths
      <4>2. QED
        <5>1. semicolon + 1 - i \in Int /\ semicolon + 1 - i >= 4
          BY <2>1, <2>2, <2>8, <3>2
        <5> DEFINE len == Len(Utf8(Number(digits, base)))
                   taken == semicolon + 1 - i
        <5> HIDE DEF len, taken
        <5>2. len \in 0..4
          BY <4>1 DEF len
        <5>3. taken \in Int /\ taken >= 4
          BY <5>1 DEF taken
        <5>4. len \in 0..taken
          BY <5>2, <5>3
        <5>5. QED
          BY <5>4 DEF len, taken
    <3>3. QED
      BY <2>1, <2>2, <2>8, <3>1, <3>2
  <2>7. QED
    BY <2>3, <2>5, <2>6
<1>4. QED
  BY <1>2, <1>3

-----------------------------------------------------------------------------
\* What is written lies behind the read pointer: everything from there on stays.
LEMMA PutKeeps ==
  ASSUME body \in Seq(Char \ {NUL}), BufferOK, r \in Nat, w \in Nat,
         start <= w, w <= r, NEW bytes, NEW n \in Nat, Len(bytes) \in 0..n,
         r + n <= end, Put(bytes, n), body' = body
  PROVE  /\ BufferOK'
         /\ r' = r + n /\ w' = w + Len(bytes) /\ w' \in Nat
         /\ start <= w' /\ w' <= r' /\ w <= w'
         /\ \A i \in 1..N : i < w \/ i >= r' => mem'[i] = mem[i]
<1>1. /\ start \in Nat /\ end \in Nat /\ N \in Nat
      /\ 1 <= start /\ start <= end /\ end <= N
  BY Places
<1>2. r' = r + n /\ w' = w + Len(bytes)
  BY DEF Put
<1>3. mem' = [i \in 1..N |-> IF i \in w..(w + Len(bytes) - 1)
                            THEN bytes[i - w + 1] ELSE mem[i]]
  <2>1. DOMAIN mem = 1..N
    BY DEF BufferOK
  <2>2. QED
    BY <2>1 DEF Put
<1>4. N' = N
  BY DEF N
<1>5. BufferOK'
  BY <1>3, <1>4 DEF BufferOK
<1>6. \A i \in 1..N : i < w \/ i >= r' => mem'[i] = mem[i]
  <2> SUFFICES ASSUME NEW i \in 1..N, i < w \/ i >= r'
               PROVE  mem'[i] = mem[i]
    OBVIOUS
  <2>1. i \notin w..(w + Len(bytes) - 1)
    BY <1>2
  <2>2. QED
    BY <1>3, <2>1
<1>7. QED
  BY <1>1, <1>2, <1>5, <1>6

\* A step of the first loop that takes n characters of the text.
LEMMA DecodeStep ==
  ASSUME IInv, Decoding, NEW bytes, NEW n \in Nat, Len(bytes) \in 0..n,
         r + n <= end, Put(bytes, n),
         UNCHANGED <<body, plain, flags, first, stage>>
  PROVE  IInv'
<1>1. /\ start \in Nat /\ end \in Nat /\ N \in Nat
      /\ 1 <= start /\ start <= end /\ end <= N
      /\ start' = start /\ end' = end /\ N' = N
  BY Places DEF IInv, start, end, N
<1>2. /\ BufferOK'
      /\ r' = r + n /\ w' = w + Len(bytes) /\ w' \in Nat
      /\ start <= w' /\ w' <= r' /\ w <= w'
      /\ \A i \in 1..N : i < w \/ i >= r' => mem'[i] = mem[i]
  <2>1. /\ BufferOK /\ body \in Seq(Char \ {NUL}) /\ r \in Nat /\ w \in Nat
        /\ first = start /\ first <= w /\ w <= r
    BY DEF IInv, StaysInside, Decoding
  <2>2. QED
    BY <2>1, PutKeeps
<1>3. mem'[end] = NUL
  BY <1>1, <1>2 DEF IInv, Ended, Decoding
<1>4. StaysInside'
  <2>1. first' <= w' /\ start' <= first' /\ w' <= r' /\ r' <= end'
    BY <1>1, <1>2 DEF IInv, Decoding
  <2>2. \A i \in DOMAIN mem' \ (start..end) : mem'[i] = Original[i]
    <3> SUFFICES ASSUME NEW i \in 1..N, i \notin start..end
                 PROVE  mem'[i] = Original[i]
      BY <1>1, <1>2 DEF BufferOK
    <3>1. i < w \/ i >= r'
      BY <1>1, <1>2 DEF IInv, StaysInside
    <3>2. mem'[i] = mem[i]
      BY <1>2, <3>1
    <3>3. i \in DOMAIN mem \ (start..end)
      BY DEF IInv, BufferOK
    <3>4. QED
      BY <3>2, <3>3 DEF IInv, StaysInside, Original
  <2>3. QED
    BY <1>1, <2>1, <2>2 DEF StaysInside, Original
<1>5. QED
  BY <1>1, <1>2, <1>3, <1>4 DEF IInv, Ended, Decoding

-----------------------------------------------------------------------------
\* The references that are known hold no NUL.
LEMMA EntityReferences ==
  ASSUME NEW e \in Entities
  PROVE  /\ Reference(e) \in Seq(Char \ {NUL})
         /\ Len(Reference(e)) \in Nat /\ Len(Reference(e)) >= 1
<1>1. e.pattern \in Seq(Char \ {NUL})
  <2> DEFINE S == Char \ {NUL}
  <2>1. \A ch \in 1..255 : ch \in S
    BY DEF Char, NUL
  <2> HIDE DEF S
  <2>2. /\ <<113, 117, 111, 116>> \in Seq(S) /\ <<97, 109, 112>> \in Seq(S)
        /\ <<97, 112, 111, 115>> \in Seq(S) /\ <<108, 116>> \in Seq(S)
        /\ <<103, 116>> \in Seq(S)
    BY <2>1
  <2>3. \/ e.pattern = <<113, 117, 111, 116>> \/ e.pattern = <<97, 109, 112>>
        \/ e.pattern = <<97, 112, 111, 115>> \/ e.pattern = <<108, 116>>
        \/ e.pattern = <<103, 116>>
    BY DEF Entities, Entity
  <2>4. e.pattern \in Seq(S)
    BY ONLY <2>2, <2>3, Zenon
  <2>5. QED
    BY <2>4 DEF S
<1>2. <<AMP>> \in Seq(Char \ {NUL}) /\ <<SEMICOLON>> \in Seq(Char \ {NUL})
  BY DEF AMP, SEMICOLON, Char, NUL
<1>3. QED
  BY <1>1, <1>2 DEF Reference

LEMMA DecodeNewlineKeeps ==
  ASSUME IInv, DecodeNewline
  PROVE  IInv'
<1> DEFINE n == IF {mem[r], mem[r + 1]} = {CR, LF} THEN 2 ELSE 1
<1>1. n \in {1, 2} /\ (n = 2 => mem[r + 1] # NUL)
  BY DEF CR, LF, NUL
<1>4. Put(<<LF>>, n)
  BY DEF DecodeNewline
<1> HIDE DEF n
<1>2. r + n <= end
  <2>1. r \in Nat /\ end \in Nat /\ r < end /\ mem[end] = NUL
    BY Places DEF IInv, Ended, DecodeNewline, Decoding
  <2>2. n \in {1, 2} /\ (n = 2 => r + 1 # end)
    BY <1>1, <2>1
  <2>3. QED
    BY <2>1, <2>2
<1>3. Len(<<LF>>) \in 0..n /\ n \in Nat
  <2>1. Len(<<LF>>) = 1
    OBVIOUS
  <2>2. QED
    BY <1>1, <2>1
<1>5. Decoding /\ UNCHANGED <<body, plain, flags, first, stage>>
  BY DEF DecodeNewline
<1>6. QED
  BY ONLY IInv, <1>2, <1>3, <1>4, <1>5, DecodeStep, TextAssumption

LEMMA DecodeCharacterRefKeeps ==
  ASSUME IInv, DecodeCharacterRef
  PROVE  IInv'
<1> DEFINE ref == CharacterRef(mem, r)
<1>1. r \in Nat /\ r < end /\ Decoding /\ mem[r + 1] = HASH
  BY DEF IInv, DecodeCharacterRef, Decoding
<1>2. CASE ref = NoRef
  <2>1. Put(<<AMP>>, 1)
    BY <1>2 DEF DecodeCharacterRef
  <2>2. r + 1 <= end /\ Len(<<AMP>>) \in 0..1
    BY <1>1, Places DEF IInv
  <2>3. QED
    BY <1>1, <2>1, <2>2, DecodeStep DEF DecodeCharacterRef
<1>3. CASE ref # NoRef
  <2>1. Put(ref.bytes, ref.length)
    BY <1>3 DEF DecodeCharacterRef
  <2>2. ref.length \in 1..(end - r) /\ Len(ref.bytes) \in 0..ref.length
    <3>1. /\ N \in Nat /\ DOMAIN mem = 1..N /\ end \in 1..N /\ r \in 1..N
          /\ mem[end] = NUL
      BY <1>1, Places DEF IInv, BufferOK, Ended, StaysInside, Decoding
    <3>2. QED
      BY <1>1, <1>3, <3>1, ReferenceShrinks
  <2> HIDE DEF ref
  <2>3. ref.length \in Nat /\ r + ref.length <= end
    BY <1>1, <2>2, Places DEF IInv
  <2>4. QED
    BY <1>1, <2>1, <2>2, <2>3, DecodeStep DEF DecodeCharacterRef
<1>4. QED
  BY <1>2, <1>3

LEMMA DecodeEntityKeeps ==
  ASSUME IInv, DecodeEntity
  PROVE  IInv'
<1>1. PICK e \in Entities :
        Matches(mem, r, Reference(e)) /\ Put(<<e.value>>, Len(Reference(e)))
  BY DEF DecodeEntity
<1> DEFINE ref == Reference(e)
<1>2. /\ ref \in Seq(Char \ {NUL}) /\ Len(ref) \in Nat /\ Len(ref) >= 1
  BY EntityReferences
<1>3. r + Len(ref) <= end
  <2>1. r \in Nat /\ end \in Nat /\ r < end /\ mem[end] = NUL
    BY Places DEF IInv, Ended, DecodeEntity, Decoding
  <2>2. \A i \in 1..Len(ref) : mem[r + i - 1] = ref[i] /\ ref[i] # NUL
    <3>1. \A i \in DOMAIN ref : mem[r + i - 1] = ref[i]
      BY <1>1 DEF Matches
    <3> HIDE DEF ref
    <3>2. QED
      BY <1>2, <3>1
  <2> HIDE DEF ref
  <2>3. CASE r + Len(ref) > end
    <3>1. end - r + 1 \in 1..Len(ref) /\ r + (end - r + 1) - 1 = end
      BY <1>2, <2>1, <2>3
    <3>2. QED
      BY <2>1, <2>2, <3>1
  <2>4. QED
    BY <1>2, <2>1, <2>3
<1>4. Len(<<e.value>>) \in 0..Len(ref)
  BY <1>2
<1>5. QED
  BY <1>1, <1>2, <1>3, <1>4, DecodeStep DEF DecodeEntity

LEMMA DecodeOtherKeeps ==
  ASSUME IInv, DecodeOther
  PROVE  IInv'
<1>1. r + 1 <= end /\ Len(<<mem[r]>>) \in 0..1
  BY Places DEF IInv, DecodeOther, Decoding
<1>2. QED
  BY <1>1, DecodeStep DEF DecodeOther

LEMMA SkipUnknownKeeps ==
  ASSUME IInv, SkipUnknown
  PROVE  IInv'
BY Places DEF IInv, BufferOK, Ended, StaysInside, SkipUnknown, Decoding, start, end, N

LEMMA FlushKeeps ==
  ASSUME IInv, Flush
  PROVE  IInv'
<1>1. start' = start /\ end' = end /\ N' = N
  BY DEF Flush, start, end, N
<1>2. /\ start \in Nat /\ end \in Nat /\ N \in Nat
      /\ 1 <= start /\ start <= end /\ end <= N /\ end \in 1..N
  BY Places DEF IInv
<1>3. BufferOK' /\ mem'[end] = NUL /\ \A i \in 1..N : i # end => mem'[i] = mem[i]
  BY <1>1, <1>2 DEF IInv, BufferOK, Flush
<1>4. /\ first' = start /\ r' = start /\ w' = start /\ body' = body
      /\ stage' \in {"read", "decoding"}
  BY DEF IInv, Flush
<1>5. StaysInside'
  <2>1. start' <= first' /\ first' <= w' /\ w' <= r' /\ r' <= end'
    BY <1>1, <1>2, <1>4
  <2>2. \A i \in DOMAIN mem' \ (start..end) : mem'[i] = Original[i]
    <3> SUFFICES ASSUME NEW i \in 1..N, i \notin start..end
                 PROVE  mem'[i] = Original[i]
      BY <1>1, <1>3 DEF BufferOK
    <3>1. i # end
      BY <1>2
    <3>2. mem'[i] = mem[i]
      BY <1>3, <3>1
    <3>3. i \in DOMAIN mem \ (start..end)
      BY DEF IInv, BufferOK
    <3>4. QED
      BY <3>2, <3>3 DEF IInv, StaysInside, Original
  <2>3. QED
    BY <1>1, <1>4, <2>1, <2>2 DEF StaysInside, Original
<1>6. QED
  BY <1>1, <1>2, <1>3, <1>4, <1>5 DEF IInv, Ended

\* A NUL at the write pointer.
LEMMA TerminateKeeps ==
  ASSUME IInv, mem' = [mem EXCEPT ![w] = NUL], UNCHANGED <<body, first, r, w>>
  PROVE  BufferOK' /\ StaysInside' /\ mem'[w] = NUL
<1>1. start' = start /\ end' = end /\ N' = N
  BY DEF start, end, N
<1>2. w \in start..end /\ w \in 1..N
  BY Places DEF IInv, StaysInside
<1>3. BufferOK' /\ mem'[w] = NUL /\ \A i \in 1..N : i # w => mem'[i] = mem[i]
  BY <1>1, <1>2 DEF IInv, BufferOK
<1>4. QED
  BY <1>1, <1>2, <1>3 DEF IInv, BufferOK, StaysInside

LEMMA DecodeEndKeeps ==
  ASSUME IInv, DecodeEnd
  PROVE  IInv'
<1>1. BufferOK' /\ StaysInside' /\ mem'[w] = NUL
  BY TerminateKeeps DEF DecodeEnd
<1>2. w \in start..end /\ start' = start /\ end' = end
  BY Places DEF IInv, StaysInside, DecodeEnd, start, end
<1>3. QED
  BY <1>1, <1>2 DEF IInv, Ended, DecodeEnd

LEMMA NulIsNotWhiteSpace == NUL \in {ch \in Char : ~IsWhiteSpace(ch)}
BY DEF NUL, Char, IsWhiteSpace, BLANK

\* Where SkipWhiteSpace ends up: not behind a NUL that lies ahead.
LEMMA SkipWhiteSpaceBound ==
  ASSUME IInv, NEW i \in start..end, NEW m \in i..end, mem[m] = NUL
  PROVE  SkipBlanks(mem, i) \in i..m
<1>1. /\ N \in Nat /\ DOMAIN mem = 1..N /\ i \in 1..N /\ m \in i..N
  BY Places DEF IInv, BufferOK
<1>2. mem[m] \in {ch \in Char : ~IsWhiteSpace(ch)}
  BY NulIsNotWhiteSpace
<1>3. QED
  BY <1>1, <1>2, FindFirst DEF SkipBlanks

LEMMA TrimKeeps ==
  ASSUME IInv, Trim
  PROVE  IInv'
<1>1. PICK m \in start..end : mem[m] = NUL
  BY DEF IInv, Ended, Trim
<1>2. SkipBlanks(mem, start) \in start..m
  BY <1>1, Places, SkipWhiteSpaceBound DEF IInv
<1>3. /\ first' \in start..m /\ r' = first' /\ w' = first'
      /\ mem' = mem /\ body' = body
      /\ stage' = "read" \/ stage' = "collapsing"
  BY <1>2 DEF Trim
<1>4. start' = start /\ end' = end /\ N' = N
  BY <1>3 DEF start, end, N
<1>5. BufferOK'
  BY <1>3, <1>4 DEF IInv, BufferOK
<1>8. start' <= first' /\ first' <= w' /\ w' <= r' /\ r' <= end'
  BY <1>1, <1>3, <1>4, Places DEF IInv
<1>9. StaysInside'
  BY <1>3, <1>4, <1>8 DEF IInv, StaysInside
<1>6. Ended'
  BY <1>1, <1>3, <1>4, Places DEF IInv, Ended
<1>7. QED
  BY <1>1, <1>3, <1>5, <1>6, <1>9, Places DEF IInv

LEMMA CollapseKeeps ==
  ASSUME IInv, Collapse
  PROVE  IInv'
<1> DEFINE next == SkipBlanks(mem, r)
<1>1. PICK m \in r..end : mem[m] = NUL
  BY DEF IInv, Ended, Collapse
<1>2. /\ start \in Nat /\ end \in Nat /\ N \in Nat
      /\ 1 <= start /\ start <= end /\ end <= N
      /\ start' = start /\ end' = end /\ N' = N
  BY Places DEF IInv, Collapse, start, end, N
<1>3. next \in r..m /\ next # m
  <2>1. r \in start..end
    BY <1>2 DEF IInv, StaysInside
  <2>2. next \in r..m
    BY <1>1, <2>1, SkipWhiteSpaceBound
  <2>3. mem[next] # NUL
    BY DEF Collapse
  <2>4. QED
    BY <1>1, <2>2, <2>3
<1>9. \E bytes : \E n \in Nat : Put(bytes, n) /\ Len(bytes) \in 0..n /\ r + n <= m
  <2>1. CASE next = r
    <3>1. Put(<<mem[r]>>, 1) /\ Len(<<mem[r]>>) = 1
      BY <2>1 DEF Collapse
    <3>2. r + 1 <= m
      BY <1>2, <1>3, <2>1 DEF IInv
    <3> WITNESS <<mem[r]>>
    <3> WITNESS 1 \in Nat
    <3>3. QED
      BY <3>1, <3>2
  <2>2. CASE next # r
    <3> DEFINE k == next + 1 - r
    <3>1. Put(<<BLANK, mem[next]>>, k)
      BY <2>2 DEF Collapse
    <3>2. Len(<<BLANK, mem[next]>>) = 2
      OBVIOUS
    <3> HIDE DEF next
    <3>3. k \in Nat /\ k >= 2 /\ r + k <= m
      BY <1>2, <1>3, <2>2 DEF IInv
    <3> HIDE DEF k
    <3>4. Len(<<BLANK, mem[next]>>) \in 0..k
      BY <3>2, <3>3
    <3> USE <3>3
    <3> WITNESS <<BLANK, mem[next]>>
    <3> WITNESS k \in Nat
    <3>5. QED
      BY <3>1, <3>3, <3>4
  <2>3. QED
    BY <2>1, <2>2
<1>4. PICK bytes : \E n \in Nat : Put(bytes, n) /\ Len(bytes) \in 0..n /\ r + n <= m
  BY <1>9
<1>10. PICK n \in Nat : Put(bytes, n) /\ Len(bytes) \in 0..n /\ r + n <= m
  BY <1>4
<1>5. /\ BufferOK'
      /\ r' = r + n /\ w' = w + Len(bytes) /\ w' \in Nat
      /\ start <= w' /\ w' <= r' /\ w <= w'
      /\ \A i \in 1..N : i < w \/ i >= r' => mem'[i] = mem[i]
  <2>1. /\ BufferOK /\ body \in Seq(Char \ {NUL}) /\ r \in Nat /\ w \in Nat
        /\ start <= w /\ w <= r /\ r + n <= end /\ body' = body
    <3>1. body' = body
      BY DEF Collapse
    <3>2. r \in Nat /\ w \in Nat /\ first \in Nat /\ start <= first /\ first <= w /\ w <= r
      BY DEF IInv, StaysInside
    <3>3. r + n <= end
      BY <1>1, <1>2, <1>10, <3>2
    <3>4. BufferOK /\ body \in Seq(Char \ {NUL})
      BY DEF IInv
    <3>5. start <= w
      BY <1>2, <3>2
    <3>6. QED
      BY <3>1, <3>2, <3>3, <3>4, <3>5
  <2>2. QED
    BY <1>10, <2>1, PutKeeps
<1>6. m \in 1..N /\ m >= r' /\ mem'[m] = NUL
  BY <1>1, <1>2, <1>10, <1>5 DEF IInv, StaysInside
<1>7. StaysInside'
  <2>1. /\ start' <= first' /\ first' <= w' /\ w' <= r' /\ r' <= end'
    BY <1>1, <1>2, <1>10, <1>5 DEF IInv, StaysInside, Collapse
  <2>2. \A i \in DOMAIN mem' \ (start..end) : mem'[i] = Original[i]
    <3> SUFFICES ASSUME NEW i \in 1..N, i \notin start..end
                 PROVE  mem'[i] = Original[i]
      BY <1>2, <1>5 DEF BufferOK
    <3>1. i < w \/ i >= r'
      BY <1>1, <1>2, <1>10, <1>5 DEF IInv, StaysInside
    <3>2. mem'[i] = mem[i]
      BY <1>5, <3>1
    <3>3. i \in DOMAIN mem \ (start..end)
      BY DEF IInv, BufferOK
    <3>4. QED
      BY <3>2, <3>3 DEF IInv, StaysInside, Original
  <2>3. QED
    BY <1>2, <2>1, <2>2 DEF StaysInside, Original, Collapse
<1>8. QED
  BY <1>1, <1>2, <1>10, <1>5, <1>6, <1>7 DEF IInv, Ended, Collapse

LEMMA CollapseEndKeeps ==
  ASSUME IInv, CollapseEnd
  PROVE  IInv'
<1>1. BufferOK' /\ StaysInside' /\ mem'[w] = NUL
  BY TerminateKeeps DEF CollapseEnd
<1>2. QED
  BY <1>1 DEF IInv, Ended, CollapseEnd

-----------------------------------------------------------------------------
(***************************************************************************)
(* FlattenSeq: the sequences ss one after the other, and how far the first *)
(* n of them reach.                                                        *)
(***************************************************************************)
FlatStep(ss, f, i) == IF i = 1 THEN ss[i] ELSE f[i - 1] \o ss[i]
IsFlat(ss, f, k) == f = [i \in 1..k |-> FlatStep(ss, f, i)]
Flat(ss, n) == IF n = 0 THEN << >> ELSE (CHOOSE f : IsFlat(ss, f, Len(ss)))[n]

\* The recursive function has a solution.
LEMMA FlatSolved == ASSUME NEW ss, NEW n \in Nat PROVE \E f : IsFlat(ss, f, n)
<1> DEFINE T == {k \in 0..n : \E f : IsFlat(ss, f, k)}
<1>1. 0 \in T
  <2>1. IsFlat(ss, << >>, 0)
    BY DEF IsFlat
  <2>2. QED
    BY <2>1
<1>2. ASSUME NEW k \in 0..(n - 1), k \in T PROVE k + 1 \in T
  <2>1. PICK f : IsFlat(ss, f, k)
    BY <1>2
  <2> DEFINE g == [i \in 1..(k + 1) |-> IF i = k + 1 THEN FlatStep(ss, f, i) ELSE f[i]]
  <2>2. \A i \in 1..k : f[i] = FlatStep(ss, f, i)
    BY <2>1 DEF IsFlat
  <2>3. \A i \in 1..(k + 1) : g[i] = FlatStep(ss, f, i)
    <3> TAKE i \in 1..(k + 1)
    <3>1. i # k + 1 => i \in 1..k
      OBVIOUS
    <3>2. QED
      BY ONLY i \in 1..(k + 1), <2>2, <3>1, Zenon
  <2>4. \A i \in 1..(k + 1) : i # 1 => g[i - 1] = f[i - 1]
    <3> TAKE i \in 1..(k + 1)
    <3>1. i # 1 => i - 1 \in 1..(k + 1) /\ i - 1 # k + 1
      OBVIOUS
    <3>2. QED
      BY ONLY <3>1, Zenon
  <2>5. g = [i \in 1..(k + 1) |-> g[i]]
    OBVIOUS
  <2> HIDE DEF g
  <2>6. \A i \in 1..(k + 1) : g[i] = FlatStep(ss, g, i)
    <3> TAKE i \in 1..(k + 1)
    <3>1. FlatStep(ss, g, i) = FlatStep(ss, f, i)
      BY ONLY <2>4, i \in 1..(k + 1), Zenon DEF FlatStep
    <3>2. QED
      BY ONLY <2>3, <3>1, i \in 1..(k + 1), Zenon
  <2>7. IsFlat(ss, g, k + 1)
    BY <2>5, <2>6 DEF IsFlat
  <2>8. QED
    BY <2>7
<1> HIDE DEF T
<1>3. \A k \in 0..n : k \in T
  BY ONLY n \in Nat, <1>1, <1>2, UpTo
<1>4. QED
  BY <1>3 DEF T

\* How it goes on, and that it ends with all of them.
LEMMA FlatGoesOn ==
  ASSUME NEW S, NEW ss \in Seq(Seq(S))
  PROVE  /\ Flat(ss, 0) = << >>
         /\ \A n \in 1..Len(ss) : Flat(ss, n) = Flat(ss, n - 1) \o ss[n]
         /\ FlattenSeq(ss) = Flat(ss, Len(ss))
<1> DEFINE f == CHOOSE g : IsFlat(ss, g, Len(ss))
<1>1. Len(ss) \in Nat /\ \A n \in 1..Len(ss) : ss[n] \in Seq(S)
  OBVIOUS
<1>2. IsFlat(ss, f, Len(ss))
  BY <1>1, FlatSolved
<1>3. Flat(ss, 0) = << >> /\ \A n \in 1..Len(ss) : Flat(ss, n) = f[n]
  BY <1>1 DEF Flat
<1>4. FlattenSeq(ss) = Flat(ss, Len(ss))
  <2>1. CASE Len(ss) = 0
    BY <1>3, <2>1, EmptySeq DEF FlattenSeq
  <2>2. CASE Len(ss) # 0
    <3>1. FlattenSeq(ss) = f[Len(ss)]
      BY <2>2, Zenon DEF FlattenSeq, IsFlat, FlatStep
    <3>2. Len(ss) \in 1..Len(ss)
      BY <1>1, <2>2
    <3>3. QED
      BY ONLY <1>3, <3>1, <3>2, Zenon
  <2>3. QED
    BY <2>1, <2>2
<1> HIDE DEF f
<1>5. \A n \in 1..Len(ss) : f[n] = FlatStep(ss, f, n)
  BY <1>2 DEF IsFlat
<1>6. ASSUME NEW n \in 1..Len(ss) PROVE Flat(ss, n) = Flat(ss, n - 1) \o ss[n]
  <2>1. CASE n = 1
    <3>1. Flat(ss, n) = ss[n] /\ Flat(ss, n - 1) = << >>
      BY <1>3, <1>5, <2>1 DEF FlatStep
    <3>2. << >> \o ss[n] = ss[n]
      BY <1>1
    <3>3. QED
      BY ONLY <3>1, <3>2, Zenon
  <2>2. CASE n # 1
    <3>1. n - 1 \in 1..Len(ss)
      BY <1>1, <2>2
    <3>2. Flat(ss, n) = f[n] /\ Flat(ss, n - 1) = f[n - 1]
      BY ONLY <1>3, <3>1, n \in 1..Len(ss), Zenon
    <3>3. f[n] = f[n - 1] \o ss[n]
      BY ONLY <1>5, <2>2, n \in 1..Len(ss), Zenon DEF FlatStep
    <3>4. QED
      BY ONLY <3>2, <3>3, Zenon
  <2>3. QED
    BY <2>1, <2>2
<1>7. QED
  BY <1>3, <1>4, <1>6

\* It is made of what they are made of.
LEMMA FlatType ==
  ASSUME NEW S, NEW ss \in Seq(Seq(S))
  PROVE  \A n \in 0..Len(ss) : Flat(ss, n) \in Seq(S)
<1> DEFINE T == {n \in 0..Len(ss) : Flat(ss, n) \in Seq(S)}
<1>1. Len(ss) \in Nat /\ \A n \in 1..Len(ss) : ss[n] \in Seq(S)
  OBVIOUS
<1>2. 0 \in T
  <2>1. Flat(ss, 0) = << >>
    BY FlatGoesOn
  <2>2. << >> \in Seq(S)
    OBVIOUS
  <2>3. Flat(ss, 0) \in Seq(S)
    BY ONLY <2>1, <2>2, Zenon
  <2>4. QED
    BY <1>1, <2>3
<1>3. ASSUME NEW n \in 0..(Len(ss) - 1), n \in T PROVE n + 1 \in T
  <2>1. n + 1 \in 1..Len(ss) /\ n + 1 \in 0..Len(ss) /\ (n + 1) - 1 = n
    BY <1>1
  <2>2. Flat(ss, n + 1) = Flat(ss, n) \o ss[n + 1]
    BY <2>1, FlatGoesOn
  <2>3. Flat(ss, n) \in Seq(S) /\ ss[n + 1] \in Seq(S)
    BY <1>1, <1>3, <2>1
  <2>4. Flat(ss, n + 1) \in Seq(S)
    BY <2>2, <2>3, ConcatProperties
  <2>5. QED
    BY <2>1, <2>4
<1> HIDE DEF T
<1>4. \A n \in 0..Len(ss) : n \in T
  BY ONLY <1>1, <1>2, <1>3, UpTo
<1>5. QED
  BY <1>4 DEF T

\* What the first n begin with stays.
Begins(a, b) == Len(a) <= Len(b) /\ \A i \in 1..Len(a) : b[i] = a[i]

LEMMA FlatGrows ==
  ASSUME NEW S, NEW ss \in Seq(Seq(S)), NEW n \in 0..Len(ss)
  PROVE  Begins(Flat(ss, n), FlattenSeq(ss))
<1> DEFINE a == Flat(ss, n)
           k == Len(ss) - n
           T == {i \in 0..k : Begins(a, Flat(ss, n + i))}
<1>1. Len(ss) \in Nat /\ n \in Nat /\ k \in Nat /\ n + k = Len(ss)
  OBVIOUS
<1>2. \A i \in 0..Len(ss) : Flat(ss, i) \in Seq(S) /\ Len(Flat(ss, i)) \in Nat
  BY FlatType
<1>3. 0 \in T
  <2>1. n + 0 = n /\ 0 \in 0..k
    BY <1>1
  <2>2. Len(a) \in Nat
    BY <1>2
  <2>3. Begins(a, a)
    BY <2>2 DEF Begins
  <2>4. QED
    BY <2>1, <2>3
<1>4. ASSUME NEW i \in 0..(k - 1), i \in T PROVE i + 1 \in T
  <2> DEFINE b == Flat(ss, n + i)
             c == Flat(ss, n + (i + 1))
  <2>1. /\ n + (i + 1) \in 1..Len(ss) /\ (n + (i + 1)) - 1 = n + i
        /\ n + i \in 0..Len(ss) /\ i + 1 \in 0..k
    BY <1>1
  <2>2. c = b \o ss[n + (i + 1)]
    BY <2>1, FlatGoesOn
  <2>3. /\ a \in Seq(S) /\ b \in Seq(S) /\ ss[n + (i + 1)] \in Seq(S)
    BY <1>2, <2>1
  <2>4. Begins(a, b)
    BY <1>4
  <2> HIDE DEF a, b, c
  <2>5. Len(c) >= Len(b) /\ \A j \in 1..Len(b) : c[j] = b[j]
    BY <2>2, <2>3, ConcatProperties
  <2>6. Begins(a, c)
    BY <2>3, <2>4, <2>5, <2>2, ConcatProperties DEF Begins
  <2>7. QED
    BY <2>1, <2>6 DEF c
<1> HIDE DEF T, k
<1>5. \A i \in 0..k : i \in T
  BY ONLY <1>1, <1>3, <1>4, UpTo
<1>6. k \in 0..k
  BY <1>1
<1>7. Begins(a, Flat(ss, n + k))
  BY <1>5, <1>6 DEF T
<1>8. QED
  BY <1>1, <1>7, FlatGoesOn

\* Where the n-th of them is.
LEMMA FlatPart ==
  ASSUME NEW S, NEW ss \in Seq(Seq(S)), NEW n \in 1..Len(ss)
  PROVE  /\ Len(Flat(ss, n)) = Len(Flat(ss, n - 1)) + Len(ss[n])
         /\ Len(Flat(ss, n)) <= Len(FlattenSeq(ss))
         /\ \A j \in 1..Len(ss[n]) : FlattenSeq(ss)[Len(Flat(ss, n - 1)) + j] = ss[n][j]
<1> DEFINE a == Flat(ss, n - 1)
           b == Flat(ss, n)
           x == ss[n]
           whole == FlattenSeq(ss)
<1>1. n \in 0..Len(ss) /\ n - 1 \in 0..Len(ss) /\ x \in Seq(S)
  OBVIOUS
<1>2. a \in Seq(S) /\ b \in Seq(S)
  BY <1>1, FlatType
<1>3. b = a \o x
  BY FlatGoesOn
<1>4. Begins(b, whole)
  BY <1>1, FlatGrows
<1> HIDE DEF a, b, x, whole
<1>5. /\ Len(b) = Len(a) + Len(x) /\ Len(a) \in Nat /\ Len(x) \in Nat
      /\ \A j \in 1..Len(x) : b[Len(a) + j] = x[j]
  BY <1>1, <1>2, <1>3
<1>6. \A j \in 1..Len(x) : Len(a) + j \in 1..Len(b)
  BY <1>5
<1>7. \A j \in 1..Len(x) : whole[Len(a) + j] = x[j]
  BY <1>4, <1>5, <1>6 DEF Begins
<1>8. QED
  BY <1>4, <1>5, <1>7 DEF Begins, a, b, x, whole

-----------------------------------------------------------------------------
(***************************************************************************)
(* What XMLPrinter makes of a text and what its line breaks become, a      *)
(* character at a time.                                                    *)
(***************************************************************************)
Escapes(t) == [i \in DOMAIN t |-> Escape(t[i])]

\* Character i and the next are one line break, if the one before is none with i.
IsPair(t, i) == t[i] \in {CR, LF} /\ i < Len(t) /\ {t[i], t[i + 1]} = {CR, LF}
SecondStep(t, f, i) == i > 1 /\ ~f[i - 1] /\ IsPair(t, i - 1)
IsSecond(t, f, k) == f = [i \in 0..k |-> SecondStep(t, f, i)]
Second(t) == CHOOSE f : IsSecond(t, f, Len(t))
Line(t, i) == IF Second(t)[i] THEN << >> ELSE IF t[i] = CR THEN <<LF>> ELSE <<t[i]>>
Lines(t) == [i \in DOMAIN t |-> Line(t, i)]

LEMMA EscapedIs == ASSUME NEW t PROVE Escaped(t) = FlattenSeq(Escapes(t))
BY Zenon DEF Escaped, Escapes

LEMMA LineBreaksIs == ASSUME NEW t PROVE LineBreaks(t) = FlattenSeq(Lines(t))
BY Zenon DEF LineBreaks, Lines, Line, Second, IsSecond, SecondStep, IsPair

\* The recursive function has a solution.
LEMMA SecondSolved == ASSUME NEW t, NEW n \in Nat PROVE \E f : IsSecond(t, f, n)
<1> DEFINE T == {k \in 0..n : \E f : IsSecond(t, f, k)}
<1>1. 0 \in T
  <2> DEFINE f == [i \in 0..0 |-> FALSE]
  <2>1. \A i \in 0..0 : ~(i > 1)
    OBVIOUS
  <2>2. \A i \in 0..0 : FALSE = SecondStep(t, f, i)
    BY ONLY <2>1, Zenon DEF SecondStep
  <2>3. f = [i \in 0..0 |-> SecondStep(t, f, i)]
    BY ONLY <2>2, Zenon
  <2>4. IsSecond(t, f, 0)
    BY ONLY <2>3, Zenon DEF IsSecond
  <2> HIDE DEF f
  <2>5. QED
    BY <2>4
<1>2. ASSUME NEW k \in 0..(n - 1), k \in T PROVE k + 1 \in T
  <2>1. PICK f : IsSecond(t, f, k)
    BY <1>2
  <2> DEFINE g == [i \in 0..(k + 1) |-> IF i = k + 1 THEN SecondStep(t, f, i) ELSE f[i]]
  <2>2. \A i \in 0..k : f[i] = SecondStep(t, f, i)
    BY ONLY <2>1, Zenon DEF IsSecond
  <2>3. \A i \in 0..(k + 1) : g[i] = SecondStep(t, f, i)
    <3> TAKE i \in 0..(k + 1)
    <3>1. i # k + 1 => i \in 0..k
      OBVIOUS
    <3>2. QED
      BY ONLY i \in 0..(k + 1), <2>2, <3>1, Zenon
  <2>4. \A i \in 0..(k + 1) : i > 1 => g[i - 1] = f[i - 1]
    <3> TAKE i \in 0..(k + 1)
    <3>1. i > 1 => i - 1 \in 0..(k + 1) /\ i - 1 # k + 1
      OBVIOUS
    <3>2. QED
      BY ONLY <3>1, Zenon
  <2>5. g = [i \in 0..(k + 1) |-> g[i]]
    BY ONLY Zenon
  <2> HIDE DEF g
  <2>6. \A i \in 0..(k + 1) : g[i] = SecondStep(t, g, i)
    <3> TAKE i \in 0..(k + 1)
    <3>1. SecondStep(t, g, i) = SecondStep(t, f, i)
      BY ONLY <2>4, i \in 0..(k + 1), Zenon DEF SecondStep
    <3>2. QED
      BY ONLY <2>3, <3>1, i \in 0..(k + 1), Zenon
  <2>7. g = [i \in 0..(k + 1) |-> SecondStep(t, g, i)]
    BY ONLY <2>5, <2>6, Zenon
  <2>8. IsSecond(t, g, k + 1)
    BY ONLY <2>7, Zenon DEF IsSecond
  <2>9. k + 1 \in 0..n
    OBVIOUS
  <2>10. QED
    BY <2>8, <2>9
<1> HIDE DEF T
<1>3. \A k \in 0..n : k \in T
  BY ONLY n \in Nat, <1>1, <1>2, UpTo
<1>4. n \in 0..n
  OBVIOUS
<1>5. QED
  BY <1>3, <1>4 DEF T

LEMMA SecondIs ==
  ASSUME NEW S, NEW t \in Seq(S), NEW i \in 1..Len(t)
  PROVE  Second(t)[i] <=> i > 1 /\ ~Second(t)[i - 1] /\ IsPair(t, i - 1)
<1> DEFINE f == Second(t)
<1>1. \E g : IsSecond(t, g, Len(t))
  <2>1. Len(t) \in Nat
    OBVIOUS
  <2>2. QED
    BY <2>1, SecondSolved
<1>2. IsSecond(t, f, Len(t))
  BY ONLY <1>1, Zenon DEF Second
<1> HIDE DEF f
<1>3. i \in 0..Len(t)
  OBVIOUS
<1>4. f[i] = SecondStep(t, f, i)
  BY ONLY <1>2, <1>3, Zenon DEF IsSecond
<1>5. f[i] <=> SecondStep(t, f, i)
  BY ONLY <1>4, Zenon DEF SecondStep
<1>6. QED
  BY ONLY <1>5, Zenon DEF SecondStep, f

\* A character is printed as itself or as the reference to its entity.
LEMMA EscapeForms ==
  ASSUME NEW ch \in Char \ {NUL}
  PROVE  \/ ch \notin Restricted /\ Escape(ch) = <<ch>>
         \/ /\ ch \in Restricted
            /\ \E e \in Entities : e.value = ch /\ Escape(ch) = Reference(e)
<1>1. CASE ch \notin Restricted
  BY <1>1 DEF Escape
<1>2. CASE ch \in Restricted
  <2> DEFINE e == CHOOSE x \in Entities : x.value = ch
  <2>1. \E x \in Entities : x.value = ch
    <3> DEFINE amp == Entity(<<97, 109, 112>>, AMP)
               lt == Entity(<<108, 116>>, LESS)
               gt == Entity(<<103, 116>>, GREATER)
    <3>1. amp \in Entities /\ lt \in Entities /\ gt \in Entities
      BY DEF Entities
    <3>2. amp.value = AMP /\ lt.value = LESS /\ gt.value = GREATER
      BY DEF Entity
    <3>3. ch = AMP \/ ch = LESS \/ ch = GREATER
      BY <1>2 DEF Restricted
    <3> HIDE DEF amp, lt, gt
    <3>4. QED
      BY ONLY <3>1, <3>2, <3>3, Zenon
  <2>2. e \in Entities /\ e.value = ch
    BY ONLY <2>1, Zenon
  <2>3. Escape(ch) = Reference(e)
    BY ONLY <1>2, Zenon DEF Escape
  <2> HIDE DEF e
  <2>4. QED
    BY <1>2, <2>2, <2>3
<1>3. QED
  BY <1>1, <1>2

\* The references are told apart by their second and third characters.
Told(e, b, c) ==
  \/ b = 113 /\ c = 117 /\ e = Entity(<<113, 117, 111, 116>>, QUOTE)
  \/ b = 97 /\ c = 109 /\ e = Entity(<<97, 109, 112>>, AMP)
  \/ b = 97 /\ c = 112 /\ e = Entity(<<97, 112, 111, 115>>, APOS)
  \/ b = 108 /\ c = 116 /\ e = Entity(<<108, 116>>, LESS)
  \/ b = 103 /\ c = 116 /\ e = Entity(<<103, 116>>, GREATER)

LEMMA ReferenceForms ==
  ASSUME NEW e \in Entities
  PROVE  /\ Reference(e)[1] = AMP /\ Len(Reference(e)) >= 4
         /\ Told(e, Reference(e)[2], Reference(e)[3])
<1>1. ASSUME NEW p \in Seq(Nat), Len(p) >= 2
      PROVE  LET s == <<AMP>> \o p \o <<SEMICOLON>>
             IN  s[1] = AMP /\ Len(s) >= 4 /\ s[2] = p[1] /\ s[3] = p[2]
  BY <1>1 DEF AMP, SEMICOLON
<1>2. CASE e = Entity(<<113, 117, 111, 116>>, QUOTE)
  BY <1>1, <1>2 DEF Reference, Entity, Told
<1>3. CASE e = Entity(<<97, 109, 112>>, AMP)
  BY <1>1, <1>3 DEF Reference, Entity, Told
<1>4. CASE e = Entity(<<97, 112, 111, 115>>, APOS)
  BY <1>1, <1>4 DEF Reference, Entity, Told
<1>5. CASE e = Entity(<<108, 116>>, LESS)
  BY <1>1, <1>5 DEF Reference, Entity, Told
<1>6. CASE e = Entity(<<103, 116>>, GREATER)
  BY <1>1, <1>6 DEF Reference, Entity, Told
<1>7. QED
  BY ONLY <1>2, <1>3, <1>4, <1>5, <1>6, e \in Entities, Zenon DEF Entities

\* Both are sequences of characters.
LEMMA EscapesType ==
  ASSUME NEW t \in Seq(Char \ {NUL})
  PROVE  /\ Escapes(t) \in Seq(Seq(Char \ {NUL})) /\ Len(Escapes(t)) = Len(t)
         /\ \A i \in 1..Len(t) : Escapes(t)[i] = Escape(t[i])
<1> DEFINE S == Char \ {NUL}
<1>1. ASSUME NEW ch \in S PROVE Escape(ch) \in Seq(S)
  <2>1. CASE Escape(ch) = <<ch>>
    <3>1. <<ch>> \in Seq(S)
      OBVIOUS
    <3>2. QED
      BY ONLY <2>1, <3>1, Zenon
  <2>2. CASE \E e \in Entities : Escape(ch) = Reference(e)
    <3>1. PICK e \in Entities : Escape(ch) = Reference(e)
      BY <2>2
    <3>2. Reference(e) \in Seq(S)
      BY ONLY EntityReferences, e \in Entities, Zenon
    <3>3. QED
      BY ONLY <3>1, <3>2, Zenon
  <2>3. QED
    BY ONLY <2>1, <2>2, ch \in S, EscapeForms, Zenon
<1>2. DOMAIN t = 1..Len(t) /\ Len(t) \in Nat /\ \A i \in 1..Len(t) : t[i] \in S
  <2>1. t \in Seq(S)
    OBVIOUS
  <2> HIDE DEF S
  <2>2. QED
    BY <2>1
<1> HIDE DEF S
<1>3. \A i \in 1..Len(t) : Escape(t[i]) \in Seq(S)
  BY ONLY <1>1, <1>2, Zenon
<1>4. Escapes(t) = [i \in 1..Len(t) |-> Escape(t[i])]
  BY ONLY <1>2, Zenon DEF Escapes
<1>5. Escapes(t) \in [1..Len(t) -> Seq(S)]
  BY ONLY <1>3, <1>4, Zenon
<1>6. Escapes(t) \in Seq(Seq(S)) /\ Len(Escapes(t)) = Len(t)
  BY ONLY <1>2, <1>4, <1>5, SeqDef
<1>7. QED
  BY ONLY <1>4, <1>6, Zenon DEF S

LEMMA LinesType ==
  ASSUME NEW t \in Seq(Char \ {NUL})
  PROVE  /\ Lines(t) \in Seq(Seq(Char \ {NUL})) /\ Len(Lines(t)) = Len(t)
         /\ \A i \in 1..Len(t) : Lines(t)[i] = Line(t, i)
<1> DEFINE S == Char \ {NUL}
<1>1. LF \in S
  BY DEF LF, Char, NUL
<1>2. DOMAIN t = 1..Len(t) /\ Len(t) \in Nat /\ \A i \in 1..Len(t) : t[i] \in S
  <2>1. t \in Seq(S)
    OBVIOUS
  <2> HIDE DEF S
  <2>2. QED
    BY <2>1
<1> HIDE DEF S
<1>3. << >> \in Seq(S) /\ \A ch \in S : <<ch>> \in Seq(S)
  OBVIOUS
<1>4. \A i \in 1..Len(t) : Line(t, i) \in Seq(S)
  BY ONLY <1>1, <1>2, <1>3, Zenon DEF Line
<1>5. Lines(t) = [i \in 1..Len(t) |-> Line(t, i)]
  BY ONLY <1>2, Zenon DEF Lines
<1>6. Lines(t) \in [1..Len(t) -> Seq(S)]
  BY ONLY <1>4, <1>5, Zenon
<1>7. Lines(t) \in Seq(Seq(S)) /\ Len(Lines(t)) = Len(t)
  BY ONLY <1>2, <1>5, <1>6, SeqDef
<1>8. QED
  BY ONLY <1>5, <1>7, Zenon DEF S

\* What is printed holds no NUL.
LEMMA EscapedType ==
  ASSUME NEW t \in Seq(Char \ {NUL})
  PROVE  Escaped(t) \in Seq(Char \ {NUL})
<1> DEFINE ss == Escapes(t)
           S == Char \ {NUL}
<1>1. ss \in Seq(Seq(S))
  BY EscapesType
<1>2. Escaped(t) = FlattenSeq(ss)
  BY EscapedIs
<1> HIDE DEF ss, S
<1>3. Len(ss) \in 0..Len(ss)
  BY <1>1
<1>4. FlattenSeq(ss) \in Seq(S)
  BY <1>1, <1>3, FlatGoesOn, FlatType
<1>5. QED
  BY <1>2, <1>4 DEF S

LEMMA LineBreaksType ==
  ASSUME NEW t \in Seq(Char \ {NUL})
  PROVE  LineBreaks(t) \in Seq(Char \ {NUL})
<1> DEFINE ss == Lines(t)
           S == Char \ {NUL}
<1>1. ss \in Seq(Seq(S))
  BY LinesType
<1>2. LineBreaks(t) = FlattenSeq(ss)
  BY LineBreaksIs
<1> HIDE DEF ss, S
<1>3. Len(ss) \in 0..Len(ss)
  BY <1>1
<1>4. FlattenSeq(ss) \in Seq(S)
  BY <1>1, <1>3, FlatGoesOn, FlatType
<1>5. QED
  BY <1>2, <1>4 DEF S

-----------------------------------------------------------------------------
LEMMA InitIInv ==
  ASSUME TextInit
  PROVE  IInv
<1>1. body \in Seq(Char \ {NUL})
  <2>1. ASSUME NEW t \in Plain PROVE Escaped(t) \in Seq(Char \ {NUL})
    BY TextAssumption, EscapedType
  <2>2. QED
    BY <2>1, TextAssumption DEF TextInit
<1>2. /\ start \in Nat /\ end \in Nat /\ N \in Nat /\ start <= end
  BY <1>1, Places
<1>3. mem \in Seq(Char) /\ Len(mem) = N /\ mem = Original
  <2>1. Before \in Seq(Char) /\ After \in Seq(Char) /\ body \in Seq(Char)
    <3>1. body \in Seq(Char)
      BY <1>1, SeqMonotonic
    <3>2. QED
      BY <3>1, TextAssumption
  <2>2. Before \o body \in Seq(Char) /\ Len(Before \o body) = Len(Before) + Len(body)
    BY <2>1, ConcatProperties
  <2>3. /\ Original \in Seq(Char)
        /\ Len(Original) = Len(Before) + Len(body) + Len(After)
    BY <2>1, <2>2, ConcatProperties DEF Original
  <2>4. QED
    BY <2>3 DEF TextInit, N, Original
<1>4. BufferOK
  BY <1>3 DEF BufferOK
<1>5. first = start /\ r = start /\ w = start /\ stage = "parsed"
  BY DEF TextInit
<1>6. StaysInside
  BY <1>2, <1>3, <1>5 DEF StaysInside, Original
<1>7. QED
  BY <1>1, <1>2, <1>4, <1>5, <1>6 DEF IInv, Ended

LEMMA StepIInv ==
  ASSUME IInv, [TextNext]_textVars
  PROVE  IInv'
<1>1. CASE UNCHANGED textVars
  BY <1>1 DEF textVars, IInv, BufferOK, Ended, StaysInside, start, end, N
<1>2. CASE TextNext
  BY <1>2, FlushKeeps, DecodeNewlineKeeps, DecodeCharacterRefKeeps, DecodeEntityKeeps,
     SkipUnknownKeeps, DecodeOtherKeeps, DecodeEndKeeps, TrimKeeps, CollapseKeeps,
     CollapseEndKeeps DEF TextNext
<1>3. QED
  BY <1>1, <1>2

\* Decoding never leaves the text nor touches a byte around it, for every text,
\* every set of flags and whatever is beside it in the buffer.
THEOREM TextStaysInside == TextSpec => []StaysInside
<1>1. TextInit => IInv
  BY InitIInv
<1>2. IInv /\ [TextNext]_textVars => IInv'
  BY StepIInv
<1>3. IInv => StaysInside
  BY DEF IInv
<1>4. QED
  BY <1>1, <1>2, <1>3, PTL DEF TextSpec

-----------------------------------------------------------------------------
(***************************************************************************)
(* What is in the buffer, and what comes into it.                          *)
(***************************************************************************)
\* What a reference becomes is bytes.
LEMMA ReferenceBytes ==
  ASSUME NEW n \in Nat, NEW b \in Seq(Char), DOMAIN b = 1..n,
         NEW e \in 1..n, b[e] = NUL,
         NEW i \in 1..n, i < e, b[i + 1] = HASH, CharacterRef(b, i) # NoRef,
         NEW k \in 1..Len(CharacterRef(b, i).bytes)
  PROVE  CharacterRef(b, i).bytes[k] \in Char
<1>1. i + 2 <= e
  BY DEF NUL, HASH
<1>2. CASE b[i + 2] = NUL
  <2>1. CharacterRef(b, i) = [length |-> 1, bytes |-> << >>]
    BY <1>2 DEF CharacterRef
  <2>2. QED
    BY <2>1
<1>3. CASE b[i + 2] # NUL
  <2> DEFINE hex == b[i + 2] = LOWER_X
             from == IF hex THEN i + 3 ELSE i + 2
             semicolon == Find(b, from, {SEMICOLON, NUL})
             mark == FindBack(b, from - 1, semicolon, IF hex THEN LOWER_X ELSE HASH)
             digits == SubSeq(b, mark + 1, semicolon - 1)
             base == IF hex THEN 16 ELSE 10
  <2>1. from \in 1..n /\ from <= e
    BY <1>1, <1>3
  <2>2. semicolon \in from..e
    <3> HIDE DEF from
    <3>1. e \in from..n /\ b[e] \in {SEMICOLON, NUL}
      BY <2>1
    <3>2. QED
      BY <2>1, <3>1, FindFirst
  <2>10. mark \in (from - 1)..(semicolon - 1)
    <3>1. /\ b[from - 1] = IF hex THEN LOWER_X ELSE HASH
          /\ from - 1 \in Nat /\ semicolon \in Nat /\ from - 1 < semicolon
      BY <2>1, <2>2
    <3> HIDE DEF hex, from, semicolon
    <3>2. QED
      BY <3>1, FindBackLast
  <2>3. CharacterRef(b, i).bytes = Utf8(Number(digits, base))
    <3>1. CharacterRef(b, i) =
            IF b[i + 2] = NUL THEN [length |-> 1, bytes |-> << >>]
            ELSE IF \/ b[semicolon] = NUL
                    \/ \E j \in DOMAIN digits : DigitValue(digits[j], base) = -1
            THEN NoRef
            ELSE [length |-> semicolon + 1 - i, bytes |-> Utf8(Number(digits, base))]
      BY DEF CharacterRef
    <3> HIDE DEF hex, from, semicolon, mark, digits, base
    <3>2. QED
      BY <1>3, <3>1
  <2>4. base \in Nat
    OBVIOUS
  <2> HIDE DEF hex, from, semicolon, mark, base
  <2>5. digits \in Seq(Char)
    <3>1. mark + 1 \in 1..Len(b) + 1 /\ semicolon - 1 \in mark..Len(b)
      <4>1. Len(b) = n
        BY LenProperties
      <4>2. QED
        BY <2>1, <2>2, <2>10, <4>1
    <3>2. QED
      BY <2>1, <2>2, <2>10, <3>1, SubSeqProperties
  <2> HIDE DEF digits
  <2>6. Len(digits) \in Nat /\ \A j \in 1..Len(digits) : digits[j] \in Char
    BY <2>5
  <2>7. ASSUME NEW ch \in Char PROVE DigitValue(ch, base) \in Int
    <3>1. ch \in Int /\ ch - 48 \in Int /\ ch - 87 \in Int /\ ch - 55 \in Int /\ -1 \in Int
      BY DEF Char
    <3>2. QED
      BY ONLY <3>1 DEF DigitValue
  <2>8. Number(digits, base) \in Nat
    BY <2>4, <2>6, <2>7, NumberType
  <2>9. QED
    <3> DEFINE code == Number(digits, base)
    <3>1. code \in Nat /\ k \in 1..Len(Utf8(code)) /\ CharacterRef(b, i).bytes = Utf8(code)
      BY <2>3, <2>8
    <3> HIDE DEF code
    <3>2. QED
      BY <3>1, Utf8Bytes
<1>4. QED
  BY <1>2, <1>3

FlagSet == TEXT_ELEMENT \cup {NEEDS_WHITESPACE_COLLAPSING}

\* The types of all that is in the buffer, and of the flags.
TypeInv ==
  /\ IInv
  /\ mem \in Seq(Char)
  /\ flags \subseteq FlagSet

LEMMA BufferSize == ASSUME TypeInv PROVE N \in Nat /\ DOMAIN mem = 1..N /\ Len(mem) = N
<1>1. N \in Nat /\ DOMAIN mem = 1..N
  BY Places DEF TypeInv, IInv, BufferOK
<1>2. QED
  BY <1>1 DEF TypeInv

\* Bytes that are put between the others.
LEMMA PutBytes ==
  ASSUME TypeInv, NEW bytes, NEW n, Len(bytes) \in Nat, Put(bytes, n),
         \A k \in 1..Len(bytes) : bytes[k] \in Char
  PROVE  mem' \in Seq(Char)
<1>1. N \in Nat /\ DOMAIN mem = 1..N /\ Len(mem) = N /\ w \in Nat
  BY BufferSize DEF TypeInv, IInv
<1>2. mem' = [i \in 1..N |-> IF i \in w..(w + Len(bytes) - 1)
                            THEN bytes[i - w + 1] ELSE mem[i]]
  BY <1>1 DEF Put
<1>3. \A i \in 1..N : mem'[i] \in Char
  <2> SUFFICES ASSUME NEW i \in 1..N PROVE mem'[i] \in Char
    OBVIOUS
  <2>1. CASE i \in w..(w + Len(bytes) - 1)
    <3>1. mem'[i] = bytes[i - w + 1] /\ i - w + 1 \in 1..Len(bytes)
      BY <1>1, <1>2, <2>1
    <3>2. QED
      BY <3>1
  <2>2. CASE i \notin w..(w + Len(bytes) - 1)
    <3>1. mem'[i] = mem[i]
      BY <1>2, <2>2
    <3>2. QED
      BY <1>1, <3>1 DEF TypeInv
  <2>3. QED
    BY <2>1, <2>2
<1>4. mem' = [i \in 1..N |-> mem'[i]]
  BY <1>2
<1>5. QED
  BY <1>1, <1>3, <1>4

LEMMA TerminateBytes ==
  ASSUME TypeInv, NEW i, mem' = [mem EXCEPT ![i] = NUL]
  PROVE  mem' \in Seq(Char)
<1>1. NUL \in Char
  BY DEF NUL, Char
<1>2. N \in Nat /\ DOMAIN mem = 1..N /\ \A j \in 1..N : mem[j] \in Char
  BY BufferSize DEF TypeInv
<1>3. mem' = [j \in 1..N |-> IF j = i THEN NUL ELSE mem[j]]
  BY <1>2
<1>4. mem' = [j \in 1..N |-> mem'[j]]
  BY <1>3
<1>5. \A j \in 1..N : mem'[j] \in Char
  BY <1>1, <1>2, <1>3
<1>6. N \in Nat
  BY <1>2
<1>7. QED
  BY ONLY <1>4, <1>5, <1>6

LEMMA StepBytes ==
  ASSUME TypeInv, TextNext
  PROVE  mem' \in Seq(Char)
<1>0. /\ N \in Nat /\ DOMAIN mem = 1..N /\ mem \in Seq(Char) /\ Len(mem) = N
      /\ \A j \in 1..N : mem[j] \in Char
  BY BufferSize DEF TypeInv
<1>1. start \in Nat /\ end \in 1..N /\ 1 <= start /\ r \in start..end /\ r \in 1..N
  <2>1. start \in Nat /\ end \in Nat /\ N \in Nat /\ 1 <= start /\ start <= end /\ end <= N
    BY Places DEF TypeInv, IInv
  <2>2. /\ first \in Nat /\ r \in Nat /\ w \in Nat
        /\ start <= first /\ first <= w /\ w <= r /\ r <= end
    BY DEF TypeInv, IInv, StaysInside
  <2>3. QED
    BY <2>1, <2>2
<1>2. CASE Flush \/ DecodeEnd \/ CollapseEnd
  BY <1>2, TerminateBytes DEF Flush, DecodeEnd, CollapseEnd
<1>3. CASE DecodeNewline
  <2>1. LF \in Char
    BY DEF LF, Char
  <2>2. QED
    BY <1>3, <2>1, PutBytes DEF DecodeNewline
<1>4. CASE DecodeCharacterRef
  <2> DEFINE ref == CharacterRef(mem, r)
  <2>1. /\ r \in 1..N /\ r < end /\ mem[end] = NUL /\ mem[r + 1] = HASH
    BY <1>1, <1>4 DEF TypeInv, IInv, Ended, DecodeCharacterRef, Decoding
  <2>2. CASE ref = NoRef
    <3>1. AMP \in Char /\ Put(<<AMP>>, 1)
      BY <1>4, <2>2 DEF DecodeCharacterRef, AMP, Char
    <3>2. QED
      BY <3>1, PutBytes
  <2>3. CASE ref # NoRef
    <3>1. Put(ref.bytes, ref.length)
      BY <1>4, <2>3 DEF DecodeCharacterRef
    <3>2. ref.length \in Nat /\ Len(ref.bytes) \in 0..ref.length
      BY <1>0, <1>1, <2>1, <2>3, ReferenceShrinks
    <3>3. \A k \in 1..Len(ref.bytes) : ref.bytes[k] \in Char
      BY <1>0, <1>1, <2>1, <2>3, ReferenceBytes
    <3> HIDE DEF ref
    <3>4. Len(ref.bytes) \in Nat
      BY <3>2
    <3>5. QED
      BY <3>1, <3>3, <3>4, PutBytes
  <2>4. QED
    BY <2>2, <2>3
<1>5. CASE DecodeEntity
  <2>1. PICK e \in Entities : Put(<<e.value>>, Len(Reference(e)))
    BY <1>5 DEF DecodeEntity
  <2>2. e.value \in Char
    BY DEF Entities, Entity, QUOTE, AMP, APOS, LESS, GREATER, Char
  <2>3. QED
    BY <2>1, <2>2, PutBytes
<1>6. CASE DecodeOther
  BY <1>0, <1>1, <1>6, PutBytes DEF DecodeOther
<1>7. CASE SkipUnknown \/ Trim
  BY <1>0, <1>7 DEF SkipUnknown, Trim
<1>8. CASE Collapse
  <2> DEFINE next == SkipBlanks(mem, r)
  <2>1. PICK m \in r..end : mem[m] = NUL
    BY <1>8 DEF TypeInv, IInv, Ended, Collapse
  <2>3. next \in r..m
    BY <1>1, <2>1, SkipWhiteSpaceBound DEF TypeInv
  <2>4. next \in 1..N
    <3> HIDE DEF next
    <3>1. m \in Int /\ m <= end
      BY <1>1, <2>1
    <3>2. QED
      BY <1>0, <1>1, <2>3, <3>1
  <2>5. mem[r] \in Char /\ mem[next] \in Char /\ BLANK \in Char
    BY <1>0, <1>1, <2>4 DEF BLANK, Char
  <2>6. Put(<<mem[r]>>, 1) \/ Put(<<BLANK, mem[next]>>, next + 1 - r)
    BY <1>8 DEF Collapse
  <2> HIDE DEF next
  <2>7. QED
    BY <2>5, <2>6, PutBytes
<1>9. QED
  BY <1>2, <1>3, <1>4, <1>5, <1>6, <1>7, <1>8 DEF TextNext

LEMMA StepTypeInv ==
  ASSUME TypeInv, [TextNext]_textVars
  PROVE  TypeInv'
<1>1. IInv'
  BY StepIInv DEF TypeInv
<1>2. CASE TextNext
  <2>1. mem' \in Seq(Char)
    BY <1>2, StepBytes
  <2>2. flags' = flags
    BY <1>2 DEF TextNext, Flush, DecodeNewline, DecodeCharacterRef, DecodeEntity,
       SkipUnknown, DecodeOther, DecodeEnd, Trim, Collapse, CollapseEnd
  <2>3. QED
    BY <1>1, <2>1, <2>2 DEF TypeInv
<1>3. CASE UNCHANGED textVars
  BY <1>1, <1>3 DEF TypeInv, textVars
<1>4. QED
  BY <1>2, <1>3

\* Whatever is decoded, and whatever its references count: what is in the buffer is
\* bytes, and as many as before.
THEOREM TextTyped == TextSpec => []TypeOK
<1>1. TextInit => TypeInv
  <2> SUFFICES ASSUME TextInit PROVE TypeInv
    OBVIOUS
  <2>1. IInv
    BY InitIInv
  <2>2. flags \subseteq FlagSet
    BY TextAssumption DEF TextInit, FlagSet
  <2>3. Before \in Seq(Char) /\ After \in Seq(Char) /\ body \in Seq(Char)
    <3>1. body \in Seq(Char \ {NUL})
      BY <2>1 DEF IInv
    <3>2. QED
      BY <3>1, SeqMonotonic, TextAssumption
  <2>4. mem \in Seq(Char)
    BY <2>3, ConcatProperties DEF TextInit
  <2>5. QED
    BY <2>1, <2>2, <2>4 DEF TypeInv
<1>2. TypeInv /\ [TextNext]_textVars => TypeInv'
  BY StepTypeInv
<1>3. TypeInv => TypeOK
  <2> SUFFICES ASSUME TypeInv PROVE TypeOK
    OBVIOUS
  <2>1. Len(mem) = Len(Before) + Len(body) + Len(After)
    BY BufferSize DEF N
  <2>2. QED
    BY <2>1 DEF TypeInv, IInv, TypeOK, FlagSet
<1>4. QED
  BY <1>1, <1>2, <1>3, PTL DEF TextSpec

-----------------------------------------------------------------------------
(***************************************************************************)
(* A text that was printed: the first n of its characters have been read,  *)
(* and what has been written are their line breaks.                        *)
(***************************************************************************)
Written(t, n) == Flat(Escapes(t), n)
Wanted(t, n) == Flat(Lines(t), n)

Printed(t) ==
  t \in Seq(Char \ {NUL}) /\ body = Escaped(t) /\ flags = TEXT_ELEMENT

Consumed(t, n) ==
  /\ n < Len(t) => ~Second(t)[n + 1]
  /\ r = start + Len(Written(t, n))
  /\ w = start + Len(Wanted(t, n))
  /\ \A i \in r..(end - 1) : mem[i] = body[i - start + 1]
  /\ \A i \in start..(w - 1) : mem[i] = Wanted(t, n)[i - start + 1]

\* Whatever was printed is being decoded, a character after the other, or has been.
Faithful ==
  \A t \in plain :
    /\ Printed(t)
    /\ stage = "parsed" => \A i \in start..(end - 1) : mem[i] = body[i - start + 1]
    /\ stage = "decoding" => \E n \in 0..Len(t) : Consumed(t, n)
    /\ stage \in {"parsed", "decoding", "read"}
    /\ stage = "read" => Result = LineBreaks(t)

\* What there is to read: the next character as it was printed.
LEMMA NextPrinted ==
  ASSUME IInv, NEW t, Printed(t), NEW n \in 0..(Len(t) - 1), Consumed(t, n)
  PROVE  /\ Len(Written(t, n + 1)) = Len(Written(t, n)) + Len(Escape(t[n + 1]))
         /\ r + Len(Escape(t[n + 1])) <= end
         /\ \A j \in 1..Len(Escape(t[n + 1])) : mem[r + j - 1] = Escape(t[n + 1])[j]
<1> DEFINE ss == Escapes(t)
           x == Escape(t[n + 1])
           S == Char \ {NUL}
<1>1. /\ t \in Seq(S) /\ body = FlattenSeq(ss)
  BY EscapedIs DEF Printed
<1>2. ss \in Seq(Seq(S)) /\ Len(ss) = Len(t) /\ \A i \in 1..Len(t) : ss[i] = Escape(t[i])
  BY <1>1, EscapesType
<1>3. n + 1 \in 1..Len(ss) /\ (n + 1) - 1 = n /\ n \in 0..Len(ss)
  BY <1>2
<1>4. ss[n + 1] = x
  BY <1>2, <1>3
<1>5. x \in Seq(S) /\ Written(t, n) \in Seq(S)
  <2>1. ss[n + 1] \in Seq(S)
    BY <1>2, <1>3
  <2>2. Flat(ss, n) \in Seq(S)
    BY <1>2, <1>3, FlatType
  <2>3. QED
    BY ONLY <1>4, <2>1, <2>2, Zenon DEF Written
<1>6. /\ Len(Flat(ss, n + 1)) = Len(Flat(ss, n)) + Len(x)
      /\ Len(Flat(ss, n + 1)) <= Len(body)
      /\ \A j \in 1..Len(x) : body[Len(Flat(ss, n)) + j] = x[j]
  <2> DEFINE m == n + 1
  <2>1. m \in 1..Len(ss) /\ m - 1 = n
    BY <1>3
  <2> HIDE DEF m, ss, x, S
  <2>2. /\ Len(Flat(ss, m)) = Len(Flat(ss, m - 1)) + Len(ss[m])
        /\ Len(Flat(ss, m)) <= Len(FlattenSeq(ss))
        /\ \A j \in 1..Len(ss[m]) : FlattenSeq(ss)[Len(Flat(ss, m - 1)) + j] = ss[m][j]
    BY ONLY <1>2, <2>1, FlatPart
  <2>3. ss[m] = x
    BY <1>4 DEF m
  <2>4. QED
    BY ONLY <1>1, <2>1, <2>2, <2>3, Zenon DEF m
<1> HIDE DEF ss, x, S
<1>7. /\ Len(Written(t, n + 1)) = Len(Written(t, n)) + Len(x)
      /\ Len(Written(t, n + 1)) <= Len(body)
      /\ \A j \in 1..Len(x) : body[Len(Written(t, n)) + j] = x[j]
  BY ONLY <1>6, Zenon DEF Written, ss
<1> DEFINE k == Len(Written(t, n))
           l == Len(x)
<1>8. k \in Nat /\ l \in Nat
  BY <1>5
<1>9. /\ start \in Nat /\ end \in Nat /\ r = start + k
      /\ end = start + Len(body) /\ Len(body) \in Nat
  <2>1. body \in Seq(Char \ {NUL})
    BY DEF IInv
  <2>2. start \in Nat /\ end \in Nat /\ Len(body) \in Nat
    BY <2>1, Places
  <2>3. r = start + k
    BY ONLY Consumed(t, n), Zenon DEF Consumed
  <2>4. end = start + Len(body)
    BY ONLY Zenon DEF end
  <2>5. QED
    BY ONLY <2>2, <2>3, <2>4, Zenon
<1>10. \A i \in r..(end - 1) : mem[i] = body[i - start + 1]
  BY DEF Consumed
<1> HIDE DEF k
<1>11. k + l <= Len(body)
  BY <1>7 DEF k
<1> HIDE DEF l
<1>12. ASSUME NEW j \in 1..l PROVE mem[r + j - 1] = x[j]
  <2>1. r + j - 1 \in r..(end - 1) /\ (r + j - 1) - start + 1 = k + j
    BY <1>8, <1>9, <1>11
  <2>2. mem[r + j - 1] = body[k + j]
    BY ONLY <1>10, <2>1, Zenon
  <2>3. QED
    BY <1>7, <2>2 DEF k, l
<1>13. r + l <= end
  BY <1>8, <1>9, <1>11
<1>14. QED
  BY <1>7, <1>12, <1>13 DEF l, x

\* Nothing is left when all of it has been read.
LEMMA AllPrinted ==
  ASSUME IInv, NEW t, Printed(t), Consumed(t, Len(t))
  PROVE  r = end
<1>1. t \in Seq(Char \ {NUL}) /\ body = FlattenSeq(Escapes(t))
  BY EscapedIs DEF Printed
<1>2. Escapes(t) \in Seq(Seq(Char \ {NUL})) /\ Len(Escapes(t)) = Len(t)
  BY <1>1, EscapesType
<1>3. Written(t, Len(t)) = body
  <2>1. FlattenSeq(Escapes(t)) = Flat(Escapes(t), Len(Escapes(t)))
    BY <1>2, FlatGoesOn
  <2>2. QED
    BY ONLY <1>1, <1>2, <2>1, Zenon DEF Written
<1>4. QED
  BY <1>3 DEF Consumed, end

\* An escaped character is there until its end.
LEMMA EscapeLength ==
  ASSUME NEW ch \in Char \ {NUL}
  PROVE  Len(Escape(ch)) \in Nat /\ Len(Escape(ch)) >= 1
<1>1. CASE Escape(ch) = <<ch>>
  BY <1>1
<1>2. CASE \E e \in Entities : Escape(ch) = Reference(e)
  BY <1>2, EntityReferences
<1>3. QED
  BY ONLY <1>1, <1>2, ch \in Char \ {NUL}, EscapeForms, Zenon

LEMMA WhereReading ==
  ASSUME IInv, NEW t, Printed(t), NEW n \in 0..Len(t), Consumed(t, n)
  PROVE  r < end <=> n < Len(t)
<1>1. r \in Nat /\ end \in Nat /\ Len(t) \in Nat
  BY Places DEF IInv, Printed
<1>2. CASE n = Len(t)
  BY <1>1, <1>2, AllPrinted
<1>3. CASE n # Len(t)
  <2>1. n \in 0..(Len(t) - 1) /\ n + 1 \in 1..Len(t)
    BY <1>1, <1>3
  <2>2. t[n + 1] \in Char \ {NUL}
    BY <2>1 DEF Printed
  <2>3. Len(Escape(t[n + 1])) \in Nat /\ Len(Escape(t[n + 1])) >= 1
    BY <2>2, EscapeLength
  <2>4. r + Len(Escape(t[n + 1])) <= end
    BY <2>1, NextPrinted
  <2>5. QED
    BY <1>1, <2>1, <2>3, <2>4
<1>4. QED
  BY <1>2, <1>3

\* What Put writes is there.
LEMMA PutWrites ==
  ASSUME BufferOK, NEW bytes, Len(bytes) \in Nat, NEW n, Put(bytes, n),
         w \in Nat, w >= 1, w + Len(bytes) - 1 <= N, N \in Nat
  PROVE  \A j \in 1..Len(bytes) : mem'[w + j - 1] = bytes[j]
<1>1. DOMAIN mem = 1..N
  BY DEF BufferOK
<1>2. mem' = [i \in 1..N |-> IF i \in w..(w + Len(bytes) - 1)
                            THEN bytes[i - w + 1] ELSE mem[i]]
  BY ONLY <1>1, Put(bytes, n), Zenon DEF Put
<1> TAKE j \in 1..Len(bytes)
<1>3. /\ w + j - 1 \in 1..N /\ w + j - 1 \in w..(w + Len(bytes) - 1)
      /\ (w + j - 1) - w + 1 = j
  OBVIOUS
<1>4. QED
  BY ONLY <1>2, <1>3, Zenon

\* What there is to be written when some more characters have been read.
LEMMA Advance ==
  ASSUME IInv, Decoding, NEW t, Printed(t), NEW n \in 0..Len(t), Consumed(t, n),
         NEW m \in 0..Len(t), m < Len(t) => ~Second(t)[m + 1],
         NEW bytes \in Seq(Char), NEW k \in Nat, Len(bytes) <= k, r + k <= end,
         Put(bytes, k), body' = body,
         Len(Written(t, m)) = Len(Written(t, n)) + k,
         Wanted(t, m) = Wanted(t, n) \o bytes
  PROVE  Consumed(t, m)'
<1>1. /\ start \in Nat /\ end \in Nat /\ N \in Nat
      /\ 1 <= start /\ start <= end /\ end <= N
      /\ start' = start /\ end' = end /\ N' = N
  BY Places DEF IInv, start, end, N
<1>2. Len(bytes) \in Nat /\ Len(bytes) \in 0..k
  OBVIOUS
<1>3. /\ r \in Nat /\ w \in Nat /\ start <= w /\ w <= r
  BY DEF IInv, StaysInside, Decoding
<1>4. /\ r' = r + k /\ w' = w + Len(bytes)
      /\ start <= w' /\ w' <= r'
      /\ \A i \in 1..N : i < w \/ i >= r' => mem'[i] = mem[i]
  BY <1>2, <1>3, PutKeeps DEF IInv
<1>5. \A j \in 1..Len(bytes) : mem'[w + j - 1] = bytes[j]
  <2>1. w >= 1 /\ w + Len(bytes) - 1 <= N
    BY <1>1, <1>2, <1>3
  <2>2. BufferOK
    BY DEF IInv
  <2>3. QED
    BY ONLY <1>1, <1>2, <1>3, <2>1, <2>2, Put(bytes, k), PutWrites
<1>6. Wanted(t, n) \in Seq(Char \ {NUL}) /\ Written(t, n) \in Seq(Char \ {NUL})
  <2>1. t \in Seq(Char \ {NUL})
    BY DEF Printed
  <2>2. /\ Lines(t) \in Seq(Seq(Char \ {NUL})) /\ Len(Lines(t)) = Len(t)
        /\ Escapes(t) \in Seq(Seq(Char \ {NUL})) /\ Len(Escapes(t)) = Len(t)
    BY <2>1, LinesType, EscapesType
  <2>3. n \in 0..Len(Lines(t)) /\ n \in 0..Len(Escapes(t))
    BY <2>2
  <2>4. QED
    BY ONLY <2>2, <2>3, FlatType DEF Wanted, Written
<1> DEFINE a == Wanted(t, n)
           b == Wanted(t, m)
           la == Len(a)
           lb == Len(bytes)
<1>7. /\ la \in Nat /\ lb \in Nat /\ Len(b) = la + lb
      /\ \A i \in 1..la : b[i] = a[i]
      /\ \A j \in 1..lb : b[la + j] = bytes[j]
  <2>1. a \in Seq(Char \ {NUL}) /\ b = a \o bytes
    BY <1>6
  <2> HIDE DEF a, b
  <2>2. QED
    BY <2>1
<1>8. /\ r = start + Len(Written(t, n)) /\ w = start + la
      /\ \A i \in r..(end - 1) : mem[i] = body[i - start + 1]
      /\ \A i \in start..(w - 1) : mem[i] = a[i - start + 1]
  BY DEF Consumed
<1>9. Len(Written(t, n)) \in Nat
  BY <1>6
<1> HIDE DEF a, b, la, lb
<1>10. r' = start + Len(Written(t, m))
  BY <1>1, <1>4, <1>8, <1>9
<1>11. w' = start + Len(b)
  BY <1>1, <1>4, <1>7, <1>8 DEF lb
<1>12. ASSUME NEW i \in r'..(end - 1) PROVE mem'[i] = body[i - start + 1]
  <2>1. i \in 1..N /\ i >= r' /\ i \in r..(end - 1)
    BY <1>1, <1>3, <1>4
  <2>2. QED
    BY <1>4, <1>8, <2>1
<1>13. ASSUME NEW i \in start..(w' - 1) PROVE mem'[i] = b[i - start + 1]
  <2>1. CASE i < w
    <3>1. i \in 1..N /\ i \in start..(w - 1) /\ i - start + 1 \in 1..la
      BY <1>1, <1>3, <1>4, <1>7, <1>8, <2>1
    <3>2. mem'[i] = mem[i] /\ mem[i] = a[i - start + 1]
      BY <1>4, <1>8, <2>1, <3>1
    <3>3. QED
      BY <1>7, <3>1, <3>2
  <2>2. CASE i >= w
    <3> DEFINE j == i - w + 1
    <3>1. j \in 1..lb /\ w + j - 1 = i /\ i - start + 1 = la + j
      BY <1>1, <1>3, <1>4, <1>7, <1>8, <2>2 DEF lb
    <3> HIDE DEF j
    <3>2. mem'[i] = bytes[j]
      BY <1>5, <3>1 DEF lb
    <3>3. QED
      BY <1>7, <3>1, <3>2
  <2>3. QED
    BY <1>1, <1>3, <2>1, <2>2
<1>14. QED
  BY ONLY <1>1, <1>10, <1>11, <1>12, <1>13, body' = body,
          m < Len(t) => ~Second(t)[m + 1], Zenon DEF Consumed, b

\* What the next character becomes, if it is not the second of a pair.
LEMMA NextWanted ==
  ASSUME NEW t \in Seq(Char \ {NUL}), NEW n \in 0..(Len(t) - 1), ~Second(t)[n + 1]
  PROVE  Wanted(t, n + 1) =
           Wanted(t, n) \o (IF t[n + 1] = CR THEN <<LF>> ELSE <<t[n + 1]>>)
<1> DEFINE m == n + 1
<1>1. m \in 1..Len(t) /\ m - 1 = n
  OBVIOUS
<1>2. /\ Lines(t) \in Seq(Seq(Char \ {NUL})) /\ Len(Lines(t)) = Len(t)
      /\ Lines(t)[m] = Line(t, m)
  BY <1>1, LinesType
<1> HIDE DEF m
<1>3. Flat(Lines(t), m) = Flat(Lines(t), m - 1) \o Lines(t)[m]
  BY <1>1, <1>2, FlatGoesOn
<1>4. Line(t, m) = IF t[m] = CR THEN <<LF>> ELSE <<t[m]>>
  BY ONLY ~Second(t)[n + 1], Zenon DEF Line, m
<1>5. QED
  BY ONLY <1>1, <1>2, <1>3, <1>4, Zenon DEF Wanted, m

\* The second of a pair becomes nothing.
LEMMA SecondWanted ==
  ASSUME NEW t \in Seq(Char \ {NUL}), NEW n \in 0..(Len(t) - 1), Second(t)[n + 1]
  PROVE  Wanted(t, n + 1) = Wanted(t, n)
<1> DEFINE m == n + 1
<1>1. m \in 1..Len(t) /\ m - 1 = n /\ n \in 0..Len(t)
  OBVIOUS
<1>2. /\ Lines(t) \in Seq(Seq(Char \ {NUL})) /\ Len(Lines(t)) = Len(t)
      /\ Lines(t)[m] = Line(t, m)
  BY <1>1, LinesType
<1> HIDE DEF m
<1>3. Flat(Lines(t), m) = Flat(Lines(t), m - 1) \o Lines(t)[m]
  BY <1>1, <1>2, FlatGoesOn
<1>4. Line(t, m) = << >>
  BY ONLY Second(t)[n + 1], Zenon DEF Line, m
<1>5. Flat(Lines(t), n) \in Seq(Char \ {NUL})
  BY <1>1, <1>2, FlatType
<1>6. Wanted(t, m) = Wanted(t, n) \o << >> /\ Wanted(t, n) \in Seq(Char \ {NUL})
  BY ONLY <1>1, <1>2, <1>3, <1>4, <1>5, Zenon DEF Wanted
<1>7. Wanted(t, m) = Wanted(t, n)
  BY ONLY <1>6, ConcatEmptySeq
<1>8. QED
  BY ONLY <1>7, Zenon DEF m

\* A step that takes one character as it was printed.
LEMMA AdvanceOne ==
  ASSUME IInv, Decoding, NEW t, Printed(t), NEW n \in 0..(Len(t) - 1), Consumed(t, n),
         NEW bytes,
         bytes = IF t[n + 1] = CR THEN <<LF>> ELSE <<t[n + 1]>>,
         n + 2 <= Len(t) => ~IsPair(t, n + 1),
         Put(bytes, Len(Escape(t[n + 1]))), body' = body
  PROVE  Consumed(t, n + 1)'
<1> DEFINE ch == t[n + 1]
           k == Len(Escape(ch))
           m == n + 1
<1>1. t \in Seq(Char \ {NUL}) /\ Len(t) \in Nat /\ m \in 0..Len(t) /\ m \in 1..Len(t)
      /\ n \in 0..Len(t) /\ n < Len(t)
  BY DEF Printed
<1>2. ch \in Char \ {NUL}
  BY <1>1
<1>3. k \in Nat /\ k >= 1
  BY <1>2, EscapeLength
<1>4. bytes \in Seq(Char) /\ Len(bytes) = 1
  <2>1. LF \in Char /\ ch \in Char
    BY <1>2 DEF LF, Char
  <2> HIDE DEF ch
  <2>2. bytes = <<LF>> \/ bytes = <<ch>>
    BY DEF ch
  <2>3. QED
    BY <2>1, <2>2
<1>5. /\ Len(Written(t, m)) = Len(Written(t, n)) + k
      /\ r + k <= end
  BY NextPrinted
<1>6. Wanted(t, m) = Wanted(t, n) \o bytes
  <2>1. ~Second(t)[n + 1]
    BY <1>1 DEF Consumed
  <2>2. Wanted(t, n + 1) =
          Wanted(t, n) \o (IF t[n + 1] = CR THEN <<LF>> ELSE <<t[n + 1]>>)
    BY <1>1, <2>1, NextWanted
  <2>3. QED
    BY ONLY <2>2, bytes = (IF t[n + 1] = CR THEN <<LF>> ELSE <<t[n + 1]>>), Zenon
<1>7. m < Len(t) => ~Second(t)[m + 1]
  <2> SUFFICES ASSUME m < Len(t) PROVE ~Second(t)[m + 1]
    OBVIOUS
  <2>1. m + 1 \in 1..Len(t) /\ (m + 1) - 1 = n + 1 /\ n + 2 <= Len(t)
    BY <1>1
  <2>2. ~IsPair(t, n + 1)
    BY <2>1
  <2>3. Second(t)[m + 1] <=> m + 1 > 1 /\ ~Second(t)[(m + 1) - 1] /\ IsPair(t, (m + 1) - 1)
    BY <1>1, <2>1, SecondIs
  <2>4. QED
    BY ONLY <2>1, <2>2, <2>3, Zenon
<1>8. Len(bytes) <= k
  BY <1>3, <1>4
<1>9. Put(bytes, k)
  OBVIOUS
<1> HIDE DEF ch, k, m
<1>10. Consumed(t, m)'
  BY ONLY IInv, Decoding, Printed(t), Consumed(t, n), body' = body, TextAssumption,
          <1>1, <1>3, <1>4, <1>5, <1>6, <1>7, <1>8, <1>9, Advance
<1>11. QED
  BY ONLY <1>10, Zenon DEF m

\* A step that takes two characters that are one line break.
LEMMA AdvancePair ==
  ASSUME IInv, Decoding, NEW t, Printed(t), NEW n \in 0..(Len(t) - 2), Consumed(t, n),
         IsPair(t, n + 1), Put(<<LF>>, 2), body' = body
  PROVE  Consumed(t, n + 2)'
<1> DEFINE m == n + 2
<1>1. /\ t \in Seq(Char \ {NUL}) /\ Len(t) \in Nat /\ n \in 0..Len(t) /\ m \in 0..Len(t)
      /\ n \in 0..(Len(t) - 1) /\ n + 1 \in 0..(Len(t) - 1) /\ n + 1 \in 1..Len(t)
      /\ n + 2 \in 1..Len(t) /\ (n + 1) + 1 = n + 2 /\ (n + 2) - 1 = n + 1 /\ n + 2 > 1
  BY DEF Printed
<1>2. t[n + 1] \in {CR, LF} /\ t[n + 2] \in {CR, LF}
  BY <1>1 DEF IsPair
<1>3. ~Second(t)[n + 1]
  BY DEF Consumed
<1>4. Second(t)[n + 2]
  <2>1. Second(t)[n + 2] <=> n + 2 > 1 /\ ~Second(t)[(n + 2) - 1] /\ IsPair(t, (n + 2) - 1)
    BY <1>1, SecondIs
  <2>2. QED
    BY ONLY <1>1, <1>3, <2>1, IsPair(t, n + 1), Zenon
<1>5. Wanted(t, m) = Wanted(t, n) \o <<LF>>
  <2>1. Wanted(t, n + 1) =
          Wanted(t, n) \o (IF t[n + 1] = CR THEN <<LF>> ELSE <<t[n + 1]>>)
    BY <1>1, <1>3, NextWanted
  <2>2. (IF t[n + 1] = CR THEN <<LF>> ELSE <<t[n + 1]>>) = <<LF>>
    BY ONLY <1>2, Zenon
  <2>3. Wanted(t, (n + 1) + 1) = Wanted(t, n + 1)
    BY <1>1, <1>4, SecondWanted
  <2>4. QED
    BY ONLY <1>1, <2>1, <2>2, <2>3, Zenon
<1>6. \A ch \in {CR, LF} : Len(Escape(ch)) = 1
  <2>1. \A ch \in {CR, LF} : ch \notin Restricted
    BY DEF CR, LF, Restricted, AMP, LESS, GREATER
  <2>2. \A ch \in {CR, LF} : Escape(ch) = <<ch>>
    BY ONLY <2>1, Zenon DEF Escape
  <2>3. QED
    BY <2>2
<1>7. /\ Len(Written(t, n + 1)) = Len(Written(t, n)) + 1
      /\ Len(Written(t, n + 2)) = Len(Written(t, n)) + 2
      /\ r + 2 <= end
  <2>1. /\ Len(Written(t, n + 1)) = Len(Written(t, n)) + Len(Escape(t[n + 1]))
    BY <1>1, NextPrinted
  <2>2. Len(Escape(t[n + 1])) = 1 /\ Len(Escape(t[n + 2])) = 1
    BY <1>2, <1>6
  <2>3. /\ Escapes(t) \in Seq(Seq(Char \ {NUL})) /\ Len(Escapes(t)) = Len(t)
        /\ Escapes(t)[n + 2] = Escape(t[n + 2])
    BY <1>1, EscapesType
  <2>4. n + 2 \in 1..Len(Escapes(t))
    BY <1>1, <2>3
  <2>5. /\ Len(Flat(Escapes(t), n + 2)) =
             Len(Flat(Escapes(t), (n + 2) - 1)) + Len(Escapes(t)[n + 2])
        /\ Len(Flat(Escapes(t), n + 2)) <= Len(FlattenSeq(Escapes(t)))
    BY ONLY <2>3, <2>4, FlatPart
  <2>6. /\ Len(Written(t, n + 2)) = Len(Written(t, n + 1)) + 1
        /\ Len(Written(t, n + 2)) <= Len(body)
    <3>1. body = FlattenSeq(Escapes(t))
      BY EscapedIs DEF Printed
    <3>2. QED
      BY ONLY <1>1, <2>2, <2>3, <2>5, <3>1, Zenon DEF Written
  <2>7. Flat(Escapes(t), n) \in Seq(Char \ {NUL})
    BY <1>1, <2>3, FlatType
  <2>8. Len(Written(t, n)) \in Nat
    BY <2>7 DEF Written
  <2>9. start \in Nat /\ Len(body) \in Nat /\ end = start + Len(body)
        /\ r = start + Len(Written(t, n))
    BY Places DEF IInv, end, Consumed
  <2>10. QED
    BY ONLY <2>1, <2>2, <2>6, <2>8, <2>9
<1>8. m < Len(t) => ~Second(t)[m + 1]
  <2> SUFFICES ASSUME m < Len(t) PROVE ~Second(t)[m + 1]
    OBVIOUS
  <2>1. m + 1 \in 1..Len(t) /\ (m + 1) - 1 = n + 2
    BY <1>1
  <2>2. Second(t)[m + 1] <=> m + 1 > 1 /\ ~Second(t)[(m + 1) - 1] /\ IsPair(t, (m + 1) - 1)
    BY <1>1, <2>1, SecondIs
  <2>3. QED
    BY ONLY <1>4, <2>1, <2>2, Zenon
<1>9. <<LF>> \in Seq(Char) /\ Len(<<LF>>) <= 2 /\ 2 \in Nat
  BY DEF LF, Char
<1>10. Len(Written(t, m)) = Len(Written(t, n)) + 2
  BY ONLY <1>7, Zenon
<1> HIDE DEF m
<1>11. Consumed(t, m)'
  BY ONLY IInv, Decoding, Printed(t), Consumed(t, n), body' = body, TextAssumption,
          Put(<<LF>>, 2), <1>1, <1>5, <1>7, <1>8, <1>9, <1>10, Advance
<1>12. QED
  BY ONLY <1>11, Zenon DEF m

\* A character that is a line break is printed as it is, and nothing else starts
\* like one.
LEMMA LineBreakForms ==
  ASSUME NEW ch \in Char \ {NUL}
  PROVE  /\ ch \in {CR, LF} => Escape(ch) = <<ch>>
         /\ Escape(ch)[1] \in {CR, LF} => ch = Escape(ch)[1]
<1>1. AMP \notin {CR, LF} /\ (ch \in {CR, LF} => ch \notin Restricted)
  BY DEF AMP, CR, LF, Restricted, LESS, GREATER
<1>2. CASE ch \notin Restricted /\ Escape(ch) = <<ch>>
  BY ONLY <1>2
<1>3. CASE ch \in Restricted /\ \E e \in Entities : e.value = ch /\ Escape(ch) = Reference(e)
  <2>1. PICK e \in Entities : Escape(ch) = Reference(e)
    BY <1>3
  <2>2. Reference(e)[1] = AMP
    BY ONLY ReferenceForms, e \in Entities, Zenon
  <2>3. QED
    BY ONLY <1>1, <1>3, <2>1, <2>2, Zenon
<1>4. QED
  BY ONLY <1>2, <1>3, ch \in Char \ {NUL}, EscapeForms, Zenon

\* What comes after a character that is printed as it is.
LEMMA Following ==
  ASSUME IInv, stage = "decoding", NEW t, Printed(t), NEW n \in 0..(Len(t) - 1),
         Consumed(t, n), Len(Escape(t[n + 1])) = 1
  PROVE  /\ n + 1 = Len(t) => mem[r + 1] = NUL
         /\ n + 2 <= Len(t) => mem[r + 1] = Escape(t[n + 2])[1]
<1> DEFINE ss == Escapes(t)
           m == n + 2
<1>1. t \in Seq(Char \ {NUL}) /\ body = FlattenSeq(ss) /\ Len(t) \in Nat
  BY EscapedIs DEF Printed
<1>2. /\ ss \in Seq(Seq(Char \ {NUL})) /\ Len(ss) = Len(t)
      /\ \A i \in 1..Len(t) : ss[i] = Escape(t[i])
  BY <1>1, EscapesType
<1>3. /\ r = start + Len(Written(t, n)) /\ start \in Nat /\ end \in Nat
      /\ Len(body) \in Nat /\ end = start + Len(body) /\ mem[end] = NUL
      /\ \A i \in r..(end - 1) : mem[i] = body[i - start + 1]
  <2>1. body \in Seq(Char \ {NUL}) /\ mem[end] = NUL
    BY ONLY IInv, stage = "decoding", Zenon DEF IInv, Ended
  <2>2. /\ r = start + Len(Written(t, n))
        /\ \A i \in r..(end - 1) : mem[i] = body[i - start + 1]
    BY ONLY Consumed(t, n), Zenon DEF Consumed
  <2>3. start \in Nat /\ end \in Nat
    BY <2>1, Places
  <2>4. Len(body) \in Nat
    BY <2>1
  <2>5. end = start + Len(body)
    BY ONLY Zenon DEF end
  <2>6. QED
    BY ONLY <2>1, <2>2, <2>3, <2>4, <2>5, Zenon
<1>4. Len(Written(t, n + 1)) = Len(Written(t, n)) + 1
  BY NextPrinted
<1>5. Len(Written(t, n)) \in Nat
  <2>1. n \in 0..Len(ss)
    BY <1>1, <1>2
  <2>2. Flat(ss, n) \in Seq(Char \ {NUL})
    BY ONLY <1>2, <2>1, FlatType
  <2>3. QED
    BY <2>2 DEF Written
<1>6. ASSUME n + 1 = Len(t) PROVE mem[r + 1] = NUL
  <2>1. Written(t, n + 1) = body
    BY ONLY <1>1, <1>2, <1>6, FlatGoesOn, Zenon DEF Written
  <2> DEFINE k == Len(Written(t, n))
             l == Len(body)
  <2>2. k + 1 = l /\ k \in Nat /\ r = start + k /\ start \in Nat /\ end = start + l
    BY ONLY <1>3, <1>4, <1>5, <2>1, Zenon
  <2> HIDE DEF k, l
  <2>3. r + 1 = end
    BY ONLY <2>2
  <2>4. QED
    BY ONLY <1>3, <2>3, Zenon
<1>7. ASSUME m <= Len(t) PROVE mem[r + 1] = Escape(t[m])[1]
  <2>1. m \in 1..Len(ss) /\ m \in 1..Len(t) /\ m - 1 = n + 1
    BY <1>1, <1>2, <1>7
  <2>2. t[m] \in Char \ {NUL}
    BY <1>1, <2>1
  <2> HIDE DEF m, ss
  <2>3. 1 \in 1..Len(Escape(t[m]))
    BY <2>2, EscapeLength
  <2>4. /\ Len(Flat(ss, m)) = Len(Flat(ss, m - 1)) + Len(ss[m])
        /\ Len(Flat(ss, m)) <= Len(FlattenSeq(ss))
        /\ \A j \in 1..Len(ss[m]) : FlattenSeq(ss)[Len(Flat(ss, m - 1)) + j] = ss[m][j]
    BY ONLY <1>2, <2>1, FlatPart
  <2>5. ss[m] = Escape(t[m])
    BY ONLY <1>2, <2>1, Zenon
  <2>6. /\ Len(Flat(ss, m)) = Len(Written(t, n + 1)) + Len(Escape(t[m]))
        /\ Len(Flat(ss, m)) <= Len(body)
        /\ body[Len(Written(t, n + 1)) + 1] = Escape(t[m])[1]
    BY ONLY <1>1, <2>1, <2>3, <2>4, <2>5, Zenon DEF Written, ss
  <2> DEFINE k == Len(Written(t, n))
             l == Len(Escape(t[m]))
             f == Len(Flat(ss, m))
  <2>7. k \in Nat /\ l \in Nat /\ l >= 1 /\ f = (k + 1) + l /\ f <= Len(body)
    BY <1>4, <1>5, <2>2, <2>6, EscapeLength
  <2>8. r = start + k
    BY <1>3
  <2> HIDE DEF k, l, f
  <2>9. r + 1 \in r..(end - 1) /\ (r + 1) - start + 1 = (k + 1) + 1
    BY ONLY <1>3, <2>7, <2>8
  <2>10. mem[r + 1] = body[(k + 1) + 1]
    BY ONLY <1>3, <2>9, Zenon
  <2>11. QED
    BY ONLY <1>4, <2>6, <2>10, Zenon DEF k
<1>8. QED
  BY <1>6, <1>7

LEMMA NewlineFaithful ==
  ASSUME IInv, NEW t, Printed(t), NEW n \in 0..Len(t), Consumed(t, n), DecodeNewline
  PROVE  \E m \in 0..Len(t) : Consumed(t, m)'
<1>1. /\ Decoding /\ stage = "decoding" /\ body' = body
      /\ mem[r] \in {CR, LF}
      /\ Put(<<LF>>, IF {mem[r], mem[r + 1]} = {CR, LF} THEN 2 ELSE 1)
  BY DEF DecodeNewline, Decoding, IsNewline
<1>2. /\ n \in 0..(Len(t) - 1) /\ n + 1 \in 0..Len(t) /\ t[n + 1] \in Char \ {NUL}
      /\ Len(t) \in Nat
  <2>1. n < Len(t)
    BY <1>1, WhereReading DEF Decoding
  <2>2. t \in Seq(Char \ {NUL})
    BY DEF Printed
  <2>3. n \in 0..(Len(t) - 1) /\ n + 1 \in 0..Len(t) /\ n + 1 \in 1..Len(t) /\ Len(t) \in Nat
    BY <2>1, <2>2
  <2>4. QED
    BY <2>2, <2>3
<1> DEFINE ch == t[n + 1]
<1>3. ch = mem[r] /\ Escape(ch) = <<ch>> /\ Len(Escape(ch)) = 1 /\ ch \in {CR, LF}
  <2>1. 1 \in 1..Len(Escape(ch))
    BY <1>2, EscapeLength
  <2>2. mem[r + 1 - 1] = Escape(ch)[1]
    BY <1>2, <2>1, NextPrinted
  <2>3. r + 1 - 1 = r
    BY DEF IInv
  <2>4. ch = mem[r]
    BY ONLY <1>1, <1>2, <2>2, <2>3, LineBreakForms, Zenon
  <2>5. Escape(ch) = <<ch>> /\ ch \in {CR, LF}
    BY ONLY <1>1, <1>2, <2>4, LineBreakForms, Zenon
  <2>6. QED
    BY <2>4, <2>5
<1>4. /\ n + 1 = Len(t) => mem[r + 1] = NUL
      /\ n + 2 <= Len(t) => mem[r + 1] = Escape(t[n + 2])[1]
  BY <1>1, <1>2, <1>3, Following
<1>5. NUL \notin {CR, LF}
  BY DEF NUL, CR, LF
<1>6. n + 2 <= Len(t) => t[n + 2] \in Char \ {NUL}
  <2>1. t \in Seq(Char \ {NUL})
    BY DEF Printed
  <2>2. n + 2 <= Len(t) => n + 2 \in 1..Len(t)
    BY <1>2
  <2>3. QED
    BY <2>1, <2>2
<1>7. CASE {mem[r], mem[r + 1]} = {CR, LF}
  <2>1. Put(<<LF>>, 2)
    BY ONLY <1>1, <1>7, Zenon
  <2>2. mem[r + 1] \in {CR, LF}
    BY ONLY <1>7, Zenon
  <2>3. n + 2 <= Len(t)
    <3>1. n + 1 # Len(t)
      BY ONLY <1>4, <1>5, <2>2, Zenon
    <3>2. QED
      BY <1>2, <3>1
  <2>4. t[n + 2] = mem[r + 1]
    BY ONLY <1>4, <1>6, <2>2, <2>3, LineBreakForms, Zenon
  <2>5. n \in 0..(Len(t) - 2) /\ n + 2 \in 0..Len(t) /\ (n + 1) + 1 = n + 2 /\ n + 1 < Len(t)
    BY <1>2, <2>3
  <2>6. IsPair(t, n + 1)
    BY ONLY <1>3, <1>7, <2>4, <2>5, Zenon DEF IsPair
  <2>7. Consumed(t, n + 2)'
    BY <1>1, <2>1, <2>5, <2>6, AdvancePair
  <2>8. QED
    BY ONLY <2>5, <2>7, Zenon
<1>8. CASE {mem[r], mem[r + 1]} # {CR, LF}
  <2>1. Put(<<LF>>, Len(Escape(t[n + 1])))
    BY ONLY <1>1, <1>3, <1>8, Zenon
  <2>2. <<LF>> = IF t[n + 1] = CR THEN <<LF>> ELSE <<t[n + 1]>>
    BY ONLY <1>3, Zenon
  <2>3. ASSUME n + 2 <= Len(t) PROVE ~IsPair(t, n + 1)
    <3> SUFFICES ASSUME IsPair(t, n + 1) PROVE FALSE
      OBVIOUS
    <3>1. (n + 1) + 1 = n + 2
      BY <1>2
    <3>2. {t[n + 1], t[n + 2]} = {CR, LF}
      BY ONLY <3>1, IsPair(t, n + 1), Zenon DEF IsPair
    <3>3. t[n + 2] \in {CR, LF}
      BY ONLY <3>2, Zenon
    <3>4. Escape(t[n + 2]) = <<t[n + 2]>>
      BY ONLY <1>6, <2>3, <3>3, LineBreakForms, Zenon
    <3>5. mem[r + 1] = t[n + 2]
      BY ONLY <1>4, <2>3, <3>4
    <3>6. QED
      BY ONLY <1>3, <1>8, <3>2, <3>5, Zenon
  <2>4. Consumed(t, n + 1)'
    BY ONLY IInv, TextAssumption, Printed(t), Consumed(t, n), <1>1, <1>2, <2>1, <2>2, <2>3,
            AdvanceOne
  <2>5. QED
    BY ONLY <1>2, <2>4, Zenon
<1>9. QED
  BY <1>7, <1>8

\* The reference of what was printed is the only one that is there.
LEMMA EntityFaithful ==
  ASSUME IInv, NEW t, Printed(t), NEW n \in 0..(Len(t) - 1), Consumed(t, n),
         mem[r] = AMP
  PROVE  \E e \in Entities :
           /\ t[n + 1] = e.value /\ Escape(t[n + 1]) = Reference(e)
           /\ t[n + 1] \in Restricted
           /\ Matches(mem, r, Reference(e))
           /\ mem[r + 1] # HASH
           /\ \A x \in Entities : Matches(mem, r, Reference(x)) => x = e
<1> DEFINE ch == t[n + 1]
<1>1. ch \in Char \ {NUL} /\ Len(t) \in Nat
  <2>1. t \in Seq(Char \ {NUL}) /\ n + 1 \in 1..Len(t)
    BY DEF Printed
  <2>2. QED
    BY <2>1
<1>2. /\ r + Len(Escape(ch)) <= end
      /\ \A j \in 1..Len(Escape(ch)) : mem[r + j - 1] = Escape(ch)[j]
  BY NextPrinted
<1>3. r \in Nat /\ r >= 1 /\ end \in Nat /\ end <= N /\ N \in Nat /\ DOMAIN mem = 1..N
  BY Places DEF IInv, BufferOK, StaysInside
<1>4. ch \in Restricted
  <2> SUFFICES ASSUME ch \notin Restricted PROVE FALSE
    OBVIOUS
  <2>1. Escape(ch) = <<ch>>
    BY ONLY ch \notin Restricted, Zenon DEF Escape
  <2>2. mem[r + 1 - 1] = ch
    BY <1>2, <2>1
  <2>3. mem[r] = ch
    BY <1>3, <2>2
  <2>4. QED
    BY <2>3 DEF Restricted
<1>5. PICK e \in Entities : e.value = ch /\ Escape(ch) = Reference(e)
  BY ONLY <1>1, <1>4, EscapeForms, Zenon
<1> DEFINE ref == Reference(e)
<1>6. ref \in Seq(Char \ {NUL}) /\ Len(ref) \in Nat /\ Len(ref) >= 4
  BY EntityReferences, ReferenceForms
<1>7. /\ r + Len(ref) <= end
      /\ \A j \in 1..Len(ref) : mem[r + j - 1] = ref[j]
  BY ONLY <1>2, <1>5, Zenon
<1>8. Matches(mem, r, ref)
  <2>1. DOMAIN ref = 1..Len(ref)
    BY <1>6
  <2> HIDE DEF ref
  <2>2. \A j \in 1..Len(ref) : r + j - 1 \in 1..N
    BY <1>3, <1>6, <1>7
  <2>3. QED
    BY ONLY <1>3, <1>7, <2>1, <2>2, Zenon DEF Matches
<1>9. ASSUME NEW x \in Entities, Matches(mem, r, Reference(x))
      PROVE  mem[r + 1] = Reference(x)[2] /\ mem[r + 2] = Reference(x)[3]
  <2>1. Reference(x) \in Seq(Char \ {NUL}) /\ Len(Reference(x)) >= 4
    BY ONLY EntityReferences, ReferenceForms, x \in Entities, Zenon
  <2>2. 2 \in DOMAIN Reference(x) /\ 3 \in DOMAIN Reference(x)
    BY ONLY <2>1
  <2>3. mem[r + 2 - 1] = Reference(x)[2] /\ mem[r + 3 - 1] = Reference(x)[3]
    BY ONLY <1>9, <2>2, Zenon DEF Matches
  <2>4. r + 2 - 1 = r + 1 /\ r + 3 - 1 = r + 2
    BY <1>3
  <2>5. QED
    BY ONLY <2>3, <2>4, Zenon
<1> HIDE DEF ref
<1>10. mem[r + 1] # HASH
  <2>1. mem[r + 1] = Reference(e)[2]
    BY <1>8, <1>9 DEF ref
  <2>2. Reference(e)[2] \in {113, 97, 108, 103}
    BY ONLY ReferenceForms, e \in Entities, Zenon DEF Told
  <2>3. QED
    BY ONLY <2>1, <2>2 DEF HASH
<1>11. ASSUME NEW x \in Entities, Matches(mem, r, Reference(x)) PROVE x = e
  <2>1. mem[r + 1] = Reference(e)[2] /\ mem[r + 2] = Reference(e)[3]
    BY <1>8, <1>9 DEF ref
  <2>2. mem[r + 1] = Reference(x)[2] /\ mem[r + 2] = Reference(x)[3]
    BY ONLY <1>9, <1>11, Zenon
  <2>3. ASSUME NEW b, NEW c, Told(e, b, c), Told(x, b, c) PROVE x = e
    BY ONLY <2>3 DEF Told
  <2>4. Told(e, Reference(e)[2], Reference(e)[3]) /\ Told(x, Reference(x)[2], Reference(x)[3])
    BY ReferenceForms
  <2>5. Told(e, mem[r + 1], mem[r + 2]) /\ Told(x, mem[r + 1], mem[r + 2])
    BY ONLY <2>1, <2>2, <2>4, Zenon
  <2>6. QED
    BY ONLY <2>3, <2>5, Zenon
<1>12. QED
  BY ONLY <1>4, <1>5, <1>8, <1>10, <1>11, Zenon DEF ref

\* Characters printed as they are: no reference and no line break.
LEMMA OtherFaithful ==
  ASSUME IInv, NEW t, Printed(t), NEW n \in 0..Len(t), Consumed(t, n), DecodeOther
  PROVE  \E m \in 0..Len(t) : Consumed(t, m)'
<1>1. /\ Decoding /\ stage = "decoding" /\ body' = body
      /\ mem[r] \notin {CR, LF} /\ mem[r] # AMP
      /\ Put(<<mem[r]>>, 1)
  <2>1. flags = {NEEDS_ENTITY_PROCESSING, NEEDS_NEWLINE_NORMALIZATION}
    BY DEF Printed, TEXT_ELEMENT
  <2>2. NEEDS_NEWLINE_NORMALIZATION \in flags /\ NEEDS_ENTITY_PROCESSING \in flags
    BY ONLY <2>1, Zenon
  <2>3. Decoding /\ ~IsNewline /\ ~IsReference /\ Put(<<mem[r]>>, 1) /\ body' = body
    BY DEF DecodeOther
  <2>4. QED
    BY ONLY <2>2, <2>3, Zenon DEF IsNewline, IsReference, Decoding
<1>2. /\ n \in 0..(Len(t) - 1) /\ n + 1 \in 0..Len(t) /\ t[n + 1] \in Char \ {NUL}
      /\ Len(t) \in Nat
  <2>1. n < Len(t)
    BY <1>1, WhereReading DEF Decoding
  <2>2. t \in Seq(Char \ {NUL})
    BY DEF Printed
  <2>3. n \in 0..(Len(t) - 1) /\ n + 1 \in 0..Len(t) /\ n + 1 \in 1..Len(t) /\ Len(t) \in Nat
    BY <2>1, <2>2
  <2>4. QED
    BY <2>2, <2>3
<1> DEFINE ch == t[n + 1]
<1>3. ch = mem[r] /\ Escape(ch) = <<ch>> /\ Len(Escape(ch)) = 1
  <2>1. 1 \in 1..Len(Escape(ch))
    BY <1>2, EscapeLength
  <2>2. mem[r + 1 - 1] = Escape(ch)[1]
    BY <1>2, <2>1, NextPrinted
  <2>3. r + 1 - 1 = r
    BY DEF IInv
  <2>4. Escape(ch)[1] # AMP
    BY ONLY <1>1, <2>2, <2>3, Zenon
  <2>5. Escape(ch) = <<ch>>
    <3>1. ASSUME NEW e \in Entities, Escape(ch) = Reference(e) PROVE FALSE
      <4>1. Reference(e)[1] = AMP
        BY ONLY ReferenceForms, e \in Entities, Zenon
      <4>2. QED
        BY ONLY <2>4, <3>1, <4>1, Zenon
    <3>2. QED
      BY ONLY <1>2, <3>1, EscapeForms, Zenon
  <2>6. QED
    BY ONLY <2>2, <2>3, <2>5
<1>4. ~IsPair(t, n + 1)
  BY ONLY <1>1, <1>3, Zenon DEF IsPair
<1>5. Put(<<mem[r]>>, Len(Escape(t[n + 1])))
  BY ONLY <1>1, <1>3, Zenon
<1>6. <<mem[r]>> = IF t[n + 1] = CR THEN <<LF>> ELSE <<t[n + 1]>>
  BY ONLY <1>1, <1>3, Zenon
<1>7. Consumed(t, n + 1)'
  BY ONLY IInv, TextAssumption, Printed(t), Consumed(t, n), <1>1, <1>2, <1>4, <1>5, <1>6,
          AdvanceOne
<1>8. QED
  BY ONLY <1>2, <1>7, Zenon

\* An & can only be the one of a reference that was printed.
LEMMA ReferenceFaithful ==
  ASSUME IInv, NEW t, Printed(t), NEW n \in 0..Len(t), Consumed(t, n),
         DecodeCharacterRef \/ DecodeEntity \/ SkipUnknown
  PROVE  \E m \in 0..Len(t) : Consumed(t, m)'
<1>1. Decoding /\ body' = body /\ mem[r] = AMP
  BY DEF DecodeCharacterRef, DecodeEntity, SkipUnknown, IsReference
<1>2. n \in 0..(Len(t) - 1) /\ n + 1 \in 0..Len(t)
  <2>1. n < Len(t)
    BY <1>1, WhereReading DEF Decoding
  <2>2. Len(t) \in Nat
    BY DEF Printed
  <2>3. QED
    BY <2>1, <2>2
<1>3. PICK e \in Entities :
        /\ t[n + 1] = e.value /\ Escape(t[n + 1]) = Reference(e)
        /\ t[n + 1] \in Restricted
        /\ Matches(mem, r, Reference(e))
        /\ mem[r + 1] # HASH
        /\ \A x \in Entities : Matches(mem, r, Reference(x)) => x = e
  BY <1>1, <1>2, EntityFaithful
<1>4. DecodeEntity
  BY ONLY <1>3, DecodeCharacterRef \/ DecodeEntity \/ SkipUnknown, Zenon
     DEF DecodeCharacterRef, SkipUnknown
<1>5. Put(<<e.value>>, Len(Reference(e)))
  BY ONLY <1>3, <1>4, Zenon DEF DecodeEntity
<1>6. Put(<<e.value>>, Len(Escape(t[n + 1])))
  BY ONLY <1>3, <1>5, Zenon
<1>7. t[n + 1] \notin {CR, LF}
  BY <1>3 DEF Restricted, AMP, LESS, GREATER, CR, LF
<1>8. ~IsPair(t, n + 1)
  BY ONLY <1>7, Zenon DEF IsPair
<1>9. <<e.value>> = IF t[n + 1] = CR THEN <<LF>> ELSE <<t[n + 1]>>
  BY ONLY <1>3, <1>7, Zenon
<1>10. Consumed(t, n + 1)'
  BY ONLY IInv, TextAssumption, Printed(t), Consumed(t, n), <1>1, <1>2, <1>6, <1>8, <1>9,
          AdvanceOne
<1>11. QED
  BY ONLY <1>2, <1>10, Zenon

\* At the end, the line breaks of the text are followed by a NUL.
LEMMA EndFaithful ==
  ASSUME IInv, NEW t, Printed(t), NEW n \in 0..Len(t), Consumed(t, n), DecodeEnd
  PROVE  stage' = "read" /\ Result' = LineBreaks(t)
<1>1. /\ stage = "decoding" /\ r >= end /\ mem' = [mem EXCEPT ![w] = NUL]
      /\ first = start /\ first' = first /\ w' = w /\ body' = body
      /\ stage' = (IF NEEDS_WHITESPACE_COLLAPSING \in flags THEN "trimming" ELSE "read")
  BY DEF DecodeEnd, IInv
<1>2. stage' = "read"
  <2>1. NEEDS_WHITESPACE_COLLAPSING \notin flags
    BY DEF Printed, TEXT_ELEMENT, NEEDS_ENTITY_PROCESSING, NEEDS_NEWLINE_NORMALIZATION,
           NEEDS_WHITESPACE_COLLAPSING
  <2>2. QED
    BY <1>1, <2>1
<1>3. n = Len(t) /\ t \in Seq(Char \ {NUL}) /\ Len(t) \in Nat
  <2>1. ~(r < end)
    BY <1>1, Places DEF IInv
  <2>2. t \in Seq(Char \ {NUL}) /\ Len(t) \in Nat
    BY DEF Printed
  <2>3. QED
    BY <2>1, <2>2, WhereReading
<1> DEFINE out == LineBreaks(t)
<1>4. out \in Seq(Char \ {NUL}) /\ Wanted(t, n) = out
  <2>1. /\ Lines(t) \in Seq(Seq(Char \ {NUL})) /\ Len(Lines(t)) = Len(t)
        /\ out = FlattenSeq(Lines(t)) /\ out \in Seq(Char \ {NUL})
    BY <1>3, LinesType, LineBreaksIs, LineBreaksType
  <2>2. FlattenSeq(Lines(t)) = Flat(Lines(t), Len(Lines(t)))
    BY <2>1, FlatGoesOn
  <2>3. QED
    BY ONLY <1>3, <2>1, <2>2, Zenon DEF Wanted
<1>5. /\ start \in Nat /\ N \in Nat /\ start >= 1 /\ end <= N /\ end \in Nat
      /\ w \in Nat /\ start <= w /\ w <= end /\ mem = [i \in 1..N |-> mem[i]]
  BY <1>1, Places DEF IInv, BufferOK, StaysInside
<1> DEFINE l == Len(out)
<1>6. /\ w = start + l /\ l \in Nat
      /\ \A i \in start..(w - 1) : mem[i] = out[i - start + 1]
  BY <1>4 DEF Consumed
<1>7. \A j \in 1..l : out[j] # NUL
  BY <1>4
<1>8. out = [j \in 1..l |-> out[j]]
  BY <1>4
<1> HIDE DEF out, l
<1>9. /\ DOMAIN mem' = 1..N /\ mem'[w] = NUL /\ w \in 1..N /\ start \in 1..N
      /\ \A i \in 1..N : i # w => mem'[i] = mem[i]
  BY <1>1, <1>5
<1>10. \A j \in 1..l : mem'[start + j - 1] = out[j]
  <2> TAKE j \in 1..l
  <2>1. /\ start + j - 1 \in start..(w - 1) /\ start + j - 1 \in 1..N
        /\ start + j - 1 # w /\ (start + j - 1) - start + 1 = j
    BY <1>5, <1>6
  <2>2. mem'[start + j - 1] = mem[start + j - 1]
    BY ONLY <1>9, <2>1, Zenon
  <2>3. mem[start + j - 1] = out[j]
    BY ONLY <1>6, <2>1, Zenon
  <2>4. QED
    BY ONLY <2>2, <2>3, Zenon
<1> DEFINE b == mem'
           at == Find(b, start, {NUL})
<1>11. at = w
  <2>1. /\ at \in start..w /\ b[at] \in {NUL}
    <3>1. DOMAIN b = 1..N /\ start \in 1..N /\ w \in start..N /\ b[w] \in {NUL} /\ N \in Nat
      BY <1>5, <1>9
    <3> HIDE DEF b
    <3>2. QED
      BY <3>1, FindFirst
  <2> HIDE DEF at
  <2>2. ASSUME at # w PROVE FALSE
    <3> DEFINE j == at - start + 1
    <3>1. j \in 1..l /\ start + j - 1 = at
      BY <1>5, <1>6, <2>1, <2>2
    <3> HIDE DEF j
    <3>2. b[at] = out[j]
      BY ONLY <1>10, <3>1, Zenon DEF b
    <3>3. QED
      BY ONLY <1>7, <2>1, <3>1, <3>2, Zenon
  <2>3. QED
    BY <2>2
<1>12. Result' = SubSeq(b, start, w - 1)
  <2>1. first' = start
    BY <1>1
  <2>2. QED
    BY ONLY <1>11, <2>1, Zenon DEF Result
<1> DEFINE x == SubSeq(b, start, w - 1)
           S == Char \ {NUL}
<1>13. /\ x \in Seq(S) /\ Len(x) = l /\ \A j \in 1..l : x[j] = b[start + j - 1]
  <2>1. \A i \in start..(w - 1) : i - start + 1 \in 1..l /\ start + (i - start + 1) - 1 = i
    BY <1>5, <1>6
  <2>2. \A j \in 1..l : out[j] \in S
    BY <1>4 DEF l
  <2>3. \A i \in start..(w - 1) : b[i] = out[i - start + 1]
    BY ONLY <1>10, <2>1, Zenon DEF b
  <2>4. \A i \in start..(w - 1) : b[i] \in S
    BY ONLY <2>1, <2>2, <2>3, Zenon
  <2>5. start \in Int /\ w - 1 \in Int
    BY <1>5
  <2>6. (w - 1) - start + 1 = l /\ l = IF start <= w - 1 THEN (w - 1) - start + 1 ELSE 0
    BY <1>5, <1>6
  <2> HIDE DEF S, b
  <2>7. /\ x \in Seq(S)
        /\ Len(x) = IF start <= w - 1 THEN (w - 1) - start + 1 ELSE 0
        /\ \A j \in 1..((w - 1) - start + 1) : x[j] = b[start + j - 1]
    BY ONLY <2>4, <2>5, SubSeqProperties
  <2>8. QED
    BY ONLY <2>6, <2>7, Zenon
<1>14. \A j \in 1..l : x[j] = out[j]
  BY ONLY <1>10, <1>13, Zenon DEF b
<1>15. x = [j \in 1..l |-> x[j]]
  <2> HIDE DEF x, S
  <2>1. x = [j \in 1..Len(x) |-> x[j]]
    BY <1>13
  <2>2. QED
    BY ONLY <1>13, <2>1, Zenon
<1>16. x = out
  BY ONLY <1>8, <1>14, <1>15, Zenon
<1>17. QED
  BY ONLY <1>2, <1>12, <1>16, Zenon DEF out

LEMMA InitFaithful ==
  ASSUME TextInit
  PROVE  Faithful
<1> SUFFICES ASSUME NEW t \in plain PROVE
      /\ Printed(t) /\ stage = "parsed"
      /\ \A i \in start..(end - 1) : mem[i] = body[i - start + 1]
  BY DEF Faithful
<1>1. Plain \subseteq Seq(Char \ {NUL}) /\ Before \in Seq(Char) /\ After \in Seq(Char)
  BY TextAssumption
<1>2. /\ t \in Plain /\ body = Escaped(t) /\ flags = TEXT_ELEMENT
      /\ stage = "parsed" /\ mem = (Before \o body) \o After
  BY DEF TextInit
<1>3. t \in Seq(Char \ {NUL})
  BY <1>1, <1>2
<1>4. body \in Seq(Char \ {NUL})
  BY <1>2, <1>3, EscapedType
<1>5. \A i \in start..(end - 1) : mem[i] = body[i - start + 1]
  <2> DEFINE k == Len(Before)
             l == Len(body)
  <2>1. k \in Nat /\ l \in Nat /\ start = k + 1 /\ end = start + l
    BY <1>1, <1>4 DEF start, end
  <2>2. Before \in Seq(Char) /\ After \in Seq(Char) /\ body \in Seq(Char)
    <3>1. body \in Seq(Char)
      BY <1>4, SeqMonotonic
    <3>2. QED
      BY <1>1, <3>1
  <2> DEFINE ab == Before \o body
  <2>3. ab \in Seq(Char) /\ Len(ab) = k + l /\ \A i \in 1..l : ab[k + i] = body[i]
    BY <2>2
  <2> HIDE DEF k, l, ab
  <2>4. \A i \in 1..Len(ab) : mem[i] = ab[i]
    BY <1>2, <2>2, <2>3 DEF ab
  <2> TAKE i \in start..(end - 1)
  <2>5. i \in 1..Len(ab) /\ i - start + 1 \in 1..l /\ k + (i - start + 1) = i
    BY <2>1, <2>3
  <2>6. QED
    BY ONLY <2>3, <2>4, <2>5, Zenon
<1>6. QED
  BY <1>2, <1>3, <1>5 DEF Printed

\* Nothing has been read when decoding starts.
LEMMA FlushFaithful ==
  ASSUME IInv, Flush, NEW t, Printed(t),
         \A i \in start..(end - 1) : mem[i] = body[i - start + 1]
  PROVE  stage' = "decoding" /\ \E n \in 0..Len(t) : Consumed(t, n)'
<1>1. /\ r = start /\ w = start /\ r' = r /\ w' = w /\ body' = body
      /\ mem' = [mem EXCEPT ![end] = NUL]
      /\ start' = start /\ end' = end /\ start \in Nat /\ end \in Nat
  BY Places DEF IInv, Flush, start, end
<1>2. stage' = "decoding"
  <2>1. NEEDS_ENTITY_PROCESSING \in flags
    BY DEF Printed, TEXT_ELEMENT
  <2>2. QED
    BY <2>1 DEF Flush
<1>3. t \in Seq(Char \ {NUL}) /\ Len(t) \in Nat /\ 0 \in 0..Len(t)
  BY DEF Printed
<1>4. 0 < Len(t) => ~Second(t)[0 + 1]
  <2>1. 0 < Len(t) => 1 \in 1..Len(t)
    BY <1>3
  <2>2. ~(1 > 1) /\ 0 + 1 = 1
    OBVIOUS
  <2>3. 0 < Len(t) => (Second(t)[1] <=> 1 > 1 /\ ~Second(t)[1 - 1] /\ IsPair(t, 1 - 1))
    BY <1>3, <2>1, SecondIs
  <2>4. QED
    BY ONLY <2>2, <2>3, Zenon
<1>5. Written(t, 0) = << >> /\ Wanted(t, 0) = << >>
  BY DEF Written, Wanted, Flat
<1>6. r' = start + Len(Written(t, 0)) /\ w' = start + Len(Wanted(t, 0))
  BY <1>1, <1>5
<1>7. \A i \in r'..(end - 1) : mem'[i] = body[i - start + 1]
  <2> TAKE i \in r'..(end - 1)
  <2>1. i \in start..(end - 1) /\ i # end
    BY <1>1
  <2>2. i \in DOMAIN mem => mem'[i] = mem[i]
    BY <1>1, <2>1
  <2>3. i \in DOMAIN mem
    <3>1. N \in Nat /\ start >= 1 /\ end <= N /\ DOMAIN mem = 1..N
      BY Places DEF IInv, BufferOK
    <3>2. QED
      BY <1>1, <2>1, <3>1
  <2>4. QED
    BY <2>1, <2>2, <2>3
<1>8. \A i \in start..(w' - 1) : mem'[i] = Wanted(t, 0)[i - start + 1]
  <2>1. start..(w' - 1) = {}
    BY <1>1
  <2>2. QED
    BY ONLY <2>1, Zenon
<1>9. Consumed(t, 0)'
  BY ONLY <1>1, <1>4, <1>6, <1>7, <1>8, Zenon DEF Consumed
<1>10. QED
  BY ONLY <1>2, <1>3, <1>9, Zenon

LEMMA TextStepFaithful ==
  ASSUME IInv, Faithful, TextNext, NEW t \in plain
  PROVE  /\ stage' \in {"decoding", "read"}
         /\ stage' = "decoding" => \E n \in 0..Len(t) : Consumed(t, n)'
         /\ stage' = "read" => Result' = LineBreaks(t)
<1>1. Printed(t) /\ stage \in {"parsed", "decoding", "read"}
  BY DEF Faithful
<1>2. CASE Flush
  <2>1. \A i \in start..(end - 1) : mem[i] = body[i - start + 1]
    BY <1>2 DEF Flush, Faithful
  <2>2. stage' = "decoding" /\ \E n \in 0..Len(t) : Consumed(t, n)'
    BY <1>1, <1>2, <2>1, FlushFaithful
  <2>3. QED
    BY <2>2
<1>3. CASE DecodeNewline \/ DecodeCharacterRef \/ DecodeEntity \/ SkipUnknown \/ DecodeOther
  <2>1. stage = "decoding" /\ stage' = stage
    BY <1>3 DEF DecodeNewline, DecodeCharacterRef, DecodeEntity, SkipUnknown, DecodeOther,
                Decoding
  <2>2. PICK n \in 0..Len(t) : Consumed(t, n)
    BY <2>1 DEF Faithful
  <2>3. \E m \in 0..Len(t) : Consumed(t, m)'
    BY <1>1, <1>3, <2>2, NewlineFaithful, ReferenceFaithful, OtherFaithful
  <2>4. QED
    BY <2>1, <2>3
<1>4. CASE DecodeEnd
  <2>1. stage = "decoding"
    BY <1>4 DEF DecodeEnd
  <2>2. PICK n \in 0..Len(t) : Consumed(t, n)
    BY <2>1 DEF Faithful
  <2>3. stage' = "read" /\ Result' = LineBreaks(t)
    BY <1>1, <1>4, <2>2, EndFaithful
  <2>4. QED
    BY <2>3
<1>5. CASE Trim \/ Collapse \/ CollapseEnd
  BY <1>1, <1>5 DEF Trim, Collapse, CollapseEnd
<1>6. QED
  BY <1>2, <1>3, <1>4, <1>5 DEF TextNext

LEMMA StepFaithful ==
  ASSUME IInv, Faithful, [TextNext]_textVars
  PROVE  Faithful'
<1>1. CASE UNCHANGED textVars
  BY <1>1 DEF textVars, Faithful, Printed, Consumed, Result, start, end
<1>2. CASE TextNext
  <2>1. plain' = plain /\ body' = body /\ flags' = flags
    BY <1>2 DEF TextNext, Flush, DecodeNewline, DecodeCharacterRef, DecodeEntity,
                SkipUnknown, DecodeOther, DecodeEnd, Trim, Collapse, CollapseEnd
  <2>2. \A t \in plain' : Printed(t)'
    BY <2>1 DEF Faithful, Printed
  <2>3. \A t \in plain' :
          /\ stage' \in {"decoding", "read"}
          /\ stage' = "decoding" => \E n \in 0..Len(t) : Consumed(t, n)'
          /\ stage' = "read" => Result' = LineBreaks(t)
    BY <1>2, <2>1, TextStepFaithful
  <2>4. stage' \in {"decoding", "read"} =>
          stage' # "parsed" /\ stage' \in {"parsed", "decoding", "read"}
    OBVIOUS
  <2>5. QED
    BY ONLY <2>2, <2>3, <2>4, Zenon DEF Faithful
<1>3. QED
  BY <1>1, <1>2

\* Every text that was printed, in whatever buffer, is read as it was but for its
\* line breaks.
THEOREM PrintedTextsSurvive == TextSpec => []PrintedTextSurvives
<1>1. TextInit => IInv /\ Faithful
  BY InitIInv, InitFaithful
<1>2. IInv /\ Faithful /\ [TextNext]_textVars => IInv' /\ Faithful'
  BY StepIInv, StepFaithful
<1>3. Faithful => PrintedTextSurvives
  BY DEF Faithful, PrintedTextSurvives
<1>4. QED
  BY <1>1, <1>2, <1>3, PTL DEF TextSpec
=============================================================================
